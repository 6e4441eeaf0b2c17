---------------------------- MODULE Accounts_proofs --------------------------
(***************************************************************************)
(* Proofs about an account's sessions and about what its deletion leaves:  *)
(* about Sessions, for any number of processes, requests and revocations   *)
(* and any life of the cache, and about AccountPurge, for any number of    *)
(* processes, writers and objects and any times that leave room for each   *)
(* other (GraceAssumption).  The two share no constant and no variable.    *)
(***************************************************************************)
EXTENDS Sessions, AccountPurge, TLAPS

------------------------------------------------------------------------------
(***************************************************************************)
(* Sessions                                                                *)
(***************************************************************************)
(* The inductive invariant. *)

\* Epochs end in their order, and only the newest can be valid.
SinceInv ==
  /\ exists => since[epoch] = 0
  /\ \A e \in Epochs : e > epoch => since[e] = 0
  /\ \A e, f \in Epochs : e < f => since[f] <= since[e]

\* What is known about a value somebody read when it has n ticks yet to live.
Known(answer, n) ==
  /\ answer = Missing => ~ exists
  /\ answer \in Epochs => answer <= epoch /\ since[answer] + n <= TTL

SoundEntry(c) == c.left > 0 => Known(c.epoch, c.left)

CacheInv == \A i \in Instances : SoundEntry(cache[i])

Looking(q) ==
  q.pc \in {"lookup", "store"} => q.token <= epoch /\ q.late <= since[q.token]

Found(q) ==
  q.pc = "store" =>
    /\ Known(q.found, TTL - q.age)
    /\ q.found \in Epochs => q.token <= q.found
    /\ q.found = q.token => q.late = 0

Told(q) == q.pc \in {"accepted", "refused"} => q.late < TTL

Sound(q) == Looking(q) /\ Found(q) /\ Told(q)

CheckInv == \A r \in Requests : Sound(req[r])

Inv == TypeOK /\ SinceInv /\ CacheInv /\ CheckInv

------------------------------------------------------------------------------
(* Types. *)

LEMMA IdleType == Idle \in Request /\ NoEntry \in Entry
BY TTLAssumption, MaxEpochAssumption
DEF Idle, Request, NoEntry, Entry, Epochs, Ticks, Answers

LEMMA MissingIsNoEpoch == Missing \notin Epochs
BY ValuesAssumption DEF Epochs

\* What LagAccepted and LagRefused return, and what ageing does.
LEMMA TickTypes ==
  /\ \A n \in Ticks : Later(n) \in Ticks
  /\ \A c \in Entry : Aged(c) \in Entry
  /\ \A q \in Request : Older(q) \in Request
<1>1. \A n \in Ticks : Later(n) \in Ticks
  BY TTLAssumption DEF Later, Ticks
<1>2. ASSUME NEW c \in Entry PROVE Aged(c) \in Entry
  <2>1. CASE c.left > 1
    BY <2>1, <1>2, TTLAssumption DEF Aged, Entry, Ticks
  <2>2. CASE ~ c.left > 1
    BY <2>2, IdleType DEF Aged
  <2>. QED BY <2>1, <2>2
<1>3. ASSUME NEW q \in Request PROVE Older(q) \in Request
  <2>1. q.age \in Ticks
    BY DEF Request
  <2>2. Later(q.age) \in Ticks
    BY <2>1, <1>1
  <2>. QED BY <2>2 DEF Older, Request
<1>. QED BY <1>1, <1>2, <1>3

LEMMA LagTypes ==
  ASSUME TypeOK, NEW e \in Epochs
  PROVE  LagAccepted(e) \in Ticks /\ LagRefused(e) \in Ticks
<1>1. LagAccepted(e) \in Ticks
  BY DEF TypeOK, LagAccepted
<1>2. e # 0 => e - 1 \in Epochs
  BY MaxEpochAssumption DEF Epochs
<1>3. 0 \in Ticks /\ TTL \in Ticks
  BY TTLAssumption DEF Ticks
<1>. QED BY <1>1, <1>2, <1>3 DEF TypeOK, LagRefused

LEMMA InitType == Init => TypeOK
<1>1. 0 \in Epochs /\ 0 \in Ticks
  BY TTLAssumption, MaxEpochAssumption DEF Epochs, Ticks
<1>. QED BY <1>1, IdleType DEF Init, TypeOK

LEMMA HandleType == ASSUME TypeOK, NEW r \in Requests, Handle(r) PROVE TypeOK'
<1>0. req[r] \in Request
  BY DEF TypeOK
<1>1. ASSUME NEW i \in Instances, NEW e \in Epochs, CheckCached(r, i, e) PROVE TypeOK'
  <2>1. LagAccepted(e) \in Ticks /\ LagRefused(e) \in Ticks
    BY LagTypes
  <2>2. PICK pc \in {"accepted", "refused"}, late \in Ticks : Answer(r, i, pc, late)
    BY <1>1, <2>1 DEF CheckCached
  <2>3. [Idle EXCEPT !.pc = pc, !.at = i, !.late = late] \in Request
    BY <2>2, IdleType DEF Idle, Request
  <2>. QED BY <1>1, <2>2, <2>3 DEF TypeOK, CheckCached, Answer
<1>2. ASSUME NEW i \in Instances, NEW e \in Epochs, CheckAfresh(r, i, e) PROVE TypeOK'
  <2>1. LagAccepted(e) \in Ticks
    BY LagTypes
  <2>2. [Idle EXCEPT !.pc = "lookup", !.at = i, !.token = e, !.late = LagAccepted(e)]
          \in Request
    BY <2>1, IdleType DEF Idle, Request
  <2>. QED BY <1>2, <2>2 DEF TypeOK, CheckAfresh
<1>3. CASE LookUp(r)
  <2>1. (IF exists THEN epoch ELSE Missing) \in Answers
    BY DEF TypeOK, Answers
  <2>2. [req[r] EXCEPT !.pc = "store", !.found = IF exists THEN epoch ELSE Missing]
          \in Request
    BY <1>0, <2>1 DEF Request
  <2>3. req' = [req EXCEPT ![r] =
                  [req[r] EXCEPT !.pc = "store",
                                 !.found = IF exists THEN epoch ELSE Missing]]
    BY <1>3, <1>0 DEF LookUp, Request, TypeOK
  <2>. QED BY <1>3, <2>2, <2>3 DEF TypeOK, LookUp
<1>4. CASE LookUpFails(r)
  BY <1>4, IdleType DEF TypeOK, LookUpFails, Done
<1>5. CASE Store(r)
  <2>1. req[r].token \in Epochs /\ req[r].late \in Ticks /\ req[r].at \in Instances \cup {Nowhere}
    BY <1>0 DEF Request
  <2>2. LagRefused(req[r].token) \in Ticks
    BY <2>1, LagTypes
  <2>3. PICK pc \in {"accepted", "refused"}, late \in Ticks : Answer(r, req[r].at, pc, late)
    BY <1>5, <2>1, <2>2 DEF Store
  <2>4. [Idle EXCEPT !.pc = pc, !.at = req[r].at, !.late = late] \in Request
    BY <2>1, <2>3, IdleType DEF Idle, Request
  <2>5. req' \in [Requests -> Request]
    BY <2>3, <2>4 DEF TypeOK, Answer
  <2>6. NewEntry(r) \in Entry
    <3>1. req[r].age \in Ticks /\ req[r].found \in Answers
      BY <1>0 DEF Request
    <3>2. Left(r) \in Ticks
      BY <3>1, TTLAssumption DEF Left, Ticks
    <3>. QED BY <3>1, <3>2, IdleType DEF NewEntry, Entry
  <2>. QED BY <1>5, <2>5, <2>6 DEF TypeOK, Store
<1>6. CASE Finish(r)
  BY <1>6, IdleType DEF TypeOK, Finish, Done
<1>7. CASE Forget(r)
  BY <1>7, IdleType DEF TypeOK, Forget, Done
<1>8. ASSUME NEW pc \in {"revoked", "deleted"}, NEW answered \in BOOLEAN,
             req' = After(r, pc, answered)
      PROVE  req' \in [Requests -> Request]
  <2>1. req[r].at \in Instances \cup {Nowhere}
    BY <1>0 DEF Request
  <2>2. [Idle EXCEPT !.pc = pc, !.at = req[r].at] \in Request
    BY <2>1, IdleType DEF Idle, Request
  <2>. QED BY <1>8, <2>2, IdleType DEF TypeOK, After, At, Done
<1>9. ASSUME NEW answered \in BOOLEAN, RevokeSessions(r, answered) PROVE TypeOK'
  <2>1. epoch + 1 \in Epochs
    BY <1>9, MaxEpochAssumption DEF TypeOK, RevokeSessions, Epochs
  <2>. QED BY <1>9, <1>8, <2>1 DEF TypeOK, RevokeSessions
<1>10. ASSUME NEW answered \in BOOLEAN, Delete(r, answered) PROVE TypeOK'
  BY <1>10, <1>8 DEF TypeOK, Delete
<1>. QED
  BY <1>1, <1>2, <1>3, <1>4, <1>5, <1>6, <1>7, <1>9, <1>10 DEF Handle

LEMMA NextType == TypeOK /\ [Next]_vars => TypeOK'
<1>. SUFFICES ASSUME TypeOK, [Next]_vars PROVE TypeOK'
  OBVIOUS
<1>1. ASSUME NEW r \in Requests, Handle(r) PROVE TypeOK'
  BY <1>1, HandleType
<1>2. ASSUME NEW i \in Instances, CacheCleared(i) PROVE TypeOK'
  BY <1>2, IdleType DEF TypeOK, CacheCleared
<1>3. ASSUME NEW i \in Instances, Restart(i) PROVE TypeOK'
  BY <1>3, IdleType DEF TypeOK, Restart
<1>4. CASE Tick
  BY <1>4, TickTypes DEF TypeOK, Tick
<1>5. CASE UNCHANGED vars
  BY <1>5 DEF TypeOK, vars
<1>. QED BY <1>1, <1>2, <1>3, <1>4, <1>5 DEF Next

\* Every variable keeps its type: in particular no entry's life passes zero.
THEOREM TypeCorrect == Spec => []TypeOK
<1>. QED BY InitType, NextType, PTL DEF Spec

------------------------------------------------------------------------------
(* The invariant. *)

LEMMA InitInv == Init => Inv
<1>. SUFFICES ASSUME Init PROVE Inv
  OBVIOUS
<1>1. TypeOK
  BY InitType
<1>2. SinceInv
  <2>1. 0 \in Epochs
    BY MaxEpochAssumption DEF Epochs
  <2>. QED BY <2>1 DEF Init, SinceInv
<1>3. CacheInv
  BY DEF Init, CacheInv, SoundEntry, NoEntry
<1>4. CheckInv
  BY DEF Init, CheckInv, Sound, Looking, Found, Told, Idle
<1>. QED BY <1>1, <1>2, <1>3, <1>4 DEF Inv

\* The steps that leave the account alone only have to keep the cache and the
\* requests sound.
LEMMA SameSince == SinceInv /\ UNCHANGED <<exists, epoch, since>> => SinceInv'
BY DEF SinceInv

\* A step of one request: the others are as sound as before.
LEMMA OneRequest ==
  ASSUME Inv, TypeOK', NEW r \in Requests, UNCHANGED <<exists, epoch, since>>,
         \A x \in Requests : x # r => req'[x] = req[x],
         Sound(req[r])'
  PROVE  CheckInv'
<1>. SUFFICES ASSUME NEW x \in Requests, x # r PROVE Sound(req[x])'
  BY DEF CheckInv
<1>1. Sound(req[x]) /\ req'[x] = req[x]
  BY DEF Inv, CheckInv
<1>. QED BY <1>1 DEF Sound, Looking, Found, Told, Known

LEMMA OneEntry ==
  ASSUME Inv, NEW i, UNCHANGED <<exists, epoch, since>>,
         \A x \in Instances : x # i => cache'[x] = cache[x],
         i \in Instances => SoundEntry(cache[i])'
  PROVE  CacheInv'
<1>. SUFFICES ASSUME NEW x \in Instances, x # i PROVE SoundEntry(cache[x])'
  BY DEF CacheInv
<1>1. SoundEntry(cache[x]) /\ cache'[x] = cache[x]
  BY DEF Inv, CacheInv
<1>. QED BY <1>1 DEF SoundEntry, Known

\* A request that ended, or one that changed the account, is sound.
LEMMA Quiet ==
  ASSUME NEW r \in Requests, req'[r].pc \in {"idle", "revoked", "deleted"}
  PROVE  Sound(req[r])'
BY DEF Sound, Looking, Found, Told

\* An answer from an entry that lives misses only what is younger than TTL.
LEMMA CachedLag ==
  ASSUME Inv, NEW i \in Instances, NEW e \in Epochs, Fresh(i), e <= epoch
  PROVE  /\ cache[i].epoch = e => LagAccepted(e) < TTL
         /\ cache[i].epoch # e => LagRefused(e) < TTL
<1>1. /\ SoundEntry(cache[i])
      /\ cache[i] \in Entry
      /\ since \in [Epochs -> Ticks]
      /\ epoch \in Epochs
  BY DEF Inv, CacheInv, TypeOK
<1>2. cache[i].left \in Nat /\ cache[i].left > 0 /\ cache[i].epoch \in Answers
  BY <1>1 DEF Entry, Ticks, Fresh
<1>3. Known(cache[i].epoch, cache[i].left)
  BY <1>1, <1>2 DEF SoundEntry
<1>4. ASSUME cache[i].epoch \in Epochs PROVE since[cache[i].epoch] < TTL
  <2>1. since[cache[i].epoch] \in Nat /\ since[cache[i].epoch] + cache[i].left <= TTL
    BY <1>1, <1>3, <1>4 DEF Known, Ticks
  <2>. QED BY <2>1, <1>2, TTLAssumption
<1>5. ASSUME cache[i].epoch = e PROVE LagAccepted(e) < TTL
  BY <1>4, <1>5 DEF LagAccepted
<1>6. ASSUME cache[i].epoch # e, Valid(e) PROVE LagRefused(e) < TTL
  <2>1. cache[i].epoch \in Epochs /\ cache[i].epoch < e
    BY <1>1, <1>2, <1>3, <1>6 DEF Known, Valid, Answers, Epochs
  <2>2. e # 0 /\ e - 1 \in Epochs /\ cache[i].epoch <= e - 1
    BY <2>1, MaxEpochAssumption DEF Epochs
  <2>3. since[e - 1] <= since[cache[i].epoch]
    <3>1. CASE cache[i].epoch = e - 1
      BY <3>1, <1>1, <2>2 DEF Ticks
    <3>2. CASE cache[i].epoch < e - 1
      BY <3>2, <2>1, <2>2 DEF Inv, SinceInv
    <3>. QED BY <3>1, <3>2, <2>1, <2>2 DEF Epochs
  <2>4. since[e - 1] < TTL
    BY <2>1, <2>2, <2>3, <1>1, <1>4, TTLAssumption DEF Ticks
  <2>. QED BY <2>2, <2>4, <1>6 DEF LagRefused
<1>7. ASSUME ~ Valid(e) PROVE LagRefused(e) < TTL
  BY <1>7, TTLAssumption DEF LagRefused
<1>. QED BY <1>5, <1>6, <1>7

LEMMA CheckCachedInv ==
  ASSUME Inv, TypeOK', NEW r \in Requests, NEW i \in Instances, NEW e \in Epochs,
         CheckCached(r, i, e)
  PROVE  Inv'
<1>1. UNCHANGED <<exists, epoch, since, cache>>
  BY DEF CheckCached
<1>2. PICK pc \in {"accepted", "refused"}, late \in Ticks :
        late < TTL /\ Answer(r, i, pc, late)
  <2>1. LagAccepted(e) \in Ticks /\ LagRefused(e) \in Ticks
    BY LagTypes DEF Inv
  <2>. QED BY <2>1, CachedLag DEF CheckCached
<1>3. req'[r].pc = pc /\ req'[r].late = late
  BY <1>2 DEF Answer, Inv, TypeOK, Idle
<1>4. Sound(req[r])'
  BY <1>2, <1>3 DEF Sound, Looking, Found, Told
<1>5. \A x \in Requests : x # r => req'[x] = req[x]
  BY <1>2 DEF Answer, Inv, TypeOK
<1>6. CheckInv'
  BY <1>1, <1>4, <1>5, OneRequest
<1>7. CacheInv'
  BY <1>1 DEF Inv, CacheInv, SoundEntry, Known
<1>. QED BY <1>1, <1>6, <1>7, SameSince DEF Inv

LEMMA CheckAfreshInv ==
  ASSUME Inv, TypeOK', NEW r \in Requests, NEW i \in Instances, NEW e \in Epochs,
         CheckAfresh(r, i, e)
  PROVE  Inv'
<1>1. UNCHANGED <<exists, epoch, since, cache>>
  BY DEF CheckAfresh
<1>2. /\ req'[r].pc = "lookup"
      /\ req'[r].token = e
      /\ req'[r].late = since[e]
  BY DEF CheckAfresh, LagAccepted, Inv, TypeOK, Idle
<1>3. Sound(req[r])'
  <2>1. e <= epoch /\ since[e] <= since[e]
    BY DEF CheckAfresh, Inv, TypeOK, Ticks
  <2>. QED BY <1>1, <1>2, <2>1 DEF Sound, Looking, Found, Told
<1>4. \A x \in Requests : x # r => req'[x] = req[x]
  BY DEF CheckAfresh, Inv, TypeOK
<1>5. CheckInv'
  BY <1>1, <1>3, <1>4, OneRequest
<1>6. CacheInv'
  BY <1>1 DEF Inv, CacheInv, SoundEntry, Known
<1>. QED BY <1>1, <1>5, <1>6, SameSince DEF Inv

LEMMA LookUpInv ==
  ASSUME Inv, TypeOK', NEW r \in Requests, LookUp(r) PROVE Inv'
<1>1. UNCHANGED <<exists, epoch, since, cache>>
  BY DEF LookUp
<1>2. /\ req[r] \in Request
      /\ Looking(req[r])
      /\ epoch \in Epochs
      /\ since \in [Epochs -> Ticks]
  BY DEF Inv, TypeOK, CheckInv, Sound
<1>3. /\ req'[r].pc = "store"
      /\ req'[r].token = req[r].token
      /\ req'[r].late = req[r].late
      /\ req'[r].age = req[r].age
      /\ req'[r].found = IF exists THEN epoch ELSE Missing
  BY <1>2 DEF LookUp, Inv, TypeOK, Request
<1>4. req[r].token \in Epochs /\ req[r].age \in Ticks /\ req[r].late \in Ticks
  BY <1>2 DEF Request
<1>5. req[r].token <= epoch /\ req[r].late <= since[req[r].token]
  BY <1>2 DEF LookUp, Looking
<1>6. ASSUME exists PROVE Sound(req[r])'
  <2>1. since[epoch] = 0 /\ epoch # Missing
    BY <1>2, <1>6, MissingIsNoEpoch DEF Inv, SinceInv
  <2>2. epoch = req[r].token => req[r].late = 0
    BY <1>4, <1>5, <2>1 DEF Ticks
  <2>3. epoch <= epoch /\ since[epoch] + (TTL - req[r].age) <= TTL
    BY <2>1, <1>2, <1>4, TTLAssumption DEF Ticks, Epochs
  <2>. QED
    BY <1>1, <1>3, <1>5, <1>6, <2>1, <2>2, <2>3
    DEF Sound, Looking, Found, Told, Known
<1>7. ASSUME ~ exists PROVE Sound(req[r])'
  <2>1. Missing \notin Epochs /\ Missing # req[r].token
    BY <1>4, MissingIsNoEpoch
  <2>. QED BY <1>1, <1>3, <1>5, <1>7, <2>1 DEF Sound, Looking, Found, Told, Known
<1>8. \A x \in Requests : x # r => req'[x] = req[x]
  BY DEF LookUp, Inv, TypeOK
<1>9. CheckInv'
  BY <1>1, <1>6, <1>7, <1>8, OneRequest
<1>10. CacheInv'
  BY <1>1 DEF Inv, CacheInv, SoundEntry, Known
<1>. QED BY <1>1, <1>9, <1>10, SameSince DEF Inv

LEMMA StoreInv ==
  ASSUME Inv, TypeOK', NEW r \in Requests, Store(r) PROVE Inv'
<1>1. UNCHANGED <<exists, epoch, since>> /\ req[r].pc = "store"
  BY DEF Store
<1>2. /\ req[r] \in Request
      /\ Looking(req[r])
      /\ Found(req[r])
      /\ epoch \in Epochs
  BY DEF Inv, TypeOK, CheckInv, Sound
<1>3. /\ req[r].token \in Epochs /\ req[r].token <= epoch
      /\ req[r].late \in Ticks
      /\ req[r].age \in Ticks
      /\ req[r].found \in Answers
      /\ Known(req[r].found, TTL - req[r].age)
      /\ req[r].found \in Epochs => req[r].token <= req[r].found
      /\ req[r].found = req[r].token => req[r].late = 0
  BY <1>1, <1>2 DEF Request, Looking, Found
\* A check that looked the epoch up refuses no valid token.
<1>4. ASSUME req[r].found # req[r].token PROVE ~ Valid(req[r].token)
  <2>1. CASE req[r].found = Missing
    BY <2>1, <1>3 DEF Known, Valid
  <2>2. CASE req[r].found \in Epochs
    <3>1. req[r].token <= req[r].found /\ req[r].found <= epoch
      BY <2>2, <1>3 DEF Known
    <3>. QED BY <3>1, <2>2, <1>2, <1>3, <1>4 DEF Valid, Epochs
  <2>. QED BY <2>1, <2>2, <1>3 DEF Answers
<1>5. PICK pc \in {"accepted", "refused"}, late \in Ticks :
        late < TTL /\ Answer(r, req[r].at, pc, late)
  <2>1. 0 \in Ticks /\ 0 < TTL
    BY TTLAssumption DEF Ticks
  <2>2. CASE req[r].found = req[r].token
    BY <2>1, <2>2, <1>3 DEF Store
  <2>3. CASE req[r].found # req[r].token
    BY <2>1, <2>3, <1>4 DEF Store, LagRefused
  <2>. QED BY <2>2, <2>3
<1>6. Sound(req[r])'
  <2>1. req'[r].pc = pc /\ req'[r].late = late
    BY <1>5 DEF Answer, Inv, TypeOK, Idle
  <2>. QED BY <1>5, <2>1 DEF Sound, Looking, Found, Told
<1>7. \A x \in Requests : x # r => req'[x] = req[x]
  BY <1>5 DEF Answer, Inv, TypeOK
<1>8. CheckInv'
  BY <1>1, <1>6, <1>7, OneRequest
<1>9. PICK i \in Instances \cup {Nowhere} : i = req[r].at
  BY <1>2 DEF Request
<1>10. \A x \in Instances : x # i => cache'[x] = cache[x]
  BY <1>9 DEF Store, Inv, TypeOK
<1>11. ASSUME i \in Instances PROVE SoundEntry(cache[i])'
  <2>1. cache'[i] = NewEntry(r)
    BY <1>9, <1>11 DEF Store, Inv, TypeOK
  <2>2. CASE Left(r) = 0
    <3>1. cache'[i].left = 0
      BY <2>1, <2>2 DEF NewEntry, NoEntry
    <3>. QED BY <3>1 DEF SoundEntry
  <2>3. CASE Left(r) # 0
    <3>1. cache'[i].epoch = req[r].found /\ cache'[i].left = TTL - req[r].age
      BY <2>1, <2>3 DEF NewEntry, Left
    <3>. QED BY <3>1, <1>1, <1>3 DEF SoundEntry, Known
  <2>. QED BY <2>2, <2>3
<1>12. CacheInv'
  BY <1>1, <1>10, <1>11, OneEntry
<1>. QED BY <1>1, <1>8, <1>12, SameSince DEF Inv

\* Ends of requests, Forget, an emptied cache and a restart only take away.
LEMMA DoneInv ==
  ASSUME Inv, TypeOK', UNCHANGED <<exists, epoch, since>>,
         \A r \in Requests : req'[r] \in {req[r], Idle},
         \A i \in Instances : cache'[i] \in {cache[i], NoEntry}
  PROVE  Inv'
<1>1. ASSUME NEW r \in Requests PROVE Sound(req[r])'
  <2>1. CASE req'[r] = req[r]
    <3>1. Sound(req[r])
      BY DEF Inv, CheckInv
    <3>. QED BY <2>1, <3>1 DEF Sound, Looking, Found, Told, Known
  <2>2. CASE req'[r] = Idle
    BY <2>2, Quiet DEF Idle
  <2>. QED BY <2>1, <2>2
<1>2. ASSUME NEW i \in Instances PROVE SoundEntry(cache[i])'
  <2>1. CASE cache'[i] = cache[i]
    <3>1. SoundEntry(cache[i])
      BY DEF Inv, CacheInv
    <3>. QED BY <2>1, <3>1 DEF SoundEntry, Known
  <2>2. CASE cache'[i] = NoEntry
    BY <2>2 DEF SoundEntry, NoEntry
  <2>. QED BY <2>1, <2>2
<1>. QED BY <1>1, <1>2, SameSince DEF Inv, CacheInv, CheckInv

LEMMA TakingAway ==
  ASSUME Inv, TypeOK',
         \/ \E r \in Requests : LookUpFails(r) \/ Finish(r) \/ Forget(r)
         \/ \E i \in Instances : CacheCleared(i) \/ Restart(i)
  PROVE  Inv'
<1>1. UNCHANGED <<exists, epoch, since>>
  BY DEF LookUpFails, Finish, Forget, CacheCleared, Restart
<1>2. ASSUME NEW r \in Requests PROVE req'[r] \in {req[r], Idle}
  BY DEF LookUpFails, Finish, Forget, CacheCleared, Restart, Done, Inv, TypeOK
<1>3. ASSUME NEW i \in Instances PROVE cache'[i] \in {cache[i], NoEntry}
  BY DEF LookUpFails, Finish, Forget, CacheCleared, Restart, Inv, TypeOK
<1>. QED BY <1>1, <1>2, <1>3, DoneInv

\* What somebody knows about the account stays true when its sessions end or
\* it is deleted: it was read before.
LEMMA KnownStays ==
  ASSUME TypeOK, UNCHANGED since, epoch' \in Epochs, epoch <= epoch',
         exists' => exists, NEW answer, NEW n, Known(answer, n)
  PROVE  Known(answer, n)'
BY DEF TypeOK, Known, Epochs

\* The statement of a handler that revokes or deletes.
LEMMA EndingInv ==
  ASSUME Inv, TypeOK', NEW r \in Requests, UNCHANGED <<since, cache>>,
         epoch <= epoch', exists' => exists /\ since[epoch'] = 0,
         req' \in {At(r, req[r].at, "revoked"), At(r, req[r].at, "deleted"), Done(r)}
  PROVE  Inv'
<1>1. epoch \in Epochs /\ epoch' \in Epochs /\ since \in [Epochs -> Ticks]
  BY DEF Inv, TypeOK
<1>2. SinceInv'
  <2>1. \A e \in Epochs : e > epoch' => since'[e] = 0
    BY <1>1 DEF Inv, SinceInv, Epochs
  <2>. QED BY <2>1 DEF Inv, SinceInv
<1>3. ASSUME NEW x \in Requests PROVE Sound(req[x])'
  <2>1. CASE x = r
    <3>1. \A pc \in {"revoked", "deleted"} :
            [Idle EXCEPT !.pc = pc, !.at = req[r].at].pc = pc
      BY DEF Idle
    <3>2. \A pc \in {"revoked", "deleted"} : At(r, req[r].at, pc)[r].pc = pc
      BY <3>1 DEF At, Inv, TypeOK
    <3>3. Done(r)[r].pc = "idle"
      BY DEF Done, Idle, Inv, TypeOK
    <3>4. req'[r].pc \in {"idle", "revoked", "deleted"}
      BY <3>2, <3>3
    <3>. QED BY <2>1, <3>4, Quiet
  <2>2. CASE x # r
    <3>1. req'[x] = req[x]
      BY <2>2 DEF At, Done, Inv, TypeOK
    <3>2. PICK q \in Request : q = req[x]
      BY DEF Inv, TypeOK
    <3>3. Looking(q) /\ Found(q) /\ Told(q)
      BY <3>2 DEF Inv, CheckInv, Sound
    <3>4. q.token \in Epochs
      BY DEF Request
    <3>5. Looking(q)'
      BY <1>1, <3>3, <3>4 DEF Looking, Epochs
    <3>6. Known(q.found, TTL - q.age) => Known(q.found, TTL - q.age)'
      BY <1>1, KnownStays DEF Inv
    <3>7. Found(q)'
      BY <3>3, <3>6 DEF Found
    <3>8. Told(q)'
      BY <3>3 DEF Told
    <3>9. Sound(q)'
      BY <3>5, <3>7, <3>8 DEF Sound
    <3>. QED BY <3>1, <3>2, <3>9 DEF Sound, Looking, Found, Told, Known
  <2>. QED BY <2>1, <2>2
<1>4. ASSUME NEW i \in Instances PROVE SoundEntry(cache[i])'
  <2>1. PICK c \in Entry : c = cache[i]
    BY DEF Inv, TypeOK
  <2>2. SoundEntry(c)
    BY <2>1 DEF Inv, CacheInv
  <2>3. Known(c.epoch, c.left) => Known(c.epoch, c.left)'
    BY <1>1, KnownStays DEF Inv
  <2>4. cache'[i] = c
    BY <2>1
  <2>. QED BY <2>2, <2>3, <2>4 DEF SoundEntry, Known
<1>. QED BY <1>2, <1>3, <1>4 DEF Inv, CacheInv, CheckInv

LEMMA RevokeInv ==
  ASSUME Inv, TypeOK', NEW r \in Requests, NEW answered \in BOOLEAN,
         RevokeSessions(r, answered)
  PROVE  Inv'
<1>1. epoch' = epoch + 1 /\ exists /\ UNCHANGED <<since, cache>> /\ epoch \in Epochs
  BY DEF RevokeSessions, Inv, TypeOK
<1>2. epoch <= epoch' /\ epoch' > epoch /\ epoch' \in Epochs
  BY <1>1 DEF Epochs, Inv, TypeOK
<1>3. since[epoch'] = 0
  BY <1>2 DEF Inv, SinceInv
<1>4. req' \in {At(r, req[r].at, "revoked"), At(r, req[r].at, "deleted"), Done(r)}
  BY DEF RevokeSessions, After
<1>. QED BY <1>1, <1>2, <1>3, <1>4, EndingInv

LEMMA DeleteInv ==
  ASSUME Inv, TypeOK', NEW r \in Requests, NEW answered \in BOOLEAN,
         Delete(r, answered)
  PROVE  Inv'
<1>1. epoch' = epoch /\ exists' = FALSE /\ UNCHANGED <<since, cache>> /\ epoch \in Epochs
  BY DEF Delete, Inv, TypeOK
<1>2. epoch <= epoch'
  BY <1>1 DEF Epochs
<1>3. req' \in {At(r, req[r].at, "revoked"), At(r, req[r].at, "deleted"), Done(r)}
  BY DEF Delete, After
<1>. QED BY <1>1, <1>2, <1>3, EndingInv

\* A tick ages every epoch that ended by one, up to TTL, and no other.
LEMMA TickSince ==
  ASSUME TypeOK, Tick, NEW e \in Epochs
  PROVE  /\ since[e] \in Nat /\ since'[e] \in Nat
         /\ since[e] <= TTL /\ since'[e] <= TTL
         /\ since[e] <= since'[e]
         /\ since'[e] <= since[e] + 1
<1>1. since[e] \in 0..TTL
  BY DEF TypeOK, Ticks
<1>2. since'[e] \in {since[e], Later(since[e])}
  BY DEF Tick
<1>. QED BY <1>1, <1>2, TTLAssumption DEF Later

LEMMA TickKnown ==
  ASSUME TypeOK, Tick, NEW answer, NEW n \in Nat, Known(answer, n)
  PROVE  Known(answer, IF n > 0 THEN n - 1 ELSE 0)'
<1>1. UNCHANGED <<exists, epoch>>
  BY DEF Tick
<1>2. ASSUME answer \in Epochs
      PROVE  answer <= epoch' /\ since'[answer] + (IF n > 0 THEN n - 1 ELSE 0) <= TTL
  <2>1. answer <= epoch' /\ since[answer] + n <= TTL
    BY <1>1, <1>2 DEF Known
  <2>. QED BY <2>1, <1>2, TickSince, TTLAssumption
<1>. QED BY <1>1, <1>2 DEF Known

LEMMA TickSinceInv == ASSUME Inv, TypeOK', Tick PROVE SinceInv'
<1>0. TypeOK /\ SinceInv /\ epoch \in Epochs /\ epoch \in Nat
  BY DEF Inv, TypeOK, Epochs
<1>1. exists' = exists /\ epoch' = epoch
  BY DEF Tick
<1>2. \A e \in Epochs :
        since'[e] = IF e <= epoch /\ ~ Valid(e) THEN Later(since[e]) ELSE since[e]
  BY DEF Tick
<1>3. exists => since'[epoch] = 0
  BY <1>0, <1>2 DEF Valid, SinceInv
<1>4. ASSUME NEW e \in Epochs, e > epoch PROVE since'[e] = 0
  <2>1. ~ e <= epoch
    BY <1>0, <1>4 DEF Epochs
  <2>. QED BY <2>1, <1>0, <1>2, <1>4 DEF SinceInv
<1>5. ASSUME NEW e \in Epochs, NEW f \in Epochs, e < f PROVE since'[f] <= since'[e]
  <2>1. since[f] <= since[e] /\ since[f] \in 0..TTL /\ since[e] \in 0..TTL
    BY <1>0, <1>5 DEF SinceInv, TypeOK, Ticks
  <2>2. CASE f <= epoch
    <3>1. e <= epoch /\ e # epoch
      BY <2>2, <1>0, <1>5 DEF Epochs
    <3>2. since'[e] = Later(since[e])
      BY <3>1, <1>2 DEF Valid
    <3>3. since'[f] \in {since[f], Later(since[f])}
      BY <1>2
    <3>. QED BY <2>1, <3>2, <3>3, TTLAssumption DEF Later
  <2>3. CASE ~ f <= epoch
    <3>1. since'[f] = 0
      BY <2>3, <1>0, <1>4 DEF Epochs
    <3>2. since'[e] \in Nat
      BY <1>0, TickSince
    <3>. QED BY <3>1, <3>2
  <2>. QED BY <2>2, <2>3
<1>. QED BY <1>1, <1>3, <1>4, <1>5 DEF SinceInv

LEMMA TickInv == ASSUME Inv, TypeOK', Tick PROVE Inv'
<1>1. TypeOK /\ epoch' = epoch /\ exists' = exists
  BY DEF Inv, Tick
<1>2. ASSUME NEW i \in Instances PROVE SoundEntry(cache[i])'
  <2>1. PICK c \in Entry : c = cache[i]
    BY <1>1 DEF TypeOK
  <2>2. cache'[i] = Aged(c)
    BY <2>1 DEF Tick
  <2>3. c.left \in Nat
    BY DEF Entry, Ticks
  <2>4. CASE c.left > 1
    <3>1. Known(c.epoch, c.left)
      BY <2>1, <2>3, <2>4 DEF Inv, CacheInv, SoundEntry
    <3>2. Known(c.epoch, IF c.left > 0 THEN c.left - 1 ELSE 0)'
      BY <1>1, <2>3, <3>1, TickKnown
    <3>3. Known(c.epoch, c.left - 1)'
      BY <2>3, <2>4, <3>2 DEF Known
    <3>4. cache'[i].epoch = c.epoch /\ cache'[i].left = c.left - 1
      BY <2>2, <2>4 DEF Aged, Entry
    <3>. QED BY <3>3, <3>4 DEF SoundEntry, Known
  <2>5. CASE ~ c.left > 1
    BY <2>2, <2>5 DEF Aged, NoEntry, SoundEntry
  <2>. QED BY <2>4, <2>5
<1>3. ASSUME NEW r \in Requests PROVE Sound(req[r])'
  <2>1. PICK q \in Request : q = req[r]
    BY <1>1 DEF TypeOK
  <2>2. req'[r] = Older(q)
    BY <2>1 DEF Tick
  <2>3. Looking(q) /\ Found(q) /\ Told(q)
    BY <2>1 DEF Inv, CheckInv, Sound
  <2>4. /\ q.age \in Ticks /\ q.late \in Ticks /\ q.token \in Epochs
        /\ since[q.token] <= since'[q.token]
        /\ since[q.token] \in Nat /\ since'[q.token] \in Nat
    BY <1>1, TickSince DEF Request
  <2>5. /\ req'[r].pc = q.pc /\ req'[r].token = q.token
        /\ req'[r].found = q.found /\ req'[r].late = q.late
        /\ q.pc = "store" => req'[r].age = Later(q.age)
    BY <2>2 DEF Older, Request
  <2>6. Looking(req[r])'
    BY <1>1, <2>3, <2>4, <2>5 DEF Looking, Ticks
  <2>7. ASSUME q.pc = "store" PROVE Known(q.found, TTL - Later(q.age))'
    <3>1. TTL - q.age \in Nat /\ Known(q.found, TTL - q.age)
      BY <2>3, <2>4, <2>7, TTLAssumption DEF Found, Ticks
    <3>2. Known(q.found, IF TTL - q.age > 0 THEN TTL - q.age - 1 ELSE 0)'
      BY <1>1, <3>1, TickKnown
    <3>3. TTL - Later(q.age) = IF TTL - q.age > 0 THEN TTL - q.age - 1 ELSE 0
      BY <2>4, TTLAssumption DEF Later, Ticks
    <3>. QED BY <3>2, <3>3 DEF Known
  <2>8. Found(req[r])'
    BY <2>3, <2>5, <2>7 DEF Found, Known
  <2>9. Told(req[r])'
    BY <2>3, <2>5 DEF Told
  <2>. QED BY <2>6, <2>8, <2>9 DEF Sound
<1>. QED BY <1>2, <1>3, TickSinceInv DEF Inv, CacheInv, CheckInv

LEMMA NextInv == Inv /\ [Next]_vars => Inv'
<1>. SUFFICES ASSUME Inv, [Next]_vars PROVE Inv'
  OBVIOUS
<1>1. TypeOK'
  BY NextType DEF Inv
<1>2. ASSUME NEW r \in Requests, Handle(r) PROVE Inv'
  BY <1>1, <1>2, CheckCachedInv, CheckAfreshInv, LookUpInv, StoreInv, RevokeInv,
     DeleteInv, TakingAway DEF Handle
<1>3. ASSUME NEW i \in Instances, CacheCleared(i) \/ Restart(i) PROVE Inv'
  BY <1>1, <1>3, TakingAway
<1>4. CASE Tick
  BY <1>1, <1>4, TickInv
<1>5. CASE UNCHANGED vars
  <2>1. /\ \A r \in Requests : req'[r] \in {req[r], Idle}
        /\ \A i \in Instances : cache'[i] \in {cache[i], NoEntry}
        /\ UNCHANGED <<exists, epoch, since>>
    BY <1>5 DEF vars
  <2>. QED BY <1>1, <2>1, DoneInv
<1>. QED BY <1>2, <1>3, <1>4, <1>5 DEF Next

LEMMA AlwaysInv == Spec => []Inv
<1>. QED BY InitInv, NextInv, PTL DEF Spec

\* An ended session lets no request in that comes TTL or more after its end.
THEOREM SessionsEnd == Spec => []TokensEnd
<1>1. Inv => TokensEnd
  BY DEF Inv, CheckInv, Sound, Told, TokensEnd
<1>. QED BY <1>1, AlwaysInv, PTL

\* A new session is refused nowhere once it is TTL old.
THEOREM NewSessionsWork == Spec => []NewTokensWork
<1>1. Inv => NewTokensWork
  BY DEF Inv, CheckInv, Sound, Told, NewTokensWork
<1>. QED BY <1>1, AlwaysInv, PTL

------------------------------------------------------------------------------
(***************************************************************************)
(* AccountPurge                                                            *)
(***************************************************************************)
(* Types. *)

LEMMA Zeros ==
  /\ 0 \in 0..Grace /\ Grace \in 0..Grace
  /\ 0 \in 0..FormLife /\ FormLife \in 0..FormLife
  /\ 0 \in 0..WriteTime /\ 0 \in 0..SweepTime
BY TimesAssumption

LEMMA NoneTypes == NoWork \in Work /\ NoSweep \in Sweep
BY Zeros DEF NoWork, Work, NoSweep, Sweep

LEMMA BegunType == PurgeTypeOK => Begun \in Sweep
BY Zeros DEF PurgeTypeOK, Begun, Sweep

LEMMA LessType == \A m, n \in Nat : n \in 0..m => Less(n) \in 0..m
BY DEF Less

LEMMA PurgeInitType == PurgeInit => PurgeTypeOK
BY Zeros, NoneTypes DEF PurgeInit, PurgeTypeOK, Deletion

\* A sweep that is the one before with less to do, and a writer that begins.
LEMMA RecordTypes ==
  /\ \A s \in Sweep, t \in SUBSET Objects : [s EXCEPT !.todo = t] \in Sweep
  /\ \A k \in Work, o \in Objects : [k EXCEPT !.object = o] \in Work
  /\ \A d \in Deletion : [d EXCEPT !.state = "purged"] \in Deletion
BY DEF Sweep, Work, Deletion

LEMMA WriterType ==
  ASSUME PurgeTypeOK, NEW w \in Writers,
         WriterStep(w) \/ \E o \in Objects : Begin(w, o)
  PROVE  PurgeTypeOK'
<1>1. work[w] \in Work
  BY DEF PurgeTypeOK
<1>2. Busy(w) => work[w].object \in Objects
  BY <1>1 DEF Busy, Work
<1>3. CASE HandOut(w)
  BY <1>2, <1>3, Zeros, NoneTypes DEF HandOut, PurgeTypeOK
<1>4. CASE Put(w)
  BY <1>2, <1>4, NoneTypes DEF Put, PurgeTypeOK
<1>5. CASE GiveUp(w)
  BY <1>5, NoneTypes DEF GiveUp, PurgeTypeOK
<1>6. ASSUME NEW o \in Objects, Begin(w, o) PROVE PurgeTypeOK'
  <2>1. [work[w] EXCEPT !.object = o] \in Work
    BY <1>1, RecordTypes
  <2>2. work' = [work EXCEPT ![w] = [work[w] EXCEPT !.object = o]]
    BY <1>6 DEF Begin
  <2>. QED BY <1>6, <2>1, <2>2 DEF Begin, PurgeTypeOK
<1>. QED BY <1>3, <1>4, <1>5, <1>6 DEF WriterStep

LEMMA RemoveType ==
  ASSUME PurgeTypeOK, NEW x \in Sweepers, NEW o \in Objects, RemoveListed(x, o)
  PROVE  PurgeTypeOK'
<1>1. sweep[x] \in Sweep /\ sweep[x].todo \ {o} \in SUBSET Objects
  BY DEF PurgeTypeOK, Sweep
<1>2. [sweep[x] EXCEPT !.todo = sweep[x].todo \ {o}] \in Sweep
  BY <1>1, RecordTypes
<1>3. sweep' = [sweep EXCEPT ![x] = [sweep[x] EXCEPT !.todo = sweep[x].todo \ {o}]]
  BY DEF RemoveListed
<1>. QED BY <1>2, <1>3 DEF RemoveListed, PurgeTypeOK

LEMMA TimePassesType == ASSUME PurgeTypeOK, TimePasses PROVE PurgeTypeOK'
<1>1. \A w \in Writers : OlderWork(work[w]) \in Work
  <2>. SUFFICES ASSUME NEW w \in Writers PROVE OlderWork(work[w]) \in Work
    OBVIOUS
  <2>1. work[w] \in Work
    BY DEF PurgeTypeOK
  <2>2. Busy(w) => work[w].age + 1 \in 0..WriteTime
    BY <2>1, TimesAssumption DEF TimePasses, InTime, Work
  <2>. QED BY <2>1, <2>2 DEF OlderWork, Busy, Work
<1>2. \A x \in Sweepers : OlderSweep(sweep[x]) \in Sweep
  <2>. SUFFICES ASSUME NEW x \in Sweepers PROVE OlderSweep(sweep[x]) \in Sweep
    OBVIOUS
  <2>1. sweep[x] \in Sweep
    BY DEF PurgeTypeOK
  <2>2. sweep[x].on => sweep[x].age + 1 \in 0..SweepTime
    BY <2>1, TimesAssumption DEF TimePasses, InTime, Sweep
  <2>. QED BY <2>1, <2>2 DEF OlderSweep, Sweep
<1>3. \A o \in Objects : Less(form[o]) \in 0..FormLife
  BY TimesAssumption, LessType DEF PurgeTypeOK
<1>4. [deletion EXCEPT !.left = Less(deletion.left)] \in Deletion
  <2>1. deletion.left \in 0..Grace
    BY DEF PurgeTypeOK, Deletion
  <2>2. Less(deletion.left) \in 0..Grace
    BY <2>1, TimesAssumption, LessType
  <2>. QED BY <2>2 DEF PurgeTypeOK, Deletion
<1>. QED BY <1>1, <1>2, <1>3, <1>4 DEF TimePasses, PurgeTypeOK

LEMMA PurgeNextType == PurgeTypeOK /\ [PurgeNext]_purgeVars => PurgeTypeOK'
<1>. SUFFICES ASSUME PurgeTypeOK, [PurgeNext]_purgeVars PROVE PurgeTypeOK'
  OBVIOUS
<1>1. ASSUME NEW w \in Writers, WriterStep(w) \/ \E o \in Objects : Begin(w, o)
      PROVE  PurgeTypeOK'
  BY <1>1, WriterType
<1>2. ASSUME NEW o \in Objects, Land(o) PROVE PurgeTypeOK'
  BY <1>2 DEF Land, PurgeTypeOK
<1>3. ASSUME NEW answered \in BOOLEAN, DeleteAccount(answered) PROVE PurgeTypeOK'
  <2>1. deletion' \in Deletion
    BY <1>3, Zeros DEF DeleteAccount, Deletion
  <2>. QED BY <1>3, <2>1, BegunType DEF DeleteAccount, PurgeTypeOK
<1>4. ASSUME NEW i \in Processes, PurgeSelect(i) PROVE PurgeTypeOK'
  BY <1>4, BegunType DEF PurgeSelect, PurgeTypeOK
<1>5. ASSUME NEW i \in Processes, MarkPurged(i) PROVE PurgeTypeOK'
  BY <1>5, NoneTypes, RecordTypes DEF MarkPurged, PurgeTypeOK
<1>6. ASSUME NEW x \in Sweepers, NEW o \in Objects, RemoveListed(x, o) PROVE PurgeTypeOK'
  BY <1>6, RemoveType
<1>7. CASE HandlerAnswers
  BY <1>7, NoneTypes DEF HandlerAnswers, PurgeTypeOK
<1>8. ASSUME NEW x \in Sweepers, SweepFails(x) PROVE PurgeTypeOK'
  BY <1>8, NoneTypes DEF SweepFails, PurgeTypeOK
<1>9. CASE TimePasses
  BY <1>9, TimePassesType
<1>10. CASE UNCHANGED purgeVars
  BY <1>10 DEF purgeVars, PurgeTypeOK
<1>. QED
  BY <1>1, <1>2, <1>3, <1>4, <1>5, <1>6, <1>7, <1>8, <1>9, <1>10 DEF PurgeNext

\* Every variable keeps its type: no time goes on after it is over.
THEOREM PurgeTypeCorrect == PurgeSpec => []PurgeTypeOK
<1>. QED BY PurgeInitType, PurgeNextType, PTL DEF PurgeSpec

------------------------------------------------------------------------------
(* The inductive invariant. *)

\* There is a row in account_deletions from the deletion on, and no sweep
\* before it.
QueueInv ==
  /\ hasRow <=> deletion.state = "none"
  /\ hasRow => \A x \in Sweepers : ~ sweep[x].on

\* After the deletion, whatever may still bring a file has done so a sweep's
\* time before purge_after.
FormInv ==
  ~ hasRow => \A o \in Objects : form[o] > 0 => form[o] + SweepTime <= deletion.left

WorkInv ==
  ~ hasRow => \A w \in Writers : Busy(w) =>
    (WriteTime - work[w].age) + FormLife + SweepTime <= deletion.left

\* What a loop's sweep has overlooked came at a time from which it cannot last
\* until purge_after.
SweepInv ==
  \A i \in Processes, o \in stored :
    sweep[i].on /\ o \notin sweep[i].todo => deletion.left + sweep[i].age > SweepTime

Final == deletion.state = "purged" => deletion.left = 0 /\ stored = {}

PurgeInv == PurgeTypeOK /\ QueueInv /\ FormInv /\ WorkInv /\ SweepInv /\ Final

\* The types of what the invariant adds and compares.
LEMMA Numbers ==
  ASSUME PurgeTypeOK
  PROVE  /\ deletion.left \in Nat
         /\ \A o \in Objects : form[o] \in 0..FormLife
         /\ \A w \in Writers : work[w].age \in 0..WriteTime
         /\ \A x \in Sweepers : sweep[x].age \in 0..SweepTime
         /\ FormLife \in Nat /\ FormLife > 0
         /\ WriteTime \in Nat /\ SweepTime \in Nat /\ Grace \in Nat
BY TimesAssumption DEF PurgeTypeOK, Deletion, Work, Sweep

LEMMA PurgeInitInv == PurgeInit => PurgeInv
<1>. SUFFICES ASSUME PurgeInit PROVE PurgeInv
  OBVIOUS
<1>1. QueueInv
  BY DEF PurgeInit, QueueInv, NoSweep
<1>2. FormInv /\ WorkInv /\ SweepInv /\ Final
  BY DEF PurgeInit, FormInv, WorkInv, SweepInv, Final
<1>. QED BY <1>1, <1>2, PurgeInitType DEF PurgeInv

\* A file that comes while a writer or a form can still bring one comes early
\* enough: no sweep that has overlooked it can be the last.
LEMMA Arrival ==
  ASSUME PurgeInv, PurgeTypeOK', NEW o \in Objects, stored' = stored \cup {o},
         UNCHANGED <<hasRow, deletion, sweep>>,
         ~ hasRow => deletion.left > SweepTime
  PROVE  QueueInv' /\ SweepInv' /\ Final'
<1>1. QueueInv'
  BY DEF PurgeInv, QueueInv
<1>2. SweepInv'
  <2>. SUFFICES ASSUME NEW i \in Processes, NEW p \in stored', sweep[i].on,
                       p \notin sweep[i].todo
                PROVE  deletion.left + sweep[i].age > SweepTime
    BY DEF SweepInv
  <2>1. CASE p \in stored
    BY <2>1 DEF PurgeInv, SweepInv
  <2>2. CASE p \notin stored
    <3>1. i \in Sweepers
      BY DEF Sweepers
    <3>2. ~ hasRow
      BY <3>1 DEF PurgeInv, QueueInv
    <3>. QED BY <3>1, <3>2, Numbers DEF PurgeInv
  <2>. QED BY <2>1, <2>2
<1>3. Final'
  BY Numbers DEF PurgeInv, Final, QueueInv
<1>. QED BY <1>1, <1>2, <1>3

LEMMA HandOutInv == ASSUME PurgeInv, PurgeTypeOK', NEW w \in Writers, HandOut(w) PROVE PurgeInv'
<1>1. UNCHANGED <<hasRow, deletion, stored, sweep>> /\ Busy(w)
  BY DEF HandOut
<1>2. QueueInv' /\ SweepInv' /\ Final'
  BY <1>1 DEF PurgeInv, QueueInv, SweepInv, Final
<1>3. FormInv'
  <2>. SUFFICES ASSUME ~ hasRow, NEW o \in Objects, form'[o] > 0
                PROVE  form'[o] + SweepTime <= deletion.left
    BY <1>1 DEF FormInv
  <2>1. CASE o = work[w].object
    <3>1. form'[o] = FormLife
      BY <2>1 DEF HandOut, PurgeInv, PurgeTypeOK
    <3>2. (WriteTime - work[w].age) + FormLife + SweepTime <= deletion.left
      BY <1>1 DEF PurgeInv, WorkInv
    <3>. QED BY <3>1, <3>2, Numbers DEF PurgeInv
  <2>2. CASE o # work[w].object
    <3>1. form'[o] = form[o]
      BY <2>2 DEF HandOut, PurgeInv, PurgeTypeOK
    <3>. QED BY <3>1 DEF PurgeInv, FormInv
  <2>. QED BY <2>1, <2>2
<1>4. WorkInv'
  BY <1>1, NamesAssumption DEF HandOut, PurgeInv, WorkInv, Busy, PurgeTypeOK, NoWork
<1>. QED BY <1>2, <1>3, <1>4 DEF PurgeInv

LEMMA PutInv == ASSUME PurgeInv, PurgeTypeOK', NEW w \in Writers, Put(w) PROVE PurgeInv'
<1>1. UNCHANGED <<hasRow, deletion, form, sweep>> /\ Busy(w)
  BY DEF Put
<1>2. work[w].object \in Objects
  BY <1>1 DEF Busy, PurgeInv, PurgeTypeOK, Work
<1>3. ~ hasRow => deletion.left > SweepTime
  <2>. SUFFICES ASSUME ~ hasRow PROVE deletion.left > SweepTime
    OBVIOUS
  <2>1. (WriteTime - work[w].age) + FormLife + SweepTime <= deletion.left
    BY <1>1 DEF PurgeInv, WorkInv
  <2>. QED BY <2>1, Numbers DEF PurgeInv
<1>4. stored' = stored \cup {work[w].object}
  BY DEF Put
<1>5. PICK o \in Objects : o = work[w].object
  BY <1>2
<1>6. QueueInv' /\ SweepInv' /\ Final'
  BY <1>1, <1>3, <1>4, <1>5, Arrival
<1>7. FormInv'
  BY <1>1 DEF PurgeInv, FormInv
<1>8. WorkInv'
  BY <1>1, NamesAssumption DEF Put, PurgeInv, WorkInv, Busy, PurgeTypeOK, NoWork
<1>. QED BY <1>6, <1>7, <1>8 DEF PurgeInv

LEMMA LandInv == ASSUME PurgeInv, PurgeTypeOK', NEW o \in Objects, Land(o) PROVE PurgeInv'
<1>1. UNCHANGED <<hasRow, deletion, form, work, sweep>> /\ form[o] > 0
  BY DEF Land
<1>2. ~ hasRow => deletion.left > SweepTime
  <2>. SUFFICES ASSUME ~ hasRow PROVE deletion.left > SweepTime
    OBVIOUS
  <2>1. form[o] + SweepTime <= deletion.left
    BY <1>1 DEF PurgeInv, FormInv
  <2>. QED BY <1>1, <2>1, Numbers DEF PurgeInv
<1>3. QueueInv' /\ SweepInv' /\ Final'
  BY <1>1, <1>2, Arrival DEF Land
<1>. QED BY <1>1, <1>3 DEF PurgeInv, FormInv, WorkInv, Busy

LEMMA BeginInv ==
  ASSUME PurgeInv, PurgeTypeOK', NEW w \in Writers, NEW o \in Objects, Begin(w, o) PROVE PurgeInv'
<1>1. UNCHANGED <<hasRow, deletion, stored, form, sweep>> /\ hasRow
  BY DEF Begin
<1>. QED
  BY <1>1 DEF PurgeInv, QueueInv, FormInv, WorkInv, SweepInv, Final

LEMMA GiveUpInv == ASSUME PurgeInv, PurgeTypeOK', NEW w \in Writers, GiveUp(w) PROVE PurgeInv'
<1>1. UNCHANGED <<hasRow, deletion, stored, form, sweep>>
  BY DEF GiveUp
<1>2. WorkInv'
  BY <1>1 DEF GiveUp, PurgeInv, WorkInv, Busy, PurgeTypeOK, NoWork
<1>. QED BY <1>1, <1>2 DEF PurgeInv, QueueInv, FormInv, SweepInv, Final

LEMMA DeleteAccountInv ==
  ASSUME PurgeInv, PurgeTypeOK', NEW answered \in BOOLEAN, DeleteAccount(answered) PROVE PurgeInv'
<1>1. /\ hasRow /\ hasRow' = FALSE
      /\ deletion'.state = "pending" /\ deletion'.left = Grace
      /\ UNCHANGED <<stored, form, work>>
  BY DEF DeleteAccount
<1>2. QueueInv' /\ Final'
  BY <1>1 DEF QueueInv, Final
<1>3. FormInv'
  BY <1>1, Numbers, GraceAssumption DEF PurgeInv, FormInv
<1>4. WorkInv'
  BY <1>1, Numbers, GraceAssumption DEF PurgeInv, WorkInv, Busy
<1>5. \A i \in Processes : ~ sweep'[i].on
  <2>. SUFFICES ASSUME NEW i \in Processes PROVE ~ sweep'[i].on
    OBVIOUS
  <2>1. i \in Sweepers /\ i # Handler
    BY NamesAssumption DEF Sweepers
  <2>2. sweep'[i] = sweep[i]
    BY <2>1 DEF DeleteAccount, PurgeInv, PurgeTypeOK
  <2>. QED BY <1>1, <2>1, <2>2 DEF PurgeInv, QueueInv
<1>6. SweepInv'
  BY <1>5 DEF SweepInv
<1>. QED BY <1>2, <1>3, <1>4, <1>6 DEF PurgeInv

\* A sweep that begins, or ends, while the account stays in its state.
LEMMA SweepBegins ==
  ASSUME PurgeInv, PurgeTypeOK', NEW x \in Sweepers, ~ hasRow,
         UNCHANGED <<hasRow, deletion, stored, form, work>>,
         sweep' = [sweep EXCEPT ![x] = Begun]
  PROVE  PurgeInv'
<1>1. QueueInv'
  BY DEF PurgeInv, QueueInv
<1>2. SweepInv'
  <2>. SUFFICES ASSUME NEW i \in Processes, NEW o \in stored, sweep'[i].on,
                       o \notin sweep'[i].todo
                PROVE  deletion.left + sweep'[i].age > SweepTime
    BY DEF SweepInv
  <2>1. i \in Sweepers /\ i # x
    BY DEF Sweepers, PurgeInv, PurgeTypeOK, Begun
  <2>2. sweep'[i] = sweep[i]
    BY <2>1 DEF PurgeInv, PurgeTypeOK
  <2>. QED BY <2>2 DEF PurgeInv, SweepInv
<1>. QED BY <1>1, <1>2 DEF PurgeInv, FormInv, WorkInv, Busy, Final

LEMMA SweepEnds ==
  ASSUME PurgeInv, PurgeTypeOK', NEW x \in Sweepers,
         UNCHANGED <<hasRow, deletion, stored, form, work>>,
         sweep' = [sweep EXCEPT ![x] = NoSweep]
  PROVE  PurgeInv'
<1>1. QueueInv'
  BY DEF PurgeInv, QueueInv, PurgeTypeOK, NoSweep
<1>2. SweepInv'
  <2>. SUFFICES ASSUME NEW i \in Processes, NEW o \in stored, sweep'[i].on,
                       o \notin sweep'[i].todo
                PROVE  deletion.left + sweep'[i].age > SweepTime
    BY DEF SweepInv
  <2>1. i \in Sweepers /\ i # x
    BY DEF Sweepers, PurgeInv, PurgeTypeOK, NoSweep
  <2>2. sweep'[i] = sweep[i]
    BY <2>1 DEF PurgeInv, PurgeTypeOK
  <2>. QED BY <2>2 DEF PurgeInv, SweepInv
<1>. QED BY <1>1, <1>2 DEF PurgeInv, FormInv, WorkInv, Busy, Final

LEMMA RemoveInv ==
  ASSUME PurgeInv, PurgeTypeOK', NEW x \in Sweepers, NEW o \in Objects, RemoveListed(x, o)
  PROVE  PurgeInv'
<1>1. UNCHANGED <<hasRow, deletion, form, work>> /\ stored' = stored \ {o} /\ sweep[x].on
  BY DEF RemoveListed
<1>2. \A y \in Sweepers :
        /\ sweep'[y].on = sweep[y].on
        /\ sweep'[y].age = sweep[y].age
        /\ sweep[y].todo \ {o} \subseteq sweep'[y].todo
  BY DEF RemoveListed, PurgeInv, PurgeTypeOK, Sweep
<1>3. QueueInv'
  BY <1>1, <1>2 DEF PurgeInv, QueueInv
<1>4. SweepInv'
  <2>. SUFFICES ASSUME NEW i \in Processes, NEW p \in stored \ {o}, sweep'[i].on,
                       p \notin sweep'[i].todo
                PROVE  deletion.left + sweep'[i].age > SweepTime
    BY <1>1 DEF SweepInv
  <2>1. i \in Sweepers
    BY DEF Sweepers
  <2>. QED BY <1>2, <2>1 DEF PurgeInv, SweepInv
<1>. QED BY <1>1, <1>3, <1>4 DEF PurgeInv, FormInv, WorkInv, Busy, Final

LEMMA MarkInv == ASSUME PurgeInv, PurgeTypeOK', NEW i \in Processes, MarkPurged(i) PROVE PurgeInv'
<1>1. /\ UNCHANGED <<hasRow, stored, form, work>>
      /\ sweep' = [sweep EXCEPT ![i] = NoSweep]
      /\ sweep[i].on /\ sweep[i].todo = {}
      /\ i \in Sweepers
  BY DEF MarkPurged, Swept, Sweepers
<1>2. CASE ~ Purgeable
  <2>1. UNCHANGED <<hasRow, deletion, stored, form, work>>
    BY <1>1, <1>2 DEF MarkPurged
  <2>. QED BY <1>1, <2>1, SweepEnds
<1>3. CASE Purgeable
  <2>1. /\ deletion.state = "pending" /\ deletion.left = 0
        /\ deletion'.state = "purged" /\ deletion'.left = 0
    BY <1>3 DEF MarkPurged, Purgeable, PurgeInv, PurgeTypeOK, Deletion
  \* The sweep that ends has overlooked nothing: it would have ended before.
  <2>2. stored = {}
    <3>. SUFFICES ASSUME NEW o \in stored PROVE FALSE
      OBVIOUS
    <3>1. deletion.left + sweep[i].age > SweepTime
      BY <1>1 DEF PurgeInv, SweepInv
    <3>. QED BY <1>1, <2>1, <3>1, Numbers DEF PurgeInv
  <2>3. QueueInv'
    BY <1>1, <2>1 DEF PurgeInv, QueueInv, PurgeTypeOK, NoSweep
  <2>. QED
    BY <1>1, <2>1, <2>2, <2>3 DEF PurgeInv, FormInv, WorkInv, SweepInv, Busy, Final
<1>. QED BY <1>2, <1>3

LEMMA TimePassesInv == ASSUME PurgeInv, PurgeTypeOK', TimePasses PROVE PurgeInv'
<1>0. PurgeTypeOK
  BY DEF PurgeInv
<1>1. /\ UNCHANGED <<hasRow, stored>>
      /\ deletion'.state = deletion.state
      /\ deletion'.left = Less(deletion.left)
  BY <1>0 DEF TimePasses, PurgeTypeOK, Deletion
<1>2. \A x \in Sweepers :
        /\ sweep'[x].on = sweep[x].on
        /\ sweep'[x].todo = sweep[x].todo
        /\ sweep[x].on => sweep'[x].age = sweep[x].age + 1
  BY <1>0 DEF TimePasses, PurgeTypeOK, Sweep, OlderSweep
<1>3. \A w \in Writers :
        /\ work'[w].object = work[w].object
        /\ Busy(w) => work'[w].age = work[w].age + 1
  BY <1>0 DEF TimePasses, PurgeTypeOK, Work, OlderWork, Busy
<1>4. QueueInv'
  BY <1>1, <1>2 DEF PurgeInv, QueueInv
<1>5. FormInv'
  <2>. SUFFICES ASSUME ~ hasRow, NEW o \in Objects, form'[o] > 0
                PROVE  form'[o] + SweepTime <= deletion'.left
    BY <1>1 DEF FormInv
  <2>1. form'[o] = Less(form[o]) /\ form[o] \in Nat
    BY <1>0, Numbers DEF TimePasses
  <2>2. form[o] > 0 /\ form'[o] = form[o] - 1
    BY <2>1 DEF Less
  <2>3. form[o] + SweepTime <= deletion.left
    BY <2>2 DEF PurgeInv, FormInv
  <2>4. deletion'.left = deletion.left - 1
    BY <1>0, <1>1, <2>1, <2>2, <2>3, Numbers DEF Less
  <2>. QED BY <1>0, <2>1, <2>2, <2>3, <2>4, Numbers
<1>6. WorkInv'
  <2>. SUFFICES ASSUME ~ hasRow, NEW w \in Writers, Busy(w)
                PROVE  (WriteTime - work'[w].age) + FormLife + SweepTime <= deletion'.left
    BY <1>1, <1>3 DEF WorkInv, Busy
  <2>1. (WriteTime - work[w].age) + FormLife + SweepTime <= deletion.left
    BY DEF PurgeInv, WorkInv
  <2>2. work'[w].age = work[w].age + 1
    BY <1>3
  <2>3. deletion'.left = deletion.left - 1
    BY <1>0, <1>1, <2>1, Numbers DEF Less
  <2>. QED BY <1>0, <2>1, <2>2, <2>3, Numbers
<1>7. SweepInv'
  <2>. SUFFICES ASSUME NEW i \in Processes, NEW o \in stored, sweep[i].on,
                       o \notin sweep[i].todo
                PROVE  deletion'.left + sweep'[i].age > SweepTime
    BY <1>1, <1>2 DEF SweepInv, Sweepers
  <2>1. i \in Sweepers
    BY DEF Sweepers
  <2>2. deletion.left + sweep[i].age > SweepTime
    BY DEF PurgeInv, SweepInv
  <2>3. sweep'[i].age = sweep[i].age + 1
    BY <1>2, <2>1
  <2>. QED BY <1>0, <1>1, <2>1, <2>2, <2>3, Numbers DEF Less
<1>8. Final'
  BY <1>0, <1>1, Numbers DEF PurgeInv, Final, Less
<1>. QED BY <1>4, <1>5, <1>6, <1>7, <1>8 DEF PurgeInv

LEMMA PurgeNextInv == PurgeInv /\ [PurgeNext]_purgeVars => PurgeInv'
<1>. SUFFICES ASSUME PurgeInv, [PurgeNext]_purgeVars PROVE PurgeInv'
  OBVIOUS
<1>1. PurgeTypeOK'
  BY PurgeNextType DEF PurgeInv
<1>2. ASSUME NEW w \in Writers, WriterStep(w) \/ \E o \in Objects : Begin(w, o)
      PROVE  PurgeInv'
  BY <1>1, <1>2, HandOutInv, PutInv, GiveUpInv, BeginInv DEF WriterStep
<1>3. ASSUME NEW o \in Objects, Land(o) PROVE PurgeInv'
  BY <1>1, <1>3, LandInv
<1>4. ASSUME NEW answered \in BOOLEAN, DeleteAccount(answered) PROVE PurgeInv'
  BY <1>1, <1>4, DeleteAccountInv
<1>5. ASSUME NEW i \in Processes, PurgeSelect(i) PROVE PurgeInv'
  <2>1. i \in Sweepers /\ ~ hasRow /\ sweep' = [sweep EXCEPT ![i] = Begun]
    BY <1>5 DEF PurgeSelect, Sweepers, PurgeInv, QueueInv
  <2>2. UNCHANGED <<hasRow, deletion, stored, form, work>>
    BY <1>5 DEF PurgeSelect
  <2>. QED BY <1>1, <2>1, <2>2, SweepBegins
<1>6. ASSUME NEW i \in Processes, MarkPurged(i) PROVE PurgeInv'
  BY <1>1, <1>6, MarkInv
<1>7. ASSUME NEW x \in Sweepers, NEW o \in Objects, RemoveListed(x, o) PROVE PurgeInv'
  BY <1>1, <1>7, RemoveInv
<1>8. ASSUME NEW x \in Sweepers, SweepFails(x) PROVE PurgeInv'
  <2>1. sweep' = [sweep EXCEPT ![x] = NoSweep]
    BY <1>8 DEF SweepFails
  <2>2. UNCHANGED <<hasRow, deletion, stored, form, work>>
    BY <1>8 DEF SweepFails
  <2>. QED BY <1>1, <2>1, <2>2, SweepEnds
<1>9. CASE HandlerAnswers
  <2>1. Handler \in Sweepers /\ sweep' = [sweep EXCEPT ![Handler] = NoSweep]
    BY <1>9 DEF HandlerAnswers, Sweepers
  <2>2. UNCHANGED <<hasRow, deletion, stored, form, work>>
    BY <1>9 DEF HandlerAnswers
  <2>. QED BY <1>1, <2>1, <2>2, SweepEnds
<1>10. CASE TimePasses
  BY <1>1, <1>10, TimePassesInv
<1>11. CASE UNCHANGED purgeVars
  BY <1>1, <1>11
  DEF purgeVars, PurgeInv, QueueInv, FormInv, WorkInv, SweepInv, Final, Busy
<1>. QED
  BY <1>2, <1>3, <1>4, <1>5, <1>6, <1>7, <1>8, <1>9, <1>10, <1>11 DEF PurgeNext

LEMMA PurgeAlways == PurgeSpec => []PurgeInv
<1>. QED BY PurgeInitInv, PurgeNextInv, PTL DEF PurgeSpec

------------------------------------------------------------------------------

\* Once an account is recorded as purged nothing is left under its prefix, and
\* nothing arrives any more.
THEOREM PurgeIsFinal == PurgeSpec => []PurgedStaysEmpty
<1>1. PurgeInv => PurgedStaysEmpty
  BY DEF PurgeInv, Final, PurgedStaysEmpty
<1>. QED BY <1>1, PurgeAlways, PTL

\* Objects are removed only from accounts whose row is gone.
THEOREM AudioIsKept == PurgeSpec => AudioOutlivesAccount
<1>1. PurgeInv /\ [PurgeNext]_purgeVars => [~ stored \subseteq stored' => ~ hasRow]_purgeVars
  <2>. SUFFICES ASSUME PurgeInv, PurgeNext, ~ stored \subseteq stored' PROVE ~ hasRow
    OBVIOUS
  <2>1. PICK x \in Sweepers, o \in Objects : RemoveListed(x, o)
    BY DEF PurgeNext, WriterStep, HandOut, Put, GiveUp, Begin, Land, DeleteAccount,
           PurgeSelect, MarkPurged, HandlerAnswers, SweepFails, TimePasses
  <2>. QED BY <2>1 DEF RemoveListed, PurgeInv, QueueInv
<1>. QED BY <1>1, PurgeAlways, PTL DEF PurgeSpec, AudioOutlivesAccount
==============================================================================
