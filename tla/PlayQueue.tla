------------------------------ MODULE PlayQueue ------------------------------
(***************************************************************************)
(* The order tracks play in: PlayQueue of the Flutter client               *)
(* (play_queue.dart), driven the way PlayerController drives it.           *)
(*                                                                         *)
(* Positions count from 1.  A track is its id: replace() swaps a track's   *)
(* metadata only and is no step here.  A list may hold a track twice       *)
(* (preventDuplicates is off by default).  Only a run of PlayerController  *)
(* that has a queue is modelled; stop() ends it.                           *)
(***************************************************************************)
EXTENDS Integers

CONSTANTS
  Ids,        \* the tracks of the library
  NoTrack,    \* null
  MaxLength   \* bound on the length of a list that is played

ASSUME IdsAssumption == NoTrack \notin Ids /\ Ids # {}
ASSUME LengthAssumption == MaxLength \in Nat \ {0}

VARIABLES
  length,     \* _tracks.length
  tracks,     \* _tracks
  order,      \* _order: indexes into tracks in play order
  position,   \* _position: where in the order the current track is
  shuffled,   \* _shuffled, always the controller's _shuffle
  repeat

queueVars == <<length, tracks, order, position, shuffled, repeat>>

QueueRepeat == {"off", "all", "one"}

Identity(n) == [i \in 1..n |-> i]

IsOrder(o, n) ==
  /\ o \in [1..n -> 1..n]
  /\ \A p, q \in 1..n : o[p] = o[q] => p = q
  /\ \A i \in 1..n : \E p \in 1..n : o[p] = i

Orders(n) == {o \in [1..n -> 1..n] : IsOrder(o, n)}

\* Every entry of the queue plays exactly once: order is a permutation.
QueueTypeOK ==
  /\ length \in 1..MaxLength
  /\ tracks \in [1..length -> Ids]
  /\ IsOrder(order, length)
  /\ position \in 1..length
  /\ shuffled \in BOOLEAN
  /\ repeat \in QueueRepeat

CurrentIndex == order[position]
Current      == tracks[CurrentIndex]
Upcoming     == [k \in 1..(length - position) |-> tracks[order[position + k]]]

QueueInit ==
  /\ length \in 1..MaxLength
  /\ tracks \in [1..length -> Ids]
  /\ order = Identity(length)
  /\ position \in 1..length
  /\ shuffled = FALSE
  /\ repeat = "off"

-----------------------------------------------------------------------------
(* A new queue. *)

\* The orders that begin with index i: the rest is in any order.
StartingWith(i, n) == {o \in Orders(n) : o[1] = i}

\* playFrom: the settings for shuffle and repeat carry over to the new queue.
PlayFrom(n, list, start) ==
  /\ length' = n
  /\ tracks' = list
  /\ IF shuffled THEN order' \in StartingWith(start, n) /\ position' = 1
                 ELSE order' = Identity(n) /\ position' = start
  /\ UNCHANGED <<shuffled, repeat>>

PlayShuffled(n, list) ==
  /\ length' = n
  /\ tracks' = list
  /\ order' \in Orders(n)
  /\ position' = 1
  /\ shuffled' = TRUE
  /\ UNCHANGED repeat

-----------------------------------------------------------------------------
(* The listener's controls. *)

\* Where the current track is in library order.
LibraryPosition(o) == o[position]

ToggleShuffle ==
  /\ shuffled' = ~shuffled
  /\ IF shuffled
     THEN order' = Identity(length) /\ position' = LibraryPosition(order)
     ELSE order' \in StartingWith(CurrentIndex, length) /\ position' = 1
  /\ UNCHANGED <<length, tracks, repeat>>

CycleRepeat ==
  /\ repeat' = CASE repeat = "off" -> "all"
                 [] repeat = "all" -> "one"
                 [] repeat = "one" -> "off"
  /\ UNCHANGED <<length, tracks, order, position, shuffled>>

SkipTo(k) ==
  /\ k \in DOMAIN Upcoming
  /\ position' = position + k
  /\ UNCHANGED <<length, tracks, order, shuffled, repeat>>

NextSkipsFirst(auto) ==                        \* mutant: wraps to the second
  \/ auto /\ repeat = "one" /\ position' = position
  \/ ~(auto /\ repeat = "one") /\ position < length /\ position' = position + 1
  \/ ~(auto /\ repeat = "one") /\ position = length /\ repeat # "off"
       /\ position' = IF length = 1 THEN 1 ELSE 2

\* next moves to another position unless it returns null.
Advance(auto) ==
  \/ auto /\ repeat = "one" /\ position' = position
  \/ ~(auto /\ repeat = "one") /\ position < length /\ position' = position + 1
  \/ ~(auto /\ repeat = "one") /\ position = length /\ repeat # "off" /\ position' = 1

PlayNext(auto) ==
  /\ Advance(auto)
  /\ UNCHANGED <<length, tracks, order, shuffled, repeat>>

\* peekNext
Peek(auto) ==
  IF auto /\ repeat = "one" THEN Current
  ELSE IF position < length THEN tracks[order[position + 1]]
  ELSE IF repeat = "off" THEN NoTrack
  ELSE tracks[order[1]]

Previous ==
  /\ position' = IF position > 1 THEN position - 1
                 ELSE IF repeat = "all" THEN length ELSE position
  /\ UNCHANGED <<length, tracks, order, shuffled, repeat>>

-----------------------------------------------------------------------------
(* A track of the queue is deleted. *)

\* s without its k-th element.
Without(s, n, k) == [i \in 1..(n - 1) |-> s[IF i < k THEN i ELSE i + 1]]

\* indexWhere: the first track with the id.
FirstIndex(id) == CHOOSE i \in 1..length : tracks[i] = id /\ \A j \in 1..(i - 1) : tracks[j] # id

OrderPosition(index) == CHOOSE p \in 1..length : order[p] = index

\* The position after the order lost its p-th entry.
NewPosition(p) == IF p < position THEN position - 1 ELSE position

RenumberNone(index, removed) == IF index = length THEN removed ELSE index  \* mutant

Renumber(index, removed) == IF index > removed THEN index - 1 ELSE index

\* removeTrack: deleting the current track stops the player instead.
Remove(id) ==
  LET removed == FirstIndex(id)
      p       == OrderPosition(removed)
  IN
  /\ id # Current
  /\ \E i \in 1..length : tracks[i] = id
  /\ length' = length - 1
  /\ tracks' = Without(tracks, length, removed)
  /\ order' = [q \in 1..(length - 1) |-> Renumber(Without(order, length, p)[q], removed)]
  /\ position' = NewPosition(p)
  /\ UNCHANGED <<shuffled, repeat>>

-----------------------------------------------------------------------------
Step ==
  \/ \E n \in 1..MaxLength : \E list \in [1..n -> Ids] :
       PlayShuffled(n, list) \/ \E start \in 1..n : PlayFrom(n, list, start)
  \/ ToggleShuffle
  \/ CycleRepeat
  \/ \E k \in 1..MaxLength : SkipTo(k)
  \/ \E auto \in BOOLEAN : PlayNext(auto)
  \/ Previous
  \/ \E id \in Ids : Remove(id)

QueueSpec == QueueInit /\ [][Step]_queueVars

-----------------------------------------------------------------------------
(* Properties. *)

\* Without shuffle the queue plays in library order, whatever was shuffled,
\* skipped or removed before.
LibraryOrder == ~shuffled => order = Identity(length)

\* Switching shuffle on or off, changing repeat and removing another track do
\* not change what is playing.
CurrentKept ==
  [][ToggleShuffle \/ CycleRepeat \/ (\E id \in Ids : Remove(id)) => Current' = Current]_queueVars

\* Removing a track takes just that one out of what plays next.
RemoveKeepsOrder ==
  [][\A id \in Ids : Remove(id) =>
       \/ Upcoming' = Upcoming
       \/ \E k \in DOMAIN Upcoming :
            Upcoming[k] = id /\ Upcoming' = Without(Upcoming, length - position, k)]_queueVars

\* The track that is preloaded is the one that plays next.
PeekIsNext ==
  [][\A auto \in BOOLEAN : PlayNext(auto) => Peek(auto) # NoTrack /\ Current' = Peek(auto)]_queueVars
=============================================================================
