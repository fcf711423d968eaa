------------------------ MODULE CFNotificationCenter ------------------------
(***************************************************************************)
(* The local notification center: its table of observers, and posts that   *)
(* walk the table and let the center's lock go around every callback.      *)
(* Callbacks may add, remove and post themselves.                          *)
(*                                                                         *)
(* A name or an object that an observer leaves open is None.  A walk that  *)
(* uses memory it should not (past the table, a table that was moved, a    *)
(* record that was cleared) ends in the phase "lost"; what the program     *)
(* does from there on is not defined, and the model ends there.            *)
(***************************************************************************)
EXTENDS Naturals, Sequences, FiniteSets, FiniteSetsExt

CONSTANTS
    Thread, Observer, Name, Object,
    ObsSize,     \* CF_OBS_SIZE (32)
    MaxCapacity, \* bound on the table
    MaxPosts,    \* bound on the posts under way, nested ones too
    None

ASSUME CenterAssumption ==
    /\ None \notin Name \cup Object
    /\ ObsSize \in Nat \ {0} /\ MaxCapacity \in Nat /\ MaxPosts \in Nat

VARIABLES
    obs,       \* center->obs: capacity many records
    observers, \* center->observers
    posts      \* posts[t]: t's calls of __CFInvokeCallBacks, innermost last

vars == <<obs, observers, posts>>

Empty == [observer |-> None, name |-> None, object |-> None] \* callback NULL
Record == {r \in [observer : Observer, name : Name \cup {None},
                  object : Object \cup {None}] :
             r.name # None \/ r.object # None}

Init ==
    /\ obs = [i \in 1..ObsSize |-> Empty]
    /\ observers = 0
    /\ posts = [t \in Thread |-> <<>>]

Used == {i \in DOMAIN obs : obs[i] # Empty}
Frames == UNION {{posts[t][d] : d \in DOMAIN posts[t]} : t \in Thread}

Running == \A f \in Frames : f.phase # "lost"

Top(t) == posts[t][Len(posts[t])]
SetTop(t, f) == posts' = [posts EXCEPT ![t][Len(posts[t])] = f]

\* The innermost post of thread t is in the given phase.
InPost(t, phase) == Running /\ posts[t] # <<>> /\ Top(t).phase = phase

\* A thread may call the center when it is in no post or in a callback.
MayCall(t) == Running /\ (posts[t] # <<>> => Top(t).phase = "called")

\* Record i is one that the walk f has not passed yet: it lies ahead, or is
\* the one whose callback is about to be read.
ToCome(f, i) == i >= f.next \/ (f.phase = "found" /\ i = f.next - 1)

\* Apply U to every frame.
EachFrame(U(_)) ==
    [t \in Thread |-> [d \in DOMAIN posts[t] |-> U(posts[t][d])]]

-----------------------------------------------------------------------------
(***************************************************************************)
(* __CFAddObserver                                                         *)
(***************************************************************************)
\* The free record that is taken first.
FirstFree == Min(DOMAIN obs \ Used)

\* Mutant of AddObserver: the record after the last one used.
AddAfterLast(t, r) ==
    /\ MayCall(t) /\ observers < Len(obs)
    /\ obs' = [obs EXCEPT ![observers + 1] = r]
    /\ observers' = observers + 1
    /\ UNCHANGED posts

AddObserver(t, r) ==
    LET Told(f) == [f EXCEPT !.added = @ \/ FirstFree >= f.next]
    IN  /\ MayCall(t) /\ observers < Len(obs)
        /\ obs' = [obs EXCEPT ![FirstFree] = r]
        /\ observers' = observers + 1
        /\ posts' = EachFrame(Told)

\* The table is full: the new record lies ahead of every walk, and realloc
\* may have moved the table away from the walks that are in it.
AddObserverGrowing(t, r, moved) ==
    LET Told(f) == [f EXCEPT !.added = TRUE, !.stale = @ \/ moved]
    IN  /\ MayCall(t) /\ observers = Len(obs)
        /\ Len(obs) + ObsSize <= MaxCapacity
        /\ obs' = [i \in 1..(Len(obs) + ObsSize) |->
                     CASE i <= Len(obs)       -> obs[i]
                       [] i = observers + 1   -> r
                       [] OTHER               -> Empty]
        /\ observers' = observers + 1
        /\ posts' = EachFrame(Told)

-----------------------------------------------------------------------------
(***************************************************************************)
(* __CFRemoveObserver, and __CFRemoveEveryObserver for the pattern without *)
(* a name and an object.                                                   *)
(***************************************************************************)
Removed(o, name, object) ==
    {i \in Used : /\ obs[i].observer = o
                  /\ name \in {None, obs[i].name}
                  /\ object \in {None, obs[i].object}}

\* Mutant of RemoveObserver: counts one observer less whether or not it was
\* there.
RemoveUnseen(t, o, name, object) ==
    LET gone == Removed(o, name, object)
    IN  /\ MayCall(t) /\ Frames = {}
        /\ obs' = [i \in DOMAIN obs |-> IF i \in gone THEN Empty ELSE obs[i]]
        /\ observers' = observers - 1
        /\ UNCHANGED posts

RemoveObserver(t, o, name, object) ==
    LET gone == Removed(o, name, object)
        Told(f) == [f EXCEPT !.due = @ \ gone,
                             !.removed = @ \/ \E i \in gone : ToCome(f, i)]
    IN  /\ MayCall(t)
        /\ obs' = [i \in DOMAIN obs |-> IF i \in gone THEN Empty ELSE obs[i]]
        /\ observers' = observers - Cardinality(gone)
        /\ posts' = EachFrame(Told)

-----------------------------------------------------------------------------
(***************************************************************************)
(* __CFInvokeCallBacks.  A frame has the record to look at next, the count *)
(* of records still to be looked at, and, for the properties, the records  *)
(* that matched when the post began, are still there and not called yet,   *)
(* and whether records to come were added or removed under the walk.       *)
(***************************************************************************)
Matches(r, f) == r.name \in {None, f.name} /\ r.object \in {None, f.object}

\* The walk under the lock, up to the next record to call or to its end.
Walked(f) ==
    LET ahead    == {i \in Used : i >= f.next}
        matching == {i \in ahead : Matches(obs[i], f)}
        i        == Min(matching)
        skipped  == {j \in ahead : j < i}
    IN  IF f.stale
        THEN [f EXCEPT !.phase = IF f.left = 0 THEN "done" ELSE "lost"]
        ELSE IF matching # {} /\ Cardinality(skipped) < f.left
        THEN [f EXCEPT !.phase = "found", !.next = i + 1,
                       !.left = @ - Cardinality(skipped) - 1]
        ELSE IF Cardinality(ahead) >= f.left
        THEN [f EXCEPT !.phase = "done", !.left = 0]
        ELSE [f EXCEPT !.phase = "lost"]

\* Mutant of NewPost: as many records as the table has room for.
PostToCapacity(name, object) ==
    [phase |-> "walk", name |-> name, object |-> object, next |-> 1,
     left |-> Len(obs), stale |-> FALSE, due |-> {}, added |-> FALSE,
     removed |-> FALSE]

\* The frame of a post that takes the lock.
NewPost(name, object) ==
    LET f == [phase |-> "walk", name |-> name, object |-> object, next |-> 1,
              left |-> observers, stale |-> FALSE, due |-> {},
              added |-> FALSE, removed |-> FALSE]
    IN  [f EXCEPT !.due = {i \in Used : Matches(obs[i], f)}]

\* An empty table is noticed without the lock.
Post(t, name, object) ==
    /\ MayCall(t) /\ observers # 0
    /\ MapThenSumSet(LAMBDA u : Len(posts[u]), Thread) < MaxPosts
    /\ posts' = [posts EXCEPT
                   ![t] = Append(@, Walked(NewPost(name, object)))]
    /\ UNCHANGED <<obs, observers>>

\* The lock is released and obs->callback is read and called.
InvokeCallback(t) ==
    /\ InPost(t, "found")
    /\ LET f == Top(t)
           i == f.next - 1
       IN  SetTop(t, IF f.stale \/ obs[i] = Empty
                     THEN [f EXCEPT !.phase = "lost"]
                     ELSE [f EXCEPT !.phase = "called", !.due = @ \ {i}])
    /\ UNCHANGED <<obs, observers>>

\* Mutant of CallbackReturns: the record that was called is looked at again.
ReturnsInPlace(t) ==
    /\ InPost(t, "called")
    /\ SetTop(t, Walked([Top(t) EXCEPT !.next = @ - 1]))
    /\ UNCHANGED <<obs, observers>>

\* The callback returns, the lock is taken and the walk goes on.
CallbackReturns(t) ==
    /\ InPost(t, "called")
    /\ SetTop(t, Walked(Top(t)))
    /\ UNCHANGED <<obs, observers>>

PostReturns(t) ==
    /\ InPost(t, "done")
    /\ posts' = [posts EXCEPT ![t] = SubSeq(@, 1, Len(@) - 1)]
    /\ UNCHANGED <<obs, observers>>

Call(t) ==
    \/ \E r \in Record :
          \/ AddObserver(t, r)
          \/ \E moved \in BOOLEAN : AddObserverGrowing(t, r, moved)
    \/ \E o \in Observer, name \in Name \cup {None},
          object \in Object \cup {None} : RemoveObserver(t, o, name, object)
    \/ \E name \in Name, object \in Object \cup {None} : Post(t, name, object)

Walk(t) == InvokeCallback(t) \/ CallbackReturns(t) \/ PostReturns(t)

Next == \E t \in Thread : Call(t) \/ Walk(t)
Spec == Init /\ [][Next]_vars
-----------------------------------------------------------------------------
Phases == {"found", "called", "done", "lost"}

TypeOK ==
    /\ obs \in Seq(Record \cup {Empty})
    /\ observers \in Nat
    /\ \A f \in Frames :
        /\ f.phase \in Phases /\ f.name \in Name
        /\ f.object \in Object \cup {None}
        /\ f.next \in Nat \ {0} /\ f.left \in Nat
        /\ {f.stale, f.added, f.removed} \subseteq BOOLEAN
        /\ f.due \subseteq DOMAIN obs

\* The counter that bounds every walk, and by which AddObserver knows whether
\* a record is free, is the number of records in use.
CountIsExact == observers = Cardinality(Used)

\* A walk reads past the table, through memory that realloc gave back or a
\* record that was cleared, only if records that it had not passed were
\* removed or the table was moved under it.  What callbacks and other threads
\* do behind it, and what they add ahead of it, never leads it astray.
AstrayOnlyByRemoval ==
    \A f \in Frames : f.phase = "lost" => f.removed \/ f.stale

\* The observers that matched when the post began, are still registered, and
\* will not be called by it.
Missed(f) ==
    {i \in f.due : f.phase # "lost" /\ (f.phase = "done" \/ ~ToCome(f, i))}

\* "process each observer in the table" (CFNotificationCenter.c:815): a post
\* passes over no observer that was registered when it began and still is.
NoneMissed == \A f \in Frames : Missed(f) = {}

\* The only way to miss one is to add observers ahead of the walk: removals
\* and nested posts, wherever they happen, make no post pass over another
\* observer.
MissedOnlyByAddition == \A f \in Frames : Missed(f) # {} => f.added
=============================================================================
