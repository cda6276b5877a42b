------------------------------ MODULE RateLimiter ------------------------------
(***************************************************************************)
(* The per-user sliding window of src/src/core/middleware.js.  A request   *)
(* is noted in the window of its user whether it passes or not; the array  *)
(* is cut when it exceeds three times the limit.  A timestamp is its age,  *)
(* in ticks of which Minute make a window, and stops growing there.        *)
(* Bug... is a faulty variant of the definition after it, not part of RateSpec.*)
(***************************************************************************)
EXTENDS Naturals, SeqFilters

CONSTANTS
    Users,
    MaxPerMinute,   \* requests that pass in a minute
    Minute,         \* ticks of a window
    MaxLog          \* bound: requests of a user within a minute

ASSUME RateAssumption ==
    MaxPerMinute \in Nat \ {0} /\ Minute \in Nat \ {0} /\ MaxLog \in Nat

VARIABLES
    windows,    \* windows: the noted timestamps of each user, oldest first
    log         \* history: every request of the last minute and its verdict

rateVars == <<windows, log>>

Ages == 0..Minute
RateEntries == [age : 0..Minute - 1, pass : BOOLEAN]

RateTypeOK ==
    /\ windows \in [Users -> Seq(Ages)]
    /\ \A u \in Users : Len(windows[u]) <= 3 * MaxPerMinute
    /\ \A u \in Users : \A i, j \in DOMAIN windows[u] :
          i < j => windows[u][i] >= windows[u][j]
    /\ log \in [Users -> Seq(RateEntries)]

RateInit ==
    /\ windows = [u \in Users |-> <<>>]
    /\ log = [u \in Users |-> <<>>]

Fresh(w) == Only(w, 0..Minute - 1)

\* The array is cut to the limit when it is longer than three times the limit.
BugCut(w) ==
    IF Len(w) > 3 * MaxPerMinute + 1 THEN SubSeq(w, Len(w) - MaxPerMinute + 1, Len(w)) ELSE w
Cut(w) ==
    IF Len(w) > 3 * MaxPerMinute THEN SubSeq(w, Len(w) - MaxPerMinute + 1, Len(w)) ELSE w

Noted(w) == Cut(Append(Cut(w), 0))

Check(u) ==
    LET noted == Noted(Fresh(windows[u])) IN
    /\ Len(log[u]) < MaxLog
    /\ windows' = [windows EXCEPT ![u] = noted]
    /\ log' = [log EXCEPT ![u] = Append(@, [age |-> 0, pass |-> Len(noted) <= MaxPerMinute])]

\* The interval of a minute removes what has expired.
Cleanup ==
    /\ windows' = [u \in Users |-> Fresh(windows[u])]
    /\ UNCHANGED log

RateTick ==
    /\ windows' = [u \in Users |-> [i \in DOMAIN windows[u] |->
                      IF windows[u][i] < Minute THEN windows[u][i] + 1 ELSE Minute]]
    /\ log' = [u \in Users |->
                  LET kept == Only(log[u], {r \in RateEntries : r.age < Minute - 1})
                  IN [i \in DOMAIN kept |-> [kept[i] EXCEPT !.age = @ + 1]]]

RateNext == Cleanup \/ RateTick \/ \E u \in Users : Check(u)

----------------------------------------------------------------------------
Passed(u) == Only(log[u], {r \in RateEntries : r.pass})

\* Whatever bursts came before, of the requests of a minute that holds no more
\* than three times the limit at most MaxPerMinute have passed.
ModerateKept ==
    \A u \in Users : Len(log[u]) <= 3 * MaxPerMinute => Len(Passed(u)) <= MaxPerMinute
=============================================================================
