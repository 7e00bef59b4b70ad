----------------------------- MODULE VlanProbe -----------------------------
(***************************************************************************)
(* The chain of ifs in get_appropriate_vlanid, one if a step: temp runs    *)
(* through the VLAN ids of a pair, and a line that changes temp tries the  *)
(* id it gives.  PathAllocator states the result as a circular search.     *)
(***************************************************************************)
EXTENDS Integers

None == -1              \* prev_vlanid 0: the pair has had no path yet
Open == -2              \* still searching
Path == 0..3

VARIABLES
    same_pod,           \* two paths or four
    prev,               \* the pair's previous path, or None
    fits,               \* the paths for which get_vlanid finds room
    temp,               \* the path of the C variable temp
    test,               \* the if about to be tested
    round,              \* the loop counter i
    result              \* the path returned, None for -1, or Open

vars == <<same_pod, prev, fits, temp, test, round, result>>

NumPaths == IF same_pod THEN 2 ELSE 4
Tests == IF same_pod THEN 3 ELSE 5
Rounds == IF same_pod THEN 2 ELSE 4

\* The condition of each if, and what it makes of temp.
Applies(l) == IF l = 1 THEN temp = None ELSE temp < l - 1

\* Slip: the last line goes back one path instead of to the first.
MoveBack(l) == IF l = Tests THEN temp - 1 ELSE temp + 1

Move(l) == IF l = Tests THEN temp - (NumPaths - 1) ELSE temp + 1

Init ==
    /\ same_pod \in BOOLEAN
    /\ prev \in None..(NumPaths - 1)
    /\ fits \in SUBSET (0..(NumPaths - 1))
    /\ temp = prev /\ test = 1 /\ round = 0
    /\ result = Open

Skip ==
    /\ result = Open /\ round < Rounds /\ test <= Tests
    /\ ~ Applies(test)
    /\ test' = test + 1
    /\ UNCHANGED <<same_pod, prev, fits, temp, round, result>>

Try ==
    /\ result = Open /\ round < Rounds /\ test <= Tests
    /\ Applies(test)
    /\ temp' = Move(test)
    /\ result' = IF temp' \in fits THEN temp' ELSE Open
    /\ test' = test + 1
    /\ UNCHANGED <<same_pod, prev, fits, round>>

\* Slip: rounds are not counted, the search goes on until there is room.
EndRoundUncounted ==
    /\ result = Open /\ round < Rounds /\ test > Tests
    /\ test' = 1
    /\ UNCHANGED <<same_pod, prev, fits, temp, round, result>>

EndRound ==
    /\ result = Open /\ round < Rounds /\ test > Tests
    /\ round' = round + 1
    /\ test' = 1
    /\ UNCHANGED <<same_pod, prev, fits, temp, result>>

GiveUp ==
    /\ result = Open /\ round = Rounds
    /\ result' = None
    /\ UNCHANGED <<same_pod, prev, fits, temp, test, round>>

Next == Skip \/ Try \/ EndRound \/ GiveUp

Spec == Init /\ [][Next]_vars

-----------------------------------------------------------------------------
\* Position d of the circular search that starts after prev.
At(d) == (prev + 1 + d) % NumPaths

\* What is returned is the first path with room in circular order, and -1 only
\* if no path has room: whatever test the search resumes in.
CircularFirstFit ==
    result # Open =>
        IF fits = {} THEN result = None
        ELSE \E d \in 0..(NumPaths - 1) :
               /\ result = At(d) /\ At(d) \in fits
               /\ \A e \in 0..(d - 1) : At(e) \notin fits
=============================================================================
