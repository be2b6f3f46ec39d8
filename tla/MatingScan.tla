----------------------------- MODULE MatingScan -----------------------------
(***************************************************************************)
(* The nested loop of -[PWViewController tick] in which worms meet, mate   *)
(* and have offspring.  The array it walks grows while it is walked: a     *)
(* baby is appended behind both cursors' bounds and is visited in the same *)
(* tick, as partner and as parent.                                         *)
(*                                                                         *)
(* One step is one round of the inner loop, or the end of a round of the   *)
(* outer one.  Positions count from 1.  Worms are numbered in the order    *)
(* they are made.  Bounding boxes are left out: any two worms may touch.   *)
(***************************************************************************)
EXTENDS Integers, Sequences

CONSTANT MaxWorms   \* bound: how many worms are ever made

ASSUME MaxWormsAssumption == MaxWorms \in Nat

Worm == 1 .. MaxWorms

(***************************************************************************)
(* lastDate is nil until a worm has a baby.  timeIntervalSinceNow is 0 for *)
(* nil, so only "old", more than 3 seconds ago, passes the test.           *)
(***************************************************************************)
Dates == {"nil", "recent", "old"}

VARIABLES
    worms,      \* the controller's array of worms
    born,       \* how many worms have been made
    mating,     \* each worm's mating flag
    lastDate,   \* each worm's lastDate
    i, j,       \* the cursors of the two loops; i = 0 outside the scan
    foundMate,  \* the flag of the outer loop's body
    herd,       \* history: how many worms the scan began with
    gen         \* history: the generation scanned, see Generation

scanVars == <<worms, born, mating, lastDate, i, j, foundMate, herd, gen>>
pairVars == <<mating, lastDate>>
cursorVars == <<i, j, foundMate, herd, gen>>

Scanning == i # 0

\* Worms in worms[gen.first .. gen.last] had their parents scanned in the
\* generation before; gen.spoiled is the position of the partner of this
\* generation's first birth, or 0.
Generation(first, last) == [first |-> first, last |-> last, spoiled |-> 0]

NoGeneration == Generation(1, 0)

\* Mutant of FirstPartner: the inner loop starts with the worm itself.
FirstPartnerSelf(k) == k

\* Where the inner loop starts for the worm at position k.
FirstPartner(k) == k + 1

\* The outer loop is entered with the given worms.
StartScan(kept) ==
    /\ ~Scanning
    /\ worms' = kept
    /\ herd' = Len(kept)
    /\ i' = IF kept = << >> THEN 0 ELSE 1
    /\ j' = IF kept = << >> THEN 0 ELSE FirstPartner(1)
    /\ foundMate' = FALSE
    /\ gen' = Generation(1, Len(kept))
    /\ UNCHANGED <<born, pairVars>>

\* Mutant of MayMate: the dates of a worm already mating are not looked at.
MayMateAnyDate(w1, w2) == ~mating[w1] \/ ~mating[w2]

\* The condition under which offspringOf:and: is called, with the precedence
\* it is compiled with: && before ||.
MayMate(w1, w2) ==
    \/ ~mating[w1]
    \/ ~mating[w2] /\ lastDate[w1] = "old" /\ lastDate[w2] = "old"

InnerRound == Scanning /\ i <= Len(worms) /\ j <= Len(worms)

\* The two bounding boxes do not intersect.
Apart ==
    /\ InnerRound
    /\ j' = j + 1
    /\ UNCHANGED <<worms, born, pairVars, i, foundMate, herd, gen>>

\* What both outcomes of a meeting have in common.
Meet ==
    /\ InnerRound
    /\ mating' = [mating EXCEPT ![worms[i]] = TRUE, ![worms[j]] = TRUE]
    /\ foundMate' = TRUE
    /\ j' = j + 1
    /\ UNCHANGED <<i, herd>>

\* Mutant of MeetOnly: the nil that offspringOf:and: answers is added.
MeetOnlyAddingNil ==
    /\ Meet
    /\ worms' = Append(worms, 0)
    /\ UNCHANGED <<born, lastDate, gen>>

\* They touch without offspring: they may not mate, or offspringOf:and:
\* answers nil, as it does every other time.
MeetOnly ==
    /\ Meet
    /\ UNCHANGED <<worms, born, lastDate, gen>>

\* They touch and have a baby, which is the next worm made.
MeetAndBear ==
    /\ Meet
    /\ MayMate(worms[i], worms[j])
    /\ born < MaxWorms
    /\ born' = born + 1
    /\ worms' = Append(worms, born + 1)
    /\ lastDate' = [lastDate EXCEPT ![worms[i]] = "recent",
                                    ![worms[j]] = "recent"]
    /\ gen' = [gen EXCEPT !.spoiled = IF @ = 0 THEN j ELSE @]

\* Mutant of Following: a worm that found a mate has another turn.
FollowingUnlessMated == IF foundMate THEN i ELSE i + 1

\* The worm whose turn is next.
Following == i + 1

\* The inner loop is over: the outer loop goes on to the next worm, if any.
NextWorm ==
    /\ Scanning
    /\ j > Len(worms)
    /\ mating' = IF foundMate THEN mating
                              ELSE [mating EXCEPT ![worms[i]] = FALSE]
    /\ i' = IF Following <= Len(worms) THEN Following ELSE 0
    /\ j' = IF Following <= Len(worms) THEN FirstPartner(Following) ELSE 0
    /\ foundMate' = FALSE
    /\ gen' = IF i = Len(worms) THEN NoGeneration
              ELSE IF i = gen.last THEN Generation(i + 1, Len(worms)) ELSE gen
    /\ herd' = IF i = Len(worms) THEN 0 ELSE herd
    /\ UNCHANGED <<worms, born, lastDate>>

\* Between ticks, the three seconds after a worm's last baby go by.  A scan is
\* taken to last less than that.
TimePasses(w) ==
    /\ ~Scanning
    /\ lastDate[w] = "recent"
    /\ lastDate' = [lastDate EXCEPT ![w] = "old"]
    /\ UNCHANGED <<worms, born, mating, cursorVars>>

ScanStep == Apart \/ MeetOnly \/ MeetAndBear \/ NextWorm

-----------------------------------------------------------------------------
(***************************************************************************)
(* The scan on its own: worms 1 .. n with any flags and dates that earlier *)
(* ticks may have left, scanned again and again.                           *)
(***************************************************************************)
InitWith(n) ==
    /\ born = n
    /\ worms = [k \in 1 .. n |-> k]
    /\ mating \in {f \in [Worm -> BOOLEAN] : \A w \in Worm : w > n => ~f[w]}
    /\ lastDate \in {f \in [Worm -> Dates] :
                        \A w \in Worm : w > n => f[w] = "nil"}
    /\ i = 0 /\ j = 0
    /\ foundMate = FALSE
    /\ herd = 0
    /\ gen = NoGeneration

ScanInit == \E n \in 0 .. MaxWorms : InitWith(n)

ScanNext ==
    \/ StartScan(worms)
    \/ Apart
    \/ MeetOnly
    \/ MeetAndBear
    \/ NextWorm
    \/ \E w \in Worm : TimePasses(w)

ScanSpec == ScanInit /\ [][ScanNext]_scanVars

\* The loop is not left before it is over.
ScanFairness == WF_scanVars(ScanStep)

FairScanSpec == ScanSpec /\ ScanFairness

-----------------------------------------------------------------------------
ScanTypeOK ==
    /\ born \in 0 .. MaxWorms
    /\ worms \in Seq(1 .. born)
    /\ mating \in [Worm -> BOOLEAN]
    /\ lastDate \in [Worm -> Dates]
    /\ i \in Nat
    /\ j \in Nat
    /\ foundMate \in BOOLEAN
    /\ herd \in Nat
    /\ gen \in [first : Nat, last : Nat, spoiled : Nat]

\* The cursors of a scan point into the array, the inner one behind the
\* outer one: no worm is ever matched with itself, although the array grows.
CursorsInArray ==
    Scanning => /\ i \in 1 .. Len(worms)
                /\ j \in i + 1 .. Len(worms) + 1

\* Babies are visited in the tick they are born in and may have babies of
\* their own then, yet a tick that starts with n worms makes at most
\* n(n-1)/2: the loop cannot feed itself for ever.
BirthsBounded ==
    Scanning => 2 * (Len(worms) - herd) <= herd * (herd - 1)

\* The scan of the tick comes to an end: the main thread gets back to its
\* run loop.
ScanEnds == Scanning ~> ~Scanning

=============================================================================
