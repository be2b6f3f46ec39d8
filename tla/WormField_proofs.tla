-------------------------- MODULE WormField_proofs --------------------------
(***************************************************************************)
(* Theorems about WormField, and about MatingScan which it extends, for    *)
(* any number of worms, any pitches, effects and lengths.                  *)
(*                                                                         *)
(* None of the properties is inductive alone.  That a cleared worm stays   *)
(* out needs to know that it is in no list of observers, old or new, and   *)
(* that one still in the controller's list has no notes left, so that the  *)
(* next scan leaves it out; that no worm is dismantled three times needs   *)
(* both, and that nobody is called twice by one tick.                      *)
(***************************************************************************)
EXTENDS WormField, Removal_proofs

-----------------------------------------------------------------------------
(***************************************************************************)
(* The mating loop alone, as MatingScan specifies it.                      *)
(*                                                                         *)
(* BirthsBounded is not inductive.  The argument is by generations: the    *)
(* worms a scan starts with, then the babies they have, and so on.  A worm *)
(* that has a baby in its own turn of the outer loop is barren for the     *)
(* rest of the scan, and so is the partner of the first birth of its       *)
(* generation, which is of the same generation and has its turn later.  So *)
(* g worms have at most g-1 babies, and the sum of (g-1) + (g-2) + ... is  *)
(* the bound.                                                              *)
(***************************************************************************)
Barren(k) == mating[worms[k]] /\ lastDate[worms[k]] = "recent"

\* Worms are listed in the order they were made, so no worm is listed twice.
Increasing ==
    \A k, l \in 1 .. Len(worms) : k < l => worms[k] < worms[l]

InGeneration ==
    /\ 1 <= gen.first /\ gen.first <= i /\ i <= gen.last
    /\ gen.last <= Len(worms)
    /\ herd <= gen.last

\* The partner of the first birth of the generation.
SpoiledPartner ==
    /\ gen.spoiled = 0 => Len(worms) = gen.last
    /\ gen.spoiled # 0 => gen.first < gen.spoiled /\ gen.spoiled <= gen.last
    /\ gen.spoiled >= i => Barren(gen.spoiled)

\* At most one baby for every turn so far, less the turn of the spoiled one.
OneBabyEach ==
    LET babies == Len(worms) - gen.last
        turns == i - gen.first
    IN  gen.spoiled # 0 =>
          /\ gen.spoiled < i => babies <= turns
          /\ gen.spoiled < i /\ ~Barren(i) => babies < turns
          /\ gen.spoiled = i => babies <= turns
          /\ gen.spoiled > i => babies <= turns + 1
          /\ gen.spoiled > i /\ ~Barren(i) => babies <= turns

\* What the generations after this one may still add.
Descending ==
    LET g == gen.last - gen.first + 1
    IN  2 * (gen.last - herd) + g * (g - 1) <= herd * (herd - 1)

GenerationInv ==
    /\ InGeneration
    /\ SpoiledPartner
    /\ OneBabyEach
    /\ Descending

ScanInv ==
    /\ ScanTypeOK
    /\ CursorsInArray
    /\ Increasing
    /\ Scanning => GenerationInv

-----------------------------------------------------------------------------
\* The elements of the array are worms, so the flags and dates of all of
\* them are defined.
LEMMA ListedAreWorms ==
    ASSUME ScanTypeOK
    PROVE  /\ Len(worms) \in Nat
           /\ \A k \in 1 .. Len(worms) : worms[k] \in 1 .. born /\ worms[k] \in Worm
           /\ born \in Nat
  <1>1. worms \in Seq(1 .. born) /\ born \in 0 .. MaxWorms
    BY DEF ScanTypeOK
  <1> QED
    BY <1>1, MaxWormsAssumption DEF Worm

\* Two worms that may mate: the first is not barren.
LEMMA BarrenDoNotBear ==
    ASSUME MayMate(worms[i], worms[j])
    PROVE  ~Barren(i)
  BY DEF MayMate, Barren

\* A meeting makes nobody fertile.
LEMMA MeetKeepsBarren ==
    ASSUME ScanTypeOK, NEW k \in 1 .. Len(worms), Barren(k),
           InnerRound,
           mating' = [mating EXCEPT ![worms[i]] = TRUE, ![worms[j]] = TRUE],
           worms'[k] = worms[k],
           \/ lastDate' = lastDate
           \/ lastDate' = [lastDate EXCEPT ![worms[i]] = "recent",
                                           ![worms[j]] = "recent"]
    PROVE  mating'[worms'[k]] /\ lastDate'[worms'[k]] = "recent"
  <1>1. worms[k] \in Worm
    BY ListedAreWorms
  <1>2. mating \in [Worm -> BOOLEAN] /\ lastDate \in [Worm -> Dates]
    BY DEF ScanTypeOK
  <1>3. mating[worms[k]] /\ lastDate[worms[k]] = "recent"
    BY DEF Barren
  <1>4. mating'[worms[k]]
    BY <1>1, <1>2, <1>3, Zenon
  <1>5. lastDate'[worms[k]] = "recent"
    BY <1>1, <1>2, <1>3
  <1> QED
    BY <1>4, <1>5

\* Both parents of a baby are barren.
LEMMA ParentsAreBarren ==
    ASSUME ScanTypeOK, CursorsInArray, MeetAndBear, NEW k \in {i, j}
    PROVE  /\ k \in 1 .. Len(worms)
           /\ mating'[worms'[k]] /\ lastDate'[worms'[k]] = "recent"
  <1>1. /\ i \in 1 .. Len(worms)
        /\ j \in 1 .. Len(worms)
    BY ListedAreWorms DEF MeetAndBear, Meet, InnerRound, CursorsInArray, ScanTypeOK
  <1>2. worms[i] \in Worm /\ worms[j] \in Worm
    BY <1>1, ListedAreWorms
  <1>3. mating \in [Worm -> BOOLEAN] /\ lastDate \in [Worm -> Dates]
    BY DEF ScanTypeOK
  <1>4. /\ mating' = [mating EXCEPT ![worms[i]] = TRUE, ![worms[j]] = TRUE]
        /\ lastDate' = [lastDate EXCEPT ![worms[i]] = "recent",
                                        ![worms[j]] = "recent"]
        /\ worms' = Append(worms, born + 1)
    BY DEF MeetAndBear, Meet
  <1>5. worms'[i] = worms[i] /\ worms'[j] = worms[j]
    BY <1>1, <1>4 DEF ScanTypeOK
  <1>6. mating'[worms[i]] /\ mating'[worms[j]]
    BY <1>2, <1>3, <1>4, Zenon
  <1>7. lastDate'[worms[i]] = "recent" /\ lastDate'[worms[j]] = "recent"
    BY <1>2, <1>3, <1>4
  <1> QED
    BY <1>1, <1>5, <1>6, <1>7

-----------------------------------------------------------------------------
\* A scan step, the start of a scan and the passing of time keep the types.
LEMMA TypeStep ==
    ASSUME ScanTypeOK, CursorsInArray, [ScanNext]_scanVars
    PROVE  ScanTypeOK'
  <1> USE DEF ScanTypeOK
  <1>0. /\ Len(worms) \in Nat /\ born \in Nat
        /\ \A k \in 1 .. Len(worms) : worms[k] \in Worm
    BY ListedAreWorms
  <1>1. CASE StartScan(worms)
    <2>1. foundMate' \in BOOLEAN
      BY <1>1, Zenon DEF StartScan
    <2> QED
      BY <1>1, <1>0, <2>1 DEF StartScan, FirstPartner, Generation, pairVars
  <1>2. CASE Apart
    BY <1>2 DEF Apart, pairVars
  <1>3. ASSUME Meet PROVE mating' \in [Worm -> BOOLEAN] /\ foundMate' \in BOOLEAN
                          /\ j' \in Nat /\ i' \in Nat /\ herd' \in Nat
    <2>1. mating' \in [Worm -> BOOLEAN]
      BY <1>3, Zenon DEF Meet
    <2>2. foundMate' \in BOOLEAN
      BY <1>3, Zenon DEF Meet
    <2>3. j' \in Nat /\ i' \in Nat /\ herd' \in Nat
      BY <1>3 DEF Meet
    <2> QED
      BY <2>1, <2>2, <2>3, Zenon
  <1>4. CASE MeetOnly
    BY <1>3, <1>4 DEF MeetOnly
  <1>5. CASE MeetAndBear
    <2>1. born' \in 0 .. MaxWorms /\ born' = born + 1
      BY <1>5, <1>0, MaxWormsAssumption DEF MeetAndBear
    <2>2. worms' \in Seq(1 .. born')
      <3>1. worms \in Seq(1 .. born') /\ born + 1 \in 1 .. born'
        BY <2>1, <1>0
      <3> QED
        BY <3>1, <1>5 DEF MeetAndBear
    <2>3. lastDate' \in [Worm -> Dates]
      BY <1>5 DEF MeetAndBear, Dates
    <2>4. gen' \in [first : Nat, last : Nat, spoiled : Nat]
      BY <1>5 DEF MeetAndBear
    <2>5. Meet
      BY <1>5 DEF MeetAndBear
    <2> QED
      BY <2>1, <2>2, <2>3, <2>4, <2>5, <1>3
  <1>6. CASE NextWorm
    <2>1. mating' \in [Worm -> BOOLEAN]
      BY <1>6, Zenon DEF NextWorm
    <2>2. gen' \in [first : Nat, last : Nat, spoiled : Nat]
      BY <1>6, <1>0 DEF NextWorm, NoGeneration, Generation
    <2>3. foundMate' \in BOOLEAN
      BY <1>6, Zenon DEF NextWorm
    <2>4. /\ i' \in Nat /\ j' \in Nat /\ herd' \in Nat
          /\ worms' = worms /\ born' = born /\ lastDate' = lastDate
      BY <1>6 DEF NextWorm, Following, FirstPartner
    <2> QED
      BY <2>1, <2>2, <2>3, <2>4
  <1>7. CASE \E w \in Worm : TimePasses(w)
    BY <1>7 DEF TimePasses, cursorVars, Dates
  <1>8. CASE UNCHANGED scanVars
    BY <1>8 DEF scanVars
  <1> QED
    BY <1>1, <1>2, <1>4, <1>5, <1>6, <1>7, <1>8 DEF ScanNext

-----------------------------------------------------------------------------
\* The cursors stay in the array, which only grows while they move.
LEMMA CursorStep ==
    ASSUME ScanTypeOK, CursorsInArray, [ScanNext]_scanVars
    PROVE  CursorsInArray'
  <1> USE DEF CursorsInArray, Scanning
  <1>0. Len(worms) \in Nat /\ i \in Nat /\ j \in Nat /\ worms \in Seq(1 .. born)
    BY ListedAreWorms DEF ScanTypeOK
  <1>1. CASE StartScan(worms)
    BY <1>1, <1>0 DEF StartScan, FirstPartner
  <1>2. CASE Apart
    BY <1>2, <1>0 DEF Apart, InnerRound
  <1>3. CASE MeetOnly
    BY <1>3, <1>0 DEF MeetOnly, Meet, InnerRound
  <1>4. CASE MeetAndBear
    <2>1. Len(worms') = Len(worms) + 1
      BY <1>4, <1>0 DEF MeetAndBear
    <2> QED
      BY <2>1, <1>4, <1>0 DEF MeetAndBear, Meet, InnerRound
  <1>5. CASE NextWorm
    BY <1>5, <1>0 DEF NextWorm, Following, FirstPartner
  <1>6. CASE \E w \in Worm : TimePasses(w)
    BY <1>6 DEF TimePasses, cursorVars
  <1>7. CASE UNCHANGED scanVars
    BY <1>7 DEF scanVars
  <1> QED
    BY <1>1, <1>2, <1>3, <1>4, <1>5, <1>6, <1>7 DEF ScanNext

\* A baby is younger than every worm in the array.
LEMMA IncreasingStep ==
    ASSUME ScanTypeOK, Increasing, [ScanNext]_scanVars
    PROVE  Increasing'
  <1> USE DEF Increasing
  <1>1. CASE MeetAndBear
    <2>1. worms \in Seq(1 .. born) /\ worms' = Append(worms, born + 1) /\ born \in Nat
      BY <1>1, ListedAreWorms DEF ScanTypeOK, MeetAndBear
    <2>2. Len(worms') = Len(worms) + 1 /\ Len(worms) \in Nat
      BY <2>1
    <2>3. \A k \in 1 .. Len(worms) : worms'[k] = worms[k] /\ worms[k] \in 1 .. born
      BY <2>1
    <2>4. worms'[Len(worms) + 1] = born + 1
      BY <2>1
    <2>5. ASSUME NEW k \in 1 .. Len(worms'), NEW l \in 1 .. Len(worms'), k < l
          PROVE  worms'[k] < worms'[l]
      <3>1. k \in 1 .. Len(worms)
        BY <2>2, <2>5
      <3>2. CASE l \in 1 .. Len(worms)
        BY <3>1, <3>2, <2>3, <2>5
      <3>3. CASE l = Len(worms) + 1
        BY <3>1, <3>3, <2>1, <2>3, <2>4
      <3> QED
        BY <3>2, <3>3, <2>2
    <2> QED
      BY <2>5
  <1>2. CASE UNCHANGED worms
    BY <1>2
  <1>3. MeetAndBear \/ UNCHANGED worms
    BY DEF ScanNext, StartScan, Apart, MeetOnly, NextWorm, TimePasses, scanVars
  <1> QED
    BY <1>1, <1>2, <1>3

-----------------------------------------------------------------------------
\* The arithmetic of a new generation of b worms after one of g.
LEMMA Descent ==
    ASSUME NEW b \in Nat, NEW g \in Nat, b < g
    PROVE  b * (b + 1) <= g * (g - 1)
  <1>1. PICK d \in Nat : g = b + 1 + d
    <2>1. g - b - 1 \in Nat /\ g = b + 1 + (g - b - 1)
      OBVIOUS
    <2> QED
      BY <2>1
  <1>2. g * (g - 1) = b * (b + 1) + d * (2 * b + 1 + d)
    BY <1>1
  <1>3. d * (2 * b + 1 + d) >= 0
    BY <1>1
  <1> QED
    BY <1>2, <1>3

\* At the end of a generation it has had fewer babies than it had worms.
LEMMA FewerBabies ==
    ASSUME ScanTypeOK, InGeneration, SpoiledPartner, OneBabyEach
    PROVE  /\ Len(worms) - gen.last \in Nat
           /\ gen.last - gen.first + 1 \in Nat
           /\ Len(worms) - gen.last < gen.last - gen.first + 1
  <1>1. /\ Len(worms) \in Nat /\ i \in Nat
        /\ gen.first \in Nat /\ gen.last \in Nat /\ gen.spoiled \in Nat
    BY ListedAreWorms DEF ScanTypeOK
  <1>2. CASE gen.spoiled = 0
    BY <1>1, <1>2 DEF InGeneration, SpoiledPartner
  <1>3. CASE gen.spoiled # 0
    <2>1. /\ gen.spoiled <= i => Len(worms) - gen.last <= i - gen.first
          /\ gen.spoiled > i => Len(worms) - gen.last <= i - gen.first + 1
      BY <1>1, <1>3 DEF OneBabyEach
    <2>2. gen.spoiled <= gen.last
      BY <1>3 DEF SpoiledPartner
    <2>3. gen.first <= i /\ i <= gen.last /\ gen.last <= Len(worms)
      BY DEF InGeneration
    <2>4. /\ Len(worms) - gen.last \in Nat
          /\ gen.last - gen.first + 1 \in Nat
      BY <1>1, <2>3
    <2>5. CASE gen.spoiled <= i
      <3>1. Len(worms) - gen.last <= i - gen.first
        BY <2>1, <2>5
      <3> QED
        BY <3>1, <2>3, <2>4, <1>1
    <2>6. CASE gen.spoiled > i
      <3>1. Len(worms) - gen.last <= i - gen.first + 1
        BY <2>1, <2>6
      <3> QED
        BY <3>1, <2>2, <2>3, <2>4, <2>6, <1>1
    <2> QED
      BY <2>5, <2>6, <1>1
  <1> QED
    BY <1>2, <1>3

\* The generation's part of the invariant, with every round of the scan.
LEMMA GenerationStep ==
    ASSUME ScanInv, [ScanNext]_scanVars, Scanning'
    PROVE  GenerationInv'
  <1>0. /\ Len(worms) \in Nat /\ i \in Nat /\ j \in Nat /\ herd \in Nat
        /\ worms \in Seq(1 .. born) /\ born \in Nat
        /\ gen \in [first : Nat, last : Nat, spoiled : Nat]
        /\ gen.first \in Nat /\ gen.last \in Nat /\ gen.spoiled \in Nat
    BY ListedAreWorms DEF ScanTypeOK, ScanInv
  <1>t. ScanTypeOK /\ CursorsInArray /\ Increasing
    BY DEF ScanInv
  <1>1. CASE StartScan(worms)
    <2>1. /\ i' = 1 /\ herd' = Len(worms) /\ worms' = worms
          /\ gen'.first = 1 /\ gen'.last = Len(worms) /\ gen'.spoiled = 0
      BY <1>1 DEF StartScan, Generation, Scanning
    <2>2. Len(worms) > 0
      BY <1>0, <1>1 DEF StartScan, Scanning
    <2>3. InGeneration'
      BY <2>1, <2>2, <1>0 DEF InGeneration
    <2>4. SpoiledPartner' /\ OneBabyEach'
      BY <2>1, <1>0 DEF SpoiledPartner, OneBabyEach
    <2>5. Descending'
      BY <2>1, <1>0 DEF Descending
    <2> QED
      BY <2>3, <2>4, <2>5 DEF GenerationInv
  <1>2. CASE Apart
    <2>1. Scanning /\ UNCHANGED <<worms, mating, lastDate, i, herd, gen>>
      BY <1>2 DEF Apart, InnerRound, pairVars
    <2> QED
      BY <2>1 DEF ScanInv, GenerationInv, InGeneration, SpoiledPartner,
                  OneBabyEach, Descending, Barren
  <1>3. CASE MeetOnly
    <2>1. /\ Scanning /\ InnerRound
          /\ UNCHANGED <<worms, lastDate, i, herd, gen>>
          /\ mating' = [mating EXCEPT ![worms[i]] = TRUE, ![worms[j]] = TRUE]
      BY <1>3 DEF MeetOnly, Meet, InnerRound
    <2>2. InGeneration /\ SpoiledPartner /\ OneBabyEach /\ Descending
      BY <2>1 DEF ScanInv, GenerationInv
    <2>3. Barren(i) => Barren(i)'
      <3>1. i \in 1 .. Len(worms)
        BY <1>0, <2>1, <1>t DEF CursorsInArray
      <3>2. SUFFICES ASSUME Barren(i)
                     PROVE  mating'[worms'[i]] /\ lastDate'[worms'[i]] = "recent"
        BY <2>1 DEF Barren
      <3> QED
        BY <3>1, <3>2, <2>1, <1>t, MeetKeepsBarren
    <2>4. gen.spoiled >= i => Barren(gen.spoiled)'
      <3>1. SUFFICES ASSUME gen.spoiled >= i
                     PROVE  /\ mating'[worms'[gen.spoiled]]
                            /\ lastDate'[worms'[gen.spoiled]] = "recent"
        BY <2>1 DEF Barren
      <3>2. gen.spoiled \in 1 .. Len(worms) /\ Barren(gen.spoiled)
        BY <3>1, <2>2, <1>0 DEF InGeneration, SpoiledPartner
      <3> QED
        BY <3>2, <2>1, <1>t, MeetKeepsBarren
    <2>5. InGeneration' /\ Descending'
      BY <2>1, <2>2 DEF InGeneration, Descending
    <2>6. SpoiledPartner'
      BY <2>1, <2>2, <2>4 DEF SpoiledPartner
    <2>7. OneBabyEach'
      BY <2>1, <2>2, <2>3 DEF OneBabyEach
    <2> QED
      BY <2>5, <2>6, <2>7 DEF GenerationInv
  <1>4. CASE MeetAndBear
    <2>1. /\ Scanning /\ InnerRound
          /\ UNCHANGED <<i, herd>>
          /\ mating' = [mating EXCEPT ![worms[i]] = TRUE, ![worms[j]] = TRUE]
          /\ lastDate' = [lastDate EXCEPT ![worms[i]] = "recent",
                                          ![worms[j]] = "recent"]
          /\ worms' = Append(worms, born + 1)
          /\ ~Barren(i)
      BY <1>4, BarrenDoNotBear DEF MeetAndBear, Meet, InnerRound
    <2>2. InGeneration /\ SpoiledPartner /\ OneBabyEach /\ Descending
      BY <2>1 DEF ScanInv, GenerationInv
    <2>3. /\ Len(worms') = Len(worms) + 1
          /\ \A k \in 1 .. Len(worms) : worms'[k] = worms[k]
      BY <2>1, <1>0
    <2>4. /\ gen'.first = gen.first /\ gen'.last = gen.last
          /\ gen'.spoiled = IF gen.spoiled = 0 THEN j ELSE gen.spoiled
      BY <1>4, <1>0 DEF MeetAndBear
    <2>5. /\ i \in 1 .. Len(worms) /\ j \in i + 1 .. Len(worms)
          /\ gen.spoiled # i
      BY <2>1, <2>2, <1>0, <1>t DEF CursorsInArray, InnerRound, SpoiledPartner
    <2>6. Barren(i)'
      BY <2>1, <1>4, <1>t, ParentsAreBarren DEF Barren
    <2>7. gen'.spoiled >= i => Barren(gen.spoiled)'
      <3>1. CASE gen.spoiled = 0
        BY <3>1, <2>4, <1>4, <1>t, ParentsAreBarren DEF Barren
      <3>2. CASE gen.spoiled # 0
        <4>1. SUFFICES ASSUME gen.spoiled >= i
                       PROVE  /\ mating'[worms'[gen.spoiled]]
                              /\ lastDate'[worms'[gen.spoiled]] = "recent"
          BY <3>2, <2>4 DEF Barren
        <4>2. gen.spoiled \in 1 .. Len(worms) /\ Barren(gen.spoiled)
          BY <4>1, <2>2, <1>0 DEF InGeneration, SpoiledPartner
        <4>3. worms'[gen.spoiled] = worms[gen.spoiled]
          BY <4>2, <2>3
        <4> QED
          BY <4>2, <4>3, <2>1, <1>t, MeetKeepsBarren
      <3> QED
        BY <3>1, <3>2
    <2>8. InGeneration' /\ Descending'
      BY <2>1, <2>2, <2>3, <2>4, <1>0 DEF InGeneration, Descending
    <2>9. SpoiledPartner'
      <3>1. gen'.spoiled # 0 /\ gen'.first < gen'.spoiled /\ gen'.spoiled <= gen'.last
        BY <2>2, <2>4, <2>5, <1>0 DEF InGeneration, SpoiledPartner
      <3> QED
        BY <3>1, <2>1, <2>7 DEF SpoiledPartner
    <2>10. OneBabyEach'
      <3>1. CASE gen.spoiled = 0
        BY <3>1, <2>1, <2>2, <2>3, <2>4, <2>5, <2>6, <1>0
           DEF OneBabyEach, SpoiledPartner, InGeneration
      <3>2. CASE gen.spoiled # 0
        BY <3>2, <2>1, <2>2, <2>3, <2>4, <2>5, <2>6, <1>0 DEF OneBabyEach
      <3> QED
        BY <3>1, <3>2
    <2> QED
      BY <2>8, <2>9, <2>10 DEF GenerationInv
  <1>5. CASE NextWorm
    <2>1. /\ Scanning /\ i < Len(worms) /\ i' = i + 1
          /\ UNCHANGED <<worms, lastDate>> /\ herd' = herd
          /\ mating' = IF foundMate THEN mating
                                    ELSE [mating EXCEPT ![worms[i]] = FALSE]
          /\ gen' = IF i = gen.last THEN Generation(i + 1, Len(worms)) ELSE gen
      BY <1>5, <1>0 DEF NextWorm, Following, Scanning
    <2>2. InGeneration /\ SpoiledPartner /\ OneBabyEach /\ Descending
      BY <2>1 DEF ScanInv, GenerationInv
    <2>3. CASE i = gen.last
      <3>1. /\ gen'.first = gen.last + 1 /\ gen'.last = Len(worms)
            /\ gen'.spoiled = 0
        BY <2>1, <2>3 DEF Generation
      <3>2. InGeneration' /\ SpoiledPartner'
        BY <3>1, <2>1, <2>2, <2>3, <1>0 DEF InGeneration, SpoiledPartner
      <3>4. OneBabyEach'
        BY <3>1 DEF OneBabyEach
      <3>3. Descending'
        <4> DEFINE b == Len(worms) - gen.last
                   g == gen.last - gen.first + 1
        <4>1. b \in Nat /\ g \in Nat /\ b < g
          BY <2>2, <1>t, FewerBabies
        <4>2. b * (b + 1) <= g * (g - 1)
          BY <4>1, Descent
        <4>3. 2 * (gen.last - herd) + g * (g - 1) <= herd * (herd - 1)
          BY <2>2 DEF Descending
        <4>4. b * (b + 1) = 2 * b + b * (b - 1)
          BY <4>1
        <4>5. /\ gen'.last - gen'.first + 1 = b
              /\ gen'.last - herd' = (gen.last - herd) + b
          BY <3>1, <2>1, <1>0
        <4>6. gen.last - herd \in Int /\ herd * (herd - 1) \in Int
              /\ b * (b - 1) \in Int /\ g * (g - 1) \in Int
          <5>1. gen.last - herd \in Int /\ herd * (herd - 1) \in Int
            BY <1>0
          <5> HIDE DEF b, g
          <5>2. b * (b - 1) \in Int /\ g * (g - 1) \in Int
            BY <4>1
          <5> QED
            BY <5>1, <5>2
        <4> HIDE DEF b, g
        <4>7. 2 * ((gen.last - herd) + b) + b * (b - 1) <= herd * (herd - 1)
          BY <4>1, <4>2, <4>3, <4>4, <4>6
        <4> QED
          BY <4>5, <4>7, <2>1 DEF Descending
      <3> QED
        BY <3>2, <3>3, <3>4 DEF GenerationInv
    <2>4. CASE i # gen.last
      <3>1. gen' = gen
        BY <2>1, <2>4
      <3>2. InGeneration'
        BY <3>1, <2>1, <2>2, <2>4, <1>0 DEF InGeneration
      <3>6. Descending'
        BY <3>1, <2>1, <2>2 DEF Descending
      <3>3. gen.spoiled >= i + 1 => Barren(gen.spoiled)'
        <4>1. SUFFICES ASSUME gen.spoiled >= i + 1
                       PROVE  Barren(gen.spoiled)'
          OBVIOUS
        <4>2. /\ gen.spoiled \in 1 .. Len(worms) /\ i \in 1 .. Len(worms)
              /\ Barren(gen.spoiled)
          BY <4>1, <2>1, <2>2, <1>0 DEF InGeneration, SpoiledPartner
        <4>3. worms[gen.spoiled] # worms[i] /\ worms[gen.spoiled] \in Worm
          BY <4>1, <4>2, <1>0, <1>t, ListedAreWorms DEF Increasing
        <4>4. mating \in [Worm -> BOOLEAN]
          BY <1>t DEF ScanTypeOK
        <4>5. mating'[worms[gen.spoiled]] = mating[worms[gen.spoiled]]
          BY <4>3, <4>4, <2>1, Zenon
        <4> QED
          BY <4>2, <4>5, <3>1, <2>1 DEF Barren
      <3>4. SpoiledPartner'
        BY <3>1, <3>3, <2>1, <2>2, <1>0 DEF SpoiledPartner
      <3>5. OneBabyEach'
        <4>1. gen.spoiled # 0 =>
                /\ gen.spoiled < i => Len(worms) - gen.last <= i - gen.first
                /\ gen.spoiled = i => Len(worms) - gen.last <= i - gen.first
                /\ gen.spoiled > i => Len(worms) - gen.last <= i - gen.first + 1
          BY <2>2 DEF OneBabyEach
        <4>2. gen.spoiled # 0 =>
                /\ gen.spoiled < i + 1 => Len(worms) - gen.last < (i + 1) - gen.first
                /\ gen.spoiled >= i + 1 => Len(worms) - gen.last <= (i + 1) - gen.first
          BY <4>1, <1>0
        <4>3. gen.spoiled # 0 =>
                /\ gen'.spoiled < i' => Len(worms') - gen'.last < i' - gen'.first
                /\ gen'.spoiled >= i' => Len(worms') - gen'.last <= i' - gen'.first
          BY <4>2, <3>1, <2>1
        <4>4. /\ Len(worms') \in Nat /\ i' \in Nat /\ gen'.spoiled \in Nat
              /\ gen'.last \in Nat /\ gen'.first \in Nat
          BY <3>1, <2>1, <1>0
        <4> QED
          BY <4>3, <4>4, <3>1 DEF OneBabyEach
      <3> QED
        BY <3>2, <3>4, <3>5, <3>6 DEF GenerationInv
    <2> QED
      BY <2>3, <2>4
  <1>6. CASE \E w \in Worm : TimePasses(w)
    BY <1>6 DEF TimePasses, cursorVars, Scanning
  <1>7. CASE UNCHANGED scanVars
    BY <1>7 DEF scanVars, Scanning, ScanInv, GenerationInv, InGeneration,
                SpoiledPartner, OneBabyEach, Descending, Barren
  <1> QED
    BY <1>1, <1>2, <1>3, <1>4, <1>5, <1>6, <1>7 DEF ScanNext

-----------------------------------------------------------------------------
LEMMA ScanInvInit == ScanInit => ScanInv
  <1> SUFFICES ASSUME NEW n \in 0 .. MaxWorms, InitWith(n)
               PROVE  ScanInv
    BY DEF ScanInit
  <1> USE DEF InitWith
  <1>1. n \in Nat /\ worms = [k \in 1 .. n |-> k] /\ Len(worms) = n
        /\ worms \in Seq(1 .. n)
    BY MaxWormsAssumption
  <1>2. mating \in [Worm -> BOOLEAN] /\ foundMate \in BOOLEAN
    BY Zenon
  <1>3. ScanTypeOK
    BY <1>1, <1>2 DEF ScanTypeOK, NoGeneration, Generation
  <1>4. CursorsInArray /\ ~Scanning
    BY DEF CursorsInArray, Scanning
  <1>5. Increasing
    BY <1>1 DEF Increasing
  <1> QED
    BY <1>3, <1>4, <1>5 DEF ScanInv

LEMMA ScanInvStep == ScanInv /\ [ScanNext]_scanVars => ScanInv'
  <1> SUFFICES ASSUME ScanInv, [ScanNext]_scanVars
               PROVE  ScanInv'
    OBVIOUS
  <1>1. ScanTypeOK' /\ CursorsInArray' /\ Increasing'
    BY TypeStep, CursorStep, IncreasingStep DEF ScanInv
  <1>2. Scanning' => GenerationInv'
    BY GenerationStep
  <1> QED
    BY <1>1, <1>2 DEF ScanInv

\* What is left of the bound when this generation's babies are counted.
LEMMA ScanInvBounds == ScanInv => BirthsBounded
  <1> SUFFICES ASSUME ScanInv, Scanning
               PROVE  2 * (Len(worms) - herd) <= herd * (herd - 1)
    BY DEF BirthsBounded
  <1>0. /\ Len(worms) \in Nat /\ herd \in Nat
        /\ gen.first \in Nat /\ gen.last \in Nat
    BY ListedAreWorms DEF ScanTypeOK, ScanInv
  <1> DEFINE b == Len(worms) - gen.last
             g == gen.last - gen.first + 1
  <1>1. b \in Nat /\ g \in Nat /\ b < g
    BY FewerBabies DEF ScanInv, GenerationInv
  <1>2. b * (b + 1) <= g * (g - 1)
    BY <1>1, Descent
  <1>3. 2 * (gen.last - herd) + g * (g - 1) <= herd * (herd - 1)
    BY DEF ScanInv, GenerationInv, Descending
  <1>4. gen.last - herd \in Int /\ Len(worms) - herd = (gen.last - herd) + b
    BY <1>0
  <1>5. herd * (herd - 1) \in Int
    BY <1>0
  <1> HIDE DEF b, g
  <1>6. 2 * b <= b * (b + 1) /\ b * (b + 1) \in Int /\ g * (g - 1) \in Int
    BY <1>1
  <1>7. 2 * ((gen.last - herd) + b) <= herd * (herd - 1)
    BY <1>1, <1>2, <1>3, <1>4, <1>5, <1>6
  <1> QED
    BY <1>4, <1>7

\* The scan keeps its variables in their types.
THEOREM ScanTypeCorrect == ScanSpec => []ScanTypeOK
  <1>1. ScanInv => ScanTypeOK
    BY DEF ScanInv
  <1> QED
    BY <1>1, ScanInvInit, ScanInvStep, PTL DEF ScanSpec

\* However many worms there are and however they are placed, the loops of
\* -[PWViewController tick] index the growing array within its bounds and
\* never match a worm with itself.
THEOREM CursorsAlwaysInArray == ScanSpec => []CursorsInArray
  <1>1. ScanInv => CursorsInArray
    BY DEF ScanInv
  <1> QED
    BY <1>1, ScanInvInit, ScanInvStep, PTL DEF ScanSpec

\* One tick never makes more than n(n-1)/2 babies of the n worms it starts
\* with, although babies may breed in the tick they are born in.
THEOREM BirthsAlwaysBounded == ScanSpec => []BirthsBounded
  <1> QED
    BY ScanInvInit, ScanInvStep, ScanInvBounds, PTL DEF ScanSpec

-----------------------------------------------------------------------------
(* The worm field. *)

Observers == {Controller} \cup { SequenceOf(w) : w \in Made }
                          \cup { WormOf(w) : w \in Made }

\* The type of every variable that is not the scan's.
Typed ==
    /\ creatingWorm \in BOOLEAN /\ armed \in BOOLEAN
    /\ currentWorm \in Made \cup {NoWorm}
    /\ creating \in [Worm -> BOOLEAN] /\ aged \in [Worm -> BOOLEAN]
    /\ eaten \in [Worm -> Effects \cup {NoEffect}]
    /\ dismantled \in [Worm -> Nat]
    /\ timeline \in [Worm -> Seq(SUBSET Pitches)]
    /\ pos \in [Worm -> Nat]
    /\ recording \in [Worm -> BOOLEAN]
    /\ observers \in Seq(Observers) /\ pending \in Seq(Observers)

\* What is known of a worm before it is made.
Unmade ==
    \A w \in Worm : w \notin Made =>
        timeline[w] = EmptyTimeline /\ pos[w] = 0 /\ dismantled[w] = 0

\* No observer is called twice by the post that is on, or by the next one.
OnceEach == Distinct(observers) /\ Distinct(pending)

\* A cleared worm is registered no longer.
ClearedUnregistered ==
    \A w \in Made : Cleared(w) =>
        ~Holds(observers, WormOf(w)) /\ ~Holds(pending, WormOf(w))

\* A worm that has cleared itself and is still listed has no notes left, and
\* leaves the list before it is scanned.
ClearedInList ==
    \A w \in Made : Holds(worms, w) /\ Cleared(w) =>
        dismantled[w] = 1 /\ Dead(w) /\ ~creating[w] /\ ~Scanning

FieldInv ==
    /\ ScanTypeOK /\ CursorsInArray
    /\ Typed
    /\ CreationInStep
    /\ Unmade
    /\ SequencesInStep
    /\ OnceEach
    /\ ClearedUnregistered
    /\ ClearedInList
    /\ OnlyTheDeadEscapeClear
    /\ DismantledAtMostTwice

-----------------------------------------------------------------------------
\* The steps that leave the scan's variables alone.
Elsewhere ==
    \/ \E p \in Pitches : AddNote(p)
    \/ StopCreatingWorm
    \/ PostTick
    \/ \E w \in Worm : SequenceTick(w)
    \/ \E w \in Worm : CreatingTick(w)
    \/ \E w \in Worm, off \in BOOLEAN : FinishedTick(w, off)
    \/ UNCHANGED vars

\* They do.
LEMMA ElsewhereUnchanged == Elsewhere => UNCHANGED scanVars
  BY DEF Elsewhere, AddNote, StopCreatingWorm, PostTick, SequenceTick,
         CreatingTick, FinishedTick, vars

\* Every step is one of these, a step of the scan, or one of three that
\* change the list between two scans.
LEMMA StepCases ==
    ASSUME [Next]_vars
    PROVE  \/ StartCreatingWorm
           \/ ClearStuff
           \/ ControllerTick
           \/ ScanRound
           \/ Birth
           \/ SecondsPass
           \/ Elsewhere
  BY DEF Next, Elsewhere

\* Rounds of the scan and the passing of time are steps of MatingScan.
LEMMA ScanSteps ==
    ASSUME ScanRound \/ Birth \/ SecondsPass \/ Elsewhere
    PROVE  [ScanNext]_scanVars
  BY ElsewhereUnchanged DEF ScanRound, Birth, SecondsPass, ScanNext

\* The list of worms and the cursors of its scan stay well formed, although
\* worms join and leave the list between scans.
LEMMA ScanPart ==
    ASSUME FieldInv, [Next]_vars
    PROVE  ScanTypeOK' /\ CursorsInArray'
  <1>0. ScanTypeOK /\ CursorsInArray
    BY DEF FieldInv
  <1>1. /\ born \in 0 .. MaxWorms /\ born \in Nat
        /\ worms \in Seq(1 .. born)
    BY <1>0, MaxWormsAssumption DEF ScanTypeOK
  <1>2. CASE StartCreatingWorm
    <2>1. /\ born' = born + 1 /\ worms' = Append(worms, born + 1)
          /\ UNCHANGED <<mating, lastDate, i, j, foundMate, herd, gen>>
          /\ born < MaxWorms /\ ~Scanning
      BY <1>2 DEF StartCreatingWorm, pairVars, cursorVars, Idle
    <2>2. born' \in 0 .. MaxWorms
      BY <1>1, <2>1, MaxWormsAssumption
    <2>3. worms' \in Seq(1 .. born')
      <3>1. worms \in Seq(1 .. born') /\ born + 1 \in 1 .. born'
        BY <1>1, <2>1
      <3> QED
        BY <2>1, <3>1
    <2>4. ScanTypeOK'
      BY <1>0, <2>1, <2>2, <2>3 DEF ScanTypeOK
    <2>5. CursorsInArray'
      BY <2>1 DEF CursorsInArray, Scanning
    <2> QED
      BY <2>4, <2>5
  <1>3. CASE ClearStuff
    <2>1. /\ worms' = << >> /\ ~Scanning
          /\ UNCHANGED <<born, mating, lastDate, i, j, foundMate, herd, gen>>
      BY <1>3 DEF ClearStuff, pairVars, cursorVars, Idle
    <2>2. ScanTypeOK'
      BY <1>0, <2>1 DEF ScanTypeOK
    <2>3. CursorsInArray'
      BY <2>1 DEF CursorsInArray, Scanning
    <2> QED
      BY <2>2, <2>3
  <1>4. CASE ControllerTick
    <2> DEFINE kept == Without(worms, { w \in Worm : ~Kept(w) })
    <2>1. kept \in Seq(1 .. born)
      BY <1>1, WithoutHolds
    <2>2. StartScan(kept)
      BY <1>4 DEF ControllerTick
    <2> HIDE DEF kept
    <2>3. foundMate' \in BOOLEAN
      BY <2>2, Zenon DEF StartScan
    <2>4. ScanTypeOK'
      BY <1>0, <2>1, <2>2, <2>3
      DEF ScanTypeOK, StartScan, FirstPartner, Generation, pairVars
    <2>5. CursorsInArray'
      BY <2>1, <2>2 DEF CursorsInArray, Scanning, StartScan, FirstPartner
    <2> QED
      BY <2>4, <2>5
  <1>5. CASE ScanRound \/ Birth \/ SecondsPass \/ Elsewhere
    BY <1>0, <1>5, ScanSteps, TypeStep, CursorStep
  <1> QED
    BY <1>2, <1>3, <1>4, <1>5, StepCases

-----------------------------------------------------------------------------
\* Worms are made one at a time, by a touch or in a scan, and never unmade.
LEMMA MadeGrows ==
    ASSUME FieldInv, [Next]_vars
    PROVE  /\ born \in Nat /\ Made \subseteq Worm
           /\ \/ /\ StartCreatingWorm \/ Birth
                 /\ born' = born + 1 /\ born + 1 \in Worm /\ born + 1 \notin Made
                 /\ Made' = Made \cup {born + 1}
              \/ /\ ~StartCreatingWorm /\ ~Birth
                 /\ born' = born /\ Made' = Made
  <1>0. born \in Nat /\ born <= MaxWorms /\ MaxWorms \in Nat
    BY MaxWormsAssumption DEF FieldInv, ScanTypeOK
  <1>1. CASE StartCreatingWorm \/ Birth
    <2>1. born' = born + 1 /\ born < MaxWorms
      BY <1>1 DEF StartCreatingWorm, Birth, MeetAndBear
    <2> QED
      BY <1>0, <1>1, <2>1 DEF Made, Worm
  <1>2. CASE ~StartCreatingWorm /\ ~Birth
    <2>1. born' = born
      BY <1>2, StepCases, ElsewhereUnchanged
      DEF ClearStuff, ControllerTick, StartScan, ScanRound, Apart, MeetOnly,
          NextWorm, SecondsPass, TimePasses, scanVars
    <2> QED
      BY <1>0, <1>2, <2>1 DEF Made, Worm
  <1> QED
    BY <1>1, <1>2

\* A worm and its sequence are two observers, and different worms have
\* different ones.
LEMMA ObserversDiffer ==
    \A v, w : /\ SequenceOf(v) # WormOf(w)
              /\ SequenceOf(v) # Controller /\ WormOf(v) # Controller
              /\ WormOf(v) = WormOf(w) => v = w
              /\ SequenceOf(v) = SequenceOf(w) => v = w
  BY DEF SequenceOf, WormOf, Controller

\* A worm that is not made yet is no observer.
LEMMA UnmadeUnregistered ==
    ASSUME Typed, NEW w, w \notin Made
    PROVE  /\ ~Holds(observers, WormOf(w)) /\ ~Holds(observers, SequenceOf(w))
           /\ ~Holds(pending, WormOf(w))
  <1>1. WormOf(w) \notin Observers /\ SequenceOf(w) \notin Observers
    BY ObserversDiffer DEF Observers
  <1> QED
    BY <1>1 DEF Typed, Holds

\* The observers stay what they should be, nobody is called twice, and no
\* worm comes back to the observers or to a post once it has left.
LEMMA ObserversStep ==
    ASSUME FieldInv, [Next]_vars
    PROVE  /\ observers' \in Seq(Observers') /\ pending' \in Seq(Observers')
           /\ Distinct(observers') /\ Distinct(pending')
           /\ \A w \in Made :
                /\ Holds(observers', WormOf(w)) => Holds(observers, WormOf(w))
                /\ Holds(pending', WormOf(w)) =>
                       Holds(pending, WormOf(w)) \/ Holds(observers, WormOf(w))
  <1>0. /\ observers \in Seq(Observers) /\ pending \in Seq(Observers)
        /\ Distinct(observers) /\ Distinct(pending)
        /\ Typed
    BY DEF FieldInv, Typed, OnceEach
  <1>1. Made \subseteq Made' /\ Observers \subseteq Observers'
    <2>1. Made \subseteq Made'
      BY MadeGrows
    <2> QED
      BY <2>1 DEF Observers
  <1>2. observers \in Seq(Observers') /\ pending \in Seq(Observers')
    BY <1>0, <1>1
  <1>3. ASSUME UNCHANGED observers
        PROVE  /\ observers' \in Seq(Observers') /\ Distinct(observers')
               /\ \A w \in Made :
                     Holds(observers', WormOf(w)) => Holds(observers, WormOf(w))
    BY <1>0, <1>2, <1>3
  <1>4. ASSUME UNCHANGED pending
        PROVE  /\ pending' \in Seq(Observers') /\ Distinct(pending')
               /\ \A w \in Made :
                     Holds(pending', WormOf(w)) => Holds(pending, WormOf(w))
    BY <1>0, <1>2, <1>4
  <1>5. ASSUME pending # << >>, pending' = Tail(pending)
        PROVE  /\ pending' \in Seq(Observers') /\ Distinct(pending')
               /\ \A w \in Made :
                     Holds(pending', WormOf(w)) => Holds(pending, WormOf(w))
    BY <1>0, <1>2, <1>5, TailHolds
  <1>6. ASSUME NEW gone, observers' = Without(observers, gone)
        PROVE  /\ observers' \in Seq(Observers') /\ Distinct(observers')
               /\ \A w \in Made :
                     Holds(observers', WormOf(w)) => Holds(observers, WormOf(w))
    BY <1>0, <1>2, <1>6, WithoutHolds
  <1>7. ASSUME NEW a \in Observers', NEW b \in Observers',
               observers' = observers \o <<a, b>>,
               ~Holds(observers, a), ~Holds(observers, b), a # b,
               \A w \in Made : WormOf(w) # a /\ WormOf(w) # b
        PROVE  /\ observers' \in Seq(Observers') /\ Distinct(observers')
               /\ \A w \in Made :
                     Holds(observers', WormOf(w)) => Holds(observers, WormOf(w))
    <2> DEFINE one == Append(observers, a)
    <2>1. observers' = Append(one, b)
      BY <1>2, <1>7, TwoMore
    <2>2. /\ one \in Seq(Observers') /\ Distinct(one)
          /\ \A x : Holds(one, x) <=> Holds(observers, x) \/ x = a
      BY <1>0, <1>2, <1>7, AppendHolds
    <2> HIDE DEF one
    <2>3. /\ Append(one, b) \in Seq(Observers') /\ Distinct(Append(one, b))
          /\ \A x : Holds(Append(one, b), x) <=> Holds(one, x) \/ x = b
      BY <1>7, <2>2, AppendHolds
    <2> QED
      BY <1>7, <2>1, <2>2, <2>3
  <1>8. CASE StartCreatingWorm \/ Birth
    <2>1. /\ born + 1 \notin Made /\ born + 1 \in Made'
      BY <1>8, MadeGrows
    <2>2. /\ SequenceOf(born + 1) \in Observers' /\ WormOf(born + 1) \in Observers'
      BY <2>1 DEF Observers
    <2>3. /\ ~Holds(observers, WormOf(born + 1))
          /\ ~Holds(observers, SequenceOf(born + 1))
          /\ \A w \in Made : /\ WormOf(w) # WormOf(born + 1)
                              /\ WormOf(w) # SequenceOf(born + 1)
          /\ WormOf(born + 1) # SequenceOf(born + 1)
      BY <1>0, <2>1, UnmadeUnregistered, ObserversDiffer
    <2>4. /\ pending' = pending
          /\ \/ observers' = observers \o << SequenceOf(born + 1), WormOf(born + 1) >>
             \/ observers' = observers \o << WormOf(born + 1), SequenceOf(born + 1) >>
      BY <1>8 DEF StartCreatingWorm, Birth, Reared
    <2> QED
      BY <1>4, <1>7, <2>2, <2>3, <2>4
  <1>9. CASE StopCreatingWorm
    <2>1. pending' = pending
      BY <1>9 DEF StopCreatingWorm
    <2>2. CASE currentWorm = NoWorm
      BY <1>3, <1>4, <1>9, <2>1, <2>2 DEF StopCreatingWorm
    <2>3. CASE currentWorm # NoWorm
      <3> DEFINE s == SequenceOf(currentWorm)
                 rest == Without(observers, {s})
      <3>1. observers' = Append(rest, s)
        BY <1>9, <2>3 DEF StopCreatingWorm, Replaying
      <3>2. s \in Observers'
        BY <1>0, <1>1, <2>3 DEF Typed, Observers
      <3>3. /\ rest \in Seq(Observers') /\ Distinct(rest)
            /\ \A x : Holds(rest, x) <=> Holds(observers, x) /\ x \notin {s}
        BY <1>0, <1>2, WithoutHolds
      <3>4. \A w : WormOf(w) # s
        BY ObserversDiffer
      <3> HIDE DEF rest, s
      <3>5. /\ Append(rest, s) \in Seq(Observers') /\ Distinct(Append(rest, s))
            /\ \A x : Holds(Append(rest, s), x) <=> Holds(rest, x) \/ x = s
        BY <3>2, <3>3, AppendHolds
      <3>6. /\ observers' \in Seq(Observers') /\ Distinct(observers')
            /\ \A w \in Made :
                  Holds(observers', WormOf(w)) => Holds(observers, WormOf(w))
        BY <3>1, <3>3, <3>4, <3>5
      <3> QED
        BY <1>4, <2>1, <3>6
    <2> QED
      BY <2>2, <2>3
  <1>10. CASE ClearStuff
    <2>1. \E gone : observers' = Without(observers, gone)
      BY <1>10 DEF ClearStuff, Unregistered
    <2>2. pending' = pending
      BY <1>10 DEF ClearStuff
    <2> QED
      BY <1>4, <1>6, <2>1, <2>2
  <1>11. CASE PostTick
    <2>1. pending' = observers /\ observers' = observers
      BY <1>11 DEF PostTick
    <2> QED
      BY <1>0, <1>2, <2>1
  <1>12. CASE ControllerTick \/ (\E w \in Worm : SequenceTick(w) \/ CreatingTick(w))
    <2>1. pending # << >> /\ pending' = Tail(pending) /\ observers' = observers
      BY <1>12 DEF ControllerTick, SequenceTick, CreatingTick, Call
    <2> QED
      BY <1>3, <1>5, <2>1
  <1>13. CASE \E w \in Worm, off \in BOOLEAN : FinishedTick(w, off)
    <2>1. /\ pending # << >> /\ pending' = Tail(pending)
          /\ observers' = observers \/ \E gone : observers' = Without(observers, gone)
      BY <1>13 DEF FinishedTick, Call, Unregistered
    <2> QED
      BY <1>3, <1>5, <1>6, <2>1
  <1>14. CASE \/ ScanRound \/ SecondsPass
              \/ (\E p \in Pitches : AddNote(p)) \/ UNCHANGED vars
    <2>1. UNCHANGED <<observers, pending>>
      BY <1>14 DEF ScanRound, SecondsPass, AddNote, vars, fieldVars
    <2> QED
      BY <1>3, <1>4, <2>1
  <1> QED
    BY <1>8, <1>9, <1>10, <1>11, <1>12, <1>13, <1>14 DEF Next

-----------------------------------------------------------------------------
\* The variables of the worm being created.
creationVars == <<creatingWorm, currentWorm, armed, creating, recording>>

\* Only touches and the timer change them.
LEMMA CreationUnchanged ==
    ASSUME [Next]_vars
    PROVE  \/ StartCreatingWorm \/ StopCreatingWorm
           \/ \E p \in Pitches : AddNote(p)
           \/ UNCHANGED creationVars
  BY DEF Next, ClearStuff, PostTick, ControllerTick, ScanRound, Birth,
         SequenceTick, CreatingTick, FinishedTick, SecondsPass, vars, fieldVars,
         touchVars, wormVars, seqVars, creationVars

\* The types of those variables.
CreationTyped ==
    /\ creatingWorm \in BOOLEAN /\ armed \in BOOLEAN
    /\ currentWorm \in Made \cup {NoWorm}
    /\ creating \in [Worm -> BOOLEAN] /\ recording \in [Worm -> BOOLEAN]

\* The flags, the timer and the current worm agree after every step.
LEMMA CreationStep ==
    ASSUME FieldInv, [Next]_vars
    PROVE  CreationTyped' /\ CreationInStep'
  <1>0. /\ CreationTyped /\ CreationInStep
        /\ Made \subseteq Made' /\ Made \subseteq Worm
    BY MadeGrows DEF FieldInv, Typed, CreationTyped
  <1>1. \A w \in Worm : w # NoWorm
    BY DEF Worm, NoWorm
  <1>2. CASE StartCreatingWorm
    <2>1. /\ born + 1 \in Worm /\ born + 1 \in Made'
      BY <1>2, MadeGrows
    <2>2. /\ ~creatingWorm
          /\ creatingWorm' = TRUE /\ armed' = TRUE /\ currentWorm' = born + 1
          /\ creating' = [creating EXCEPT ![born + 1] = TRUE]
          /\ recording' = [recording EXCEPT ![born + 1] = TRUE]
      BY <1>2, Zenon DEF StartCreatingWorm
    <2>3. currentWorm = NoWorm
      BY <1>0, <2>2, Zenon DEF CreationInStep
    <2>4. CreationTyped'
      BY <1>0, <2>1, <2>2, Zenon DEF CreationTyped
    <2>5. ASSUME NEW w \in Worm
          PROVE  creating'[w] = (w = currentWorm') /\ recording'[w] = creating'[w]
      <3>1. CASE w = born + 1
        BY <1>0, <2>1, <2>2, <3>1, Zenon DEF CreationTyped
      <3>2. CASE w # born + 1
        <4>1. creating'[w] = creating[w] /\ recording'[w] = recording[w]
          BY <1>0, <2>1, <2>2, <3>2, Zenon DEF CreationTyped
        <4>2. creating[w] = FALSE /\ recording[w] = FALSE
          <5>1. creating[w] = (w = currentWorm) /\ recording[w] = creating[w]
            BY <1>0, Zenon DEF CreationInStep
          <5>2. (w = currentWorm) = FALSE
            BY <1>1, <2>3, Zenon
          <5> QED
            BY <5>1, <5>2, Zenon
        <4> QED
          BY <2>2, <3>2, <4>1, <4>2, Zenon
      <3> QED
        BY <3>1, <3>2
    <2>6. armed' = creatingWorm' /\ creatingWorm' = (currentWorm' # NoWorm)
      BY <1>1, <2>1, <2>2, Zenon
    <2> QED
      BY <2>4, <2>5, <2>6, Zenon DEF CreationInStep
  <1>3. CASE StopCreatingWorm
    <2>1. armed' = FALSE /\ creatingWorm' = FALSE /\ currentWorm' = NoWorm
      BY <1>3, Zenon DEF StopCreatingWorm
    <2>2. armed' = creatingWorm' /\ creatingWorm' = (currentWorm' # NoWorm)
      BY <2>1, Zenon
    <2>3. currentWorm # NoWorm
      BY <1>0, <1>3, Zenon DEF StopCreatingWorm, CreationInStep
    <2>4. /\ currentWorm \in Worm
          /\ creating' = [creating EXCEPT ![currentWorm] = FALSE]
          /\ recording' = [recording EXCEPT ![currentWorm] = FALSE]
      BY <1>0, <1>3, <2>3, Zenon DEF StopCreatingWorm, CreationTyped
    <2>5. CreationTyped'
      BY <1>0, <2>1, <2>4, Zenon DEF CreationTyped
    <2>6. ASSUME NEW w \in Worm
          PROVE  creating'[w] = (w = currentWorm') /\ recording'[w] = creating'[w]
      <3>1. CASE w = currentWorm
        BY <1>0, <1>1, <2>1, <2>4, <3>1, Zenon DEF CreationTyped
      <3>2. CASE w # currentWorm
        <4>1. creating'[w] = creating[w] /\ recording'[w] = recording[w]
          BY <1>0, <2>4, <3>2, Zenon DEF CreationTyped
        <4>2. creating[w] = FALSE /\ recording[w] = FALSE
          <5>1. creating[w] = (w = currentWorm) /\ recording[w] = creating[w]
            BY <1>0, Zenon DEF CreationInStep
          <5>2. (w = currentWorm) = FALSE
            BY <3>2, Zenon
          <5> QED
            BY <5>1, <5>2, Zenon
        <4> QED
          BY <1>1, <2>1, <4>1, <4>2, Zenon
      <3> QED
        BY <3>1, <3>2
    <2> QED
      BY <2>2, <2>5, <2>6, Zenon DEF CreationInStep
  <1>4. CASE \E p \in Pitches : AddNote(p)
    <2>1. /\ creatingWorm /\ armed' = TRUE
          /\ UNCHANGED <<creatingWorm, currentWorm, creating, recording>>
      BY <1>4 DEF AddNote, wormVars
    <2>2. creatingWorm = TRUE /\ armed' \in BOOLEAN
      BY <1>0, <2>1, Zenon DEF CreationTyped
    <2>3. CreationTyped'
      BY <1>0, <2>1, <2>2, Zenon DEF CreationTyped
    <2>4. armed' = creatingWorm'
      BY <2>1, <2>2, Zenon
    <2>5. CreationInStep'
      BY <1>0, <2>1, <2>4 DEF CreationInStep
    <2> QED
      BY <2>3, <2>5
  <1>5. CASE UNCHANGED creationVars
    <2>1. CreationInStep'
      BY <1>0, <1>5 DEF CreationInStep, creationVars
    <2>2. CreationTyped'
      BY <1>0, <1>5 DEF CreationTyped, creationVars
    <2> QED
      BY <2>1, <2>2
  <1> QED
    BY <1>2, <1>3, <1>4, <1>5, CreationUnchanged

-----------------------------------------------------------------------------
Timelines == Seq(SUBSET Pitches)

\* The operators on timelines answer timelines; only Grow makes one longer,
\* and a decayed one has no note it did not have before.
LEMMA TimelineOperators ==
    ASSUME NEW tl \in Timelines
    PROVE  /\ Grow(tl) \in Timelines /\ Len(Grow(tl)) = Len(tl) + 1
           /\ \A tick : \A p \in Pitches :
                  /\ WithEvent(tl, tick, p) \in Timelines
                  /\ Len(WithEvent(tl, tick, p)) = Len(tl)
           /\ \A lost : /\ Decayed(tl, lost) \in Timelines
                        /\ Len(Decayed(tl, lost)) = Len(tl)
                        /\ AllEvents(Decayed(tl, lost)) \subseteq AllEvents(tl)
  <1>0. /\ Len(tl) \in Nat /\ DOMAIN tl = 1 .. Len(tl)
        /\ tl \in [1 .. Len(tl) -> SUBSET Pitches]
    BY DEF Timelines
  <1>1. Grow(tl) \in Timelines /\ Len(Grow(tl)) = Len(tl) + 1
    BY DEF Timelines, Grow
  <1>2. ASSUME NEW tick, NEW p \in Pitches
        PROVE  /\ WithEvent(tl, tick, p) \in Timelines
               /\ Len(WithEvent(tl, tick, p)) = Len(tl)
    <2>1. WithEvent(tl, tick, p) \in [1 .. Len(tl) -> SUBSET Pitches]
      BY <1>0 DEF WithEvent
    <2> QED
      BY <1>0, <2>1 DEF Timelines
  <1>3. ASSUME NEW lost
        PROVE  /\ Decayed(tl, lost) \in Timelines
               /\ Len(Decayed(tl, lost)) = Len(tl)
               /\ AllEvents(Decayed(tl, lost)) \subseteq AllEvents(tl)
    <2>1. /\ Decayed(tl, lost) \in [1 .. Len(tl) -> SUBSET Pitches]
          /\ DOMAIN Decayed(tl, lost) = DOMAIN tl
          /\ \A k \in DOMAIN tl : Decayed(tl, lost)[k] \subseteq tl[k]
      BY <1>0 DEF Decayed
    <2>2. AllEvents(Decayed(tl, lost)) \subseteq AllEvents(tl)
      BY <2>1 DEF AllEvents
    <2> QED
      BY <1>0, <2>1, <2>2 DEF Timelines
  <1> QED
    BY <1>1, <1>2, <1>3

\* What a baby inherits.
LEMMA InheritedTimelines ==
    ASSUME NEW mother, NEW n \in Nat, NEW tl \in Inherited(mother, n)
    PROVE  tl \in Timelines /\ Len(tl) = n + 1
  <1>1. tl \in [1 .. n + 1 -> SUBSET Pitches]
    BY DEF Inherited
  <1> QED
    BY <1>1 DEF Timelines

\* The two worms of a meeting are worms of the list.
LEMMA ParentsMade ==
    ASSUME FieldInv, Birth
    PROVE  /\ worms[i] \in Made /\ worms[j] \in Made
           /\ Holds(worms, worms[i]) /\ Holds(worms, worms[j])
           /\ Scanning
  <1>1. /\ worms \in Seq(1 .. born) /\ i \in Nat /\ j \in Nat
        /\ CursorsInArray
    BY DEF FieldInv, ScanTypeOK
  <1>2. Scanning /\ i <= Len(worms) /\ j <= Len(worms)
    BY DEF Birth, MeetAndBear, Meet, InnerRound
  <1>3. i \in 1 .. Len(worms) /\ j \in 1 .. Len(worms)
    BY <1>1, <1>2 DEF CursorsInArray
  <1>4. worms[i] \in 1 .. born /\ worms[j] \in 1 .. born
    BY <1>3, ListedAreWorms DEF FieldInv
  <1>5. Holds(worms, worms[i]) /\ Holds(worms, worms[j])
    BY <1>3 DEF Holds
  <1> QED
    BY <1>2, <1>4, <1>5 DEF Made

\* Where the length, the position and the recording flag of a sequence agree.
Agrees(tl, p, r) == IF r THEN p = Len(tl) - 1 ELSE p \in 0 .. Len(tl) - 1

SequencesTyped == timeline \in [Worm -> Timelines] /\ pos \in [Worm -> Nat]

\* A sequence in step stays so while it records, plays, is added to, decays
\* or stops recording, and a new worm's sequence starts in step.
LEMMA SequencesStep ==
    ASSUME FieldInv, [Next]_vars
    PROVE  /\ SequencesTyped'
           /\ SequencesInStep'
           /\ \A w \in Worm : w \notin Made' =>
                  timeline'[w] = EmptyTimeline /\ pos'[w] = 0
  <1>0. /\ SequencesTyped
        /\ \A w \in Made : Agrees(timeline[w], pos[w], recording[w])
        /\ \A w \in Worm : w \notin Made => timeline[w] = EmptyTimeline /\ pos[w] = 0
        /\ Made \subseteq Worm /\ Made \subseteq Made'
    BY MadeGrows DEF FieldInv, Typed, SequencesTyped, SequencesInStep, Agrees,
                     Timelines, Unmade
  <1>1. \A w \in Worm : /\ timeline[w] \in Timelines /\ Len(timeline[w]) \in Nat
                        /\ pos[w] \in Nat
    BY <1>0 DEF SequencesTyped, Timelines
  <1>a. \A w \in Made : pos[w] \in 0 .. Len(timeline[w]) - 1
    BY <1>0, <1>1 DEF Agrees
  <1>b. SUFFICES /\ SequencesTyped'
                 /\ \A w \in Made' : Agrees(timeline'[w], pos'[w], recording'[w])
                 /\ \A w \in Worm : w \notin Made' =>
                        timeline'[w] = EmptyTimeline /\ pos'[w] = 0
    BY DEF SequencesInStep, Agrees
  <1>2. CASE StartCreatingWorm
    <2>1. /\ UNCHANGED <<timeline, pos>>
          /\ recording' = [recording EXCEPT ![born + 1] = TRUE]
          /\ Made' = Made \cup {born + 1} /\ born + 1 \in Worm
          /\ born + 1 \notin Made
      BY <1>2, MadeGrows DEF StartCreatingWorm
    <2>2. /\ recording'[born + 1]
          /\ \A w \in Made : recording'[w] = recording[w]
      BY <1>0, <2>1, Zenon DEF FieldInv, Typed
    <2>3. timeline[born + 1] = EmptyTimeline /\ pos[born + 1] = 0
      BY <1>0, <2>1
    <2>4. Agrees(timeline'[born + 1], pos'[born + 1], recording'[born + 1])
      BY <2>1, <2>2, <2>3 DEF Agrees, EmptyTimeline
    <2>5. \A w \in Made : Agrees(timeline'[w], pos'[w], recording'[w])
      BY <1>0, <2>1, <2>2
    <2> QED
      BY <1>0, <2>1, <2>4, <2>5 DEF SequencesTyped
  <1>3. CASE StopCreatingWorm
    <2>1. UNCHANGED <<timeline, pos>> /\ Made' = Made
      BY <1>3, MadeGrows DEF StopCreatingWorm, Made, scanVars
    <2>2. \A w \in Worm : recording'[w] = recording[w] \/ recording'[w] = FALSE
      BY <1>3, Zenon DEF StopCreatingWorm, FieldInv, Typed
    <2>3. \A w \in Made : Agrees(timeline'[w], pos'[w], recording'[w])
      BY <1>0, <1>a, <2>1, <2>2 DEF Agrees
    <2> QED
      BY <1>0, <2>1, <2>3 DEF SequencesTyped
  <1>4. CASE \E p \in Pitches : AddNote(p)
    <2>1. PICK p \in Pitches : AddNote(p)
      BY <1>4
    <2>2. /\ pos' = pos /\ recording' = recording /\ Made' = Made
          /\ \/ timeline' = timeline
             \/ /\ currentWorm # NoWorm
                /\ timeline' = [timeline EXCEPT ![currentWorm] =
                                  WithEvent(@, pos[currentWorm], p)]
      BY <2>1 DEF AddNote, Made, scanVars
    <2>3. CASE timeline' = timeline
      BY <1>0, <2>2, <2>3 DEF SequencesTyped
    <2>4. CASE /\ currentWorm # NoWorm
               /\ timeline' = [timeline EXCEPT ![currentWorm] =
                                  WithEvent(@, pos[currentWorm], p)]
      <3> DEFINE tl == WithEvent(timeline[currentWorm], pos[currentWorm], p)
      <3>1. currentWorm \in Made /\ currentWorm \in Worm
        BY <1>0, <2>4 DEF FieldInv, Typed
      <3>2. tl \in Timelines /\ Len(tl) = Len(timeline[currentWorm])
        BY <1>1, <3>1, TimelineOperators
      <3> HIDE DEF tl
      <3>3. timeline' = [timeline EXCEPT ![currentWorm] = tl]
        BY <2>4 DEF tl
      <3>4. /\ timeline'[currentWorm] = tl
            /\ \A w \in Worm : w # currentWorm => timeline'[w] = timeline[w]
        BY <1>0, <3>1, <3>3 DEF SequencesTyped
      <3>5. SequencesTyped'
        BY <1>0, <2>2, <3>2, <3>3 DEF SequencesTyped
      <3>6. \A w \in Made : Agrees(timeline'[w], pos'[w], recording'[w])
        BY <1>0, <2>2, <3>2, <3>4 DEF Agrees
      <3> QED
        BY <1>0, <2>2, <3>1, <3>4, <3>5, <3>6
    <2> QED
      BY <2>2, <2>3, <2>4
  <1>5. CASE Birth
    <2> DEFINE baby == born + 1
    <2>1. /\ worms[i] \in Made /\ worms[j] \in Made
          /\ Made' = Made \cup {baby} /\ baby \in Worm /\ baby \notin Made
      BY <1>5, ParentsMade, MadeGrows
    <2>2. PICK n \in NewLengths(worms[i], worms[j]) :
               /\ \E tl \in Inherited(worms[i], n) :
                      timeline' = [timeline EXCEPT ![baby] = tl]
               /\ pos' = [pos EXCEPT ![baby] = n]
      BY <1>5 DEF Birth
    <2>3. n \in Nat
      <3>1. Len(timeline[worms[i]]) \in Nat /\ Len(timeline[worms[j]]) \in Nat
        BY <1>0, <1>1, <2>1
      <3> DEFINE m == Len(timeline[worms[i]])
                 f == Len(timeline[worms[j]])
                 least == IF m < f THEN m ELSE f
                 diff == IF m < f THEN f - m ELSE m - f
                 bound == IF diff > 0 THEN diff - 1 ELSE 0
      <3>2. PICK r \in 0 .. bound : n = least + r
        BY <2>2 DEF NewLengths
      <3>3. least \in Nat /\ r \in Nat
        BY <3>1
      <3> QED
        BY <3>2, <3>3
    <2>4. PICK tl \in Inherited(worms[i], n) :
               timeline' = [timeline EXCEPT ![baby] = tl]
      BY <2>2
    <2>5. tl \in Timelines /\ Len(tl) = n + 1
      BY <2>3, InheritedTimelines
    <2>6. recording' = recording /\ ~recording[baby]
      <3>1. recording[baby] = creating[baby] /\ creating[baby] = (baby = currentWorm)
        BY <2>1, Zenon DEF FieldInv, CreationInStep
      <3>2. baby # currentWorm
        <4>1. baby # NoWorm
          BY <2>1 DEF Worm, NoWorm
        <4> QED
          BY <2>1, <4>1 DEF FieldInv, Typed
      <3>3. ~recording[baby]
        BY <3>1, <3>2, Zenon
      <3> QED
        BY <1>5, <3>3 DEF Birth
    <2> HIDE DEF baby
    <2>7. /\ timeline'[baby] = tl /\ pos'[baby] = n
          /\ \A w \in Worm : w # baby => timeline'[w] = timeline[w] /\ pos'[w] = pos[w]
          /\ SequencesTyped'
      BY <1>0, <2>1, <2>2, <2>3, <2>4, <2>5 DEF SequencesTyped
    <2>8. Agrees(timeline'[baby], pos'[baby], recording'[baby])
      BY <2>3, <2>5, <2>6, <2>7 DEF Agrees
    <2>9. \A w \in Made : Agrees(timeline'[w], pos'[w], recording'[w])
      BY <1>0, <2>1, <2>6, <2>7
    <2> QED
      BY <1>0, <2>1, <2>7, <2>8, <2>9
  <1>6. CASE \E w \in Worm : SequenceTick(w)
    <2>1. PICK v \in Worm : SequenceTick(v)
      BY <1>6
    <2>2. v \in Made
      <3>1. Holds(pending, SequenceOf(v)) /\ pending \in Seq(Observers)
        BY <2>1, TailHolds DEF SequenceTick, Call, FieldInv, Typed
      <3>2. SequenceOf(v) \in Observers
        BY <3>1 DEF Holds
      <3> QED
        BY <3>2, ObserversDiffer DEF Observers
    <2>3. recording' = recording /\ Made' = Made
      BY <2>1 DEF SequenceTick, Made, scanVars
    <2>4. CASE recording[v]
      <3> DEFINE tl == Grow(timeline[v])
      <3>1. /\ timeline' = [timeline EXCEPT ![v] = tl]
            /\ pos' = [pos EXCEPT ![v] = pos[v] + 1]
        BY <2>1, <2>4 DEF SequenceTick
      <3>2. tl \in Timelines /\ Len(tl) = Len(timeline[v]) + 1
        BY <1>1, TimelineOperators
      <3> HIDE DEF tl
      <3>3. /\ timeline'[v] = tl /\ pos'[v] = pos[v] + 1
            /\ \A w \in Worm : w # v => timeline'[w] = timeline[w] /\ pos'[w] = pos[w]
            /\ SequencesTyped'
        BY <1>0, <1>1, <3>1, <3>2 DEF SequencesTyped
      <3>4. Agrees(timeline'[v], pos'[v], recording'[v])
        BY <1>0, <1>1, <2>2, <2>3, <2>4, <3>2, <3>3 DEF Agrees
      <3> QED
        BY <1>0, <2>2, <2>3, <3>3, <3>4
    <2>5. CASE ~recording[v]
      <3>1. timeline' = timeline /\ pos' = [pos EXCEPT ![v] = NextPos(v)]
        BY <2>1, <2>5 DEF SequenceTick
      <3>2. NextPos(v) \in 0 .. Len(timeline[v]) - 1
        BY <1>1, <1>a, <2>2 DEF NextPos
      <3>3. /\ pos'[v] = NextPos(v)
            /\ \A w \in Worm : w # v => pos'[w] = pos[w]
            /\ SequencesTyped'
        BY <1>0, <1>1, <3>1, <3>2 DEF SequencesTyped
      <3>4. Agrees(timeline'[v], pos'[v], recording'[v])
        BY <2>3, <2>5, <3>1, <3>2, <3>3 DEF Agrees
      <3> QED
        BY <1>0, <2>2, <2>3, <3>1, <3>3, <3>4
    <2> QED
      BY <2>4, <2>5
  <1>7. CASE \E w \in Worm, off \in BOOLEAN : FinishedTick(w, off)
    <2>1. PICK v \in Worm, off \in BOOLEAN : FinishedTick(v, off)
      BY <1>7
    <2>2. v \in Made
      <3>1. Holds(pending, WormOf(v)) /\ pending \in Seq(Observers)
        BY <2>1, TailHolds DEF FinishedTick, Call, FieldInv, Typed
      <3>2. WormOf(v) \in Observers
        BY <3>1 DEF Holds
      <3> QED
        BY <3>2, ObserversDiffer DEF Observers
    <2>3. recording' = recording /\ Made' = Made /\ pos' = pos
      BY <2>1 DEF FinishedTick, Made, scanVars
    <2>4. PICK tl \in AfterDecay(v) : timeline' = [timeline EXCEPT ![v] = tl]
      BY <2>1 DEF FinishedTick
    <2>5. tl \in Timelines /\ Len(tl) = Len(timeline[v])
      <3>1. tl = timeline[v] \/ \E lost : tl = Decayed(timeline[v], lost)
        BY DEF AfterDecay
      <3> QED
        BY <1>1, <3>1, TimelineOperators
    <2>6. /\ timeline'[v] = tl
          /\ \A w \in Worm : w # v => timeline'[w] = timeline[w]
          /\ SequencesTyped'
      BY <1>0, <2>3, <2>4, <2>5 DEF SequencesTyped
    <2>7. Agrees(timeline'[v], pos'[v], recording'[v])
      BY <1>0, <2>2, <2>3, <2>5, <2>6 DEF Agrees
    <2> QED
      BY <1>0, <2>2, <2>3, <2>6, <2>7
  <1>8. CASE UNCHANGED <<timeline, pos, recording, born>>
    BY <1>0, <1>8 DEF SequencesTyped, Made
  <1>9. CASE \/ ClearStuff \/ PostTick \/ ControllerTick \/ ScanRound \/ SecondsPass
             \/ (\E w \in Worm : CreatingTick(w)) \/ UNCHANGED vars
    <2>1. ~StartCreatingWorm /\ ~Birth => born' = born
      BY MadeGrows
    <2>2. UNCHANGED <<timeline, pos, recording>>
      BY <1>9 DEF ClearStuff, PostTick, ControllerTick, ScanRound, SecondsPass,
                  CreatingTick, vars, fieldVars, seqVars
    <2> QED
      BY <1>2, <1>5, <1>8, <2>1, <2>2
  <1> QED
    BY <1>2, <1>3, <1>4, <1>5, <1>6, <1>7, <1>9 DEF Next

-----------------------------------------------------------------------------
\* The worm that is called is made and has not been cleared.
LEMMA CalledNotCleared ==
    ASSUME FieldInv, NEW v \in Worm, NEW off, FinishedTick(v, off)
    PROVE  /\ v \in Made /\ dismantled[v] = 0
           /\ ~Scanning /\ ~creating[v]
           /\ ~Holds(pending', WormOf(v))
  <1>1. /\ pending # << >> /\ Head(pending) = WormOf(v) /\ pending' = Tail(pending)
        /\ ~Scanning /\ ~creating[v]
    BY DEF FinishedTick, Call
  <1>2. /\ pending \in Seq(Observers) /\ Distinct(pending)
        /\ dismantled[v] \in Nat
    BY DEF FieldInv, Typed, OnceEach
  <1>3. Holds(pending, WormOf(v)) /\ ~Holds(pending', WormOf(v))
    BY <1>1, <1>2, TailHolds
  <1>4. v \in Made
    <2>1. WormOf(v) \in Observers
      BY <1>2, <1>3 DEF Holds
    <2> QED
      BY <2>1, ObserversDiffer DEF Observers
  <1>5. ~Cleared(v)
    BY <1>3, <1>4 DEF FieldInv, ClearedUnregistered
  <1> QED
    BY <1>1, <1>2, <1>3, <1>4, <1>5 DEF Cleared

\* Listed, as the provers need it.
LEMMA ListedHolds ==
    ASSUME ScanTypeOK
    PROVE  /\ \A w : w \in Listed <=> Holds(worms, w)
           /\ \A w : Holds(worms, w) => w \in Made
           /\ DOMAIN worms = 1 .. Len(worms)
  <1>1. worms \in Seq(1 .. born)
    BY DEF ScanTypeOK
  <1>2. DOMAIN worms = 1 .. Len(worms)
    BY <1>1
  <1>3. \A w : Holds(worms, w) => w \in Made
    BY ListedAreWorms DEF Holds, Made
  <1> QED
    BY <1>2, <1>3 DEF Listed, Holds

\* How often worms are dismantled changes in two ways only.
LEMMA DismantledStep ==
    ASSUME FieldInv, [Next]_vars
    PROVE  /\ dismantled' \in [Worm -> Nat]
           /\ \A w \in Worm :
                \/ dismantled'[w] = dismantled[w]
                \/ /\ ClearStuff /\ Holds(worms, w)
                   /\ dismantled'[w] = dismantled[w] + 1
                \/ /\ \E off \in BOOLEAN : FinishedTick(w, off) /\ Gone(w, off)
                   /\ dismantled[w] = 0 /\ dismantled'[w] = 1
  <1>0. dismantled \in [Worm -> Nat] /\ ScanTypeOK
    BY DEF FieldInv, Typed
  <1>1. CASE ClearStuff
    <2>1. dismantled' = [w \in Worm |-> IF w \in Listed THEN dismantled[w] + 1
                                                       ELSE dismantled[w]]
      BY <1>1 DEF ClearStuff, Listed
    <2> QED
      BY <1>0, <1>1, <2>1, ListedHolds
  <1>2. CASE \E w \in Worm, off \in BOOLEAN : FinishedTick(w, off)
    <2>1. PICK v \in Worm, off \in BOOLEAN : FinishedTick(v, off)
      BY <1>2
    <2>2. dismantled[v] = 0
      BY <2>1, CalledNotCleared
    <2>3. CASE Gone(v, off)
      <3>1. dismantled' = [dismantled EXCEPT ![v] = dismantled[v] + 1]
        BY <2>1, <2>3 DEF FinishedTick
      <3> QED
        BY <1>0, <2>1, <2>2, <2>3, <3>1
    <2>4. CASE ~Gone(v, off)
      <3>1. dismantled' = dismantled
        BY <2>1, <2>4 DEF FinishedTick
      <3> QED
        BY <1>0, <3>1
    <2> QED
      BY <2>3, <2>4
  <1>3. CASE dismantled' = dismantled
    BY <1>0, <1>3
  <1>4. \/ ClearStuff \/ (\E w \in Worm, off \in BOOLEAN : FinishedTick(w, off))
        \/ dismantled' = dismantled
    BY DEF Next, StartCreatingWorm, AddNote, StopCreatingWorm, PostTick,
           ControllerTick, ScanRound, Birth, SequenceTick, CreatingTick,
           SecondsPass, vars, fieldVars, wormVars
  <1> QED
    BY <1>1, <1>2, <1>3, <1>4

\* Nobody is dismantled before it is made.
LEMMA UnmadeStep ==
    ASSUME FieldInv, [Next]_vars
    PROVE  Unmade'
  <1>1. ASSUME NEW w \in Worm, w \notin Made' PROVE dismantled'[w] = 0
    <2>1. w \notin Made
      BY <1>1, MadeGrows
    <2>2. dismantled[w] = 0 /\ ~Holds(worms, w)
      BY <2>1, ListedHolds DEF FieldInv, Unmade
    <2>3. \A off : ~FinishedTick(w, off)
      BY <2>1, CalledNotCleared
    <2> QED
      BY <2>2, <2>3, DismantledStep
  <1> QED
    BY <1>1, SequencesStep DEF Unmade

\* A worm is in no list of observers once it is cleared, whoever cleared it.
LEMMA ClearedUnregisteredStep ==
    ASSUME FieldInv, [Next]_vars
    PROVE  ClearedUnregistered'
  <1> SUFFICES ASSUME NEW w \in Made', dismantled'[w] > 0
               PROVE  /\ ~Holds(observers', WormOf(w))
                      /\ ~Holds(pending', WormOf(w))
    BY DEF ClearedUnregistered, Cleared, Holds, WormOf
  <1>0. /\ observers \in Seq(Observers) /\ Made' \subseteq Worm /\ w \in Worm
        /\ dismantled \in [Worm -> Nat]
    BY MadeGrows DEF FieldInv, Typed
  <1>1. CASE dismantled'[w] = dismantled[w]
    <2>1. w \in Made
      BY <1>0, <1>1 DEF FieldInv, Unmade
    <2>2. ~Holds(observers, WormOf(w)) /\ ~Holds(pending, WormOf(w))
      BY <1>1, <2>1 DEF FieldInv, ClearedUnregistered, Cleared
    <2> QED
      BY <2>1, <2>2, ObserversStep
  <1>2. CASE ClearStuff /\ Holds(worms, w)
    <2>1. observers' = Without(observers, { WormOf(v) : v \in Listed })
      BY <1>2 DEF ClearStuff, Unregistered, Listed
    <2>2. w \in Listed
      BY <1>2, ListedHolds DEF FieldInv
    <2>3. ~Holds(observers', WormOf(w))
      BY <1>0, <2>1, <2>2, WithoutHolds
    <2>4. pending' = << >>
      BY <1>2 DEF ClearStuff, Idle
    <2> QED
      BY <2>3, <2>4 DEF Holds
  <1>3. CASE \E off \in BOOLEAN : FinishedTick(w, off) /\ Gone(w, off)
    <2>1. observers' = Without(observers, { WormOf(v) : v \in {w} })
      BY <1>3 DEF FinishedTick, Unregistered
    <2>2. ~Holds(observers', WormOf(w))
      BY <1>0, <2>1, WithoutHolds
    <2>3. ~Holds(pending', WormOf(w))
      BY <1>0, <1>3, CalledNotCleared
    <2> QED
      BY <2>2, <2>3
  <1> QED
    BY <1>0, <1>1, <1>2, <1>3, DismantledStep

-----------------------------------------------------------------------------
\* A finished worm is never created again.
LEMMA FinishedStays ==
    ASSUME FieldInv, [Next]_vars, NEW w \in Made, ~creating[w]
    PROVE  ~creating'[w]
  <1>0. w \in Worm /\ creating \in [Worm -> BOOLEAN]
    BY MadeGrows DEF FieldInv, Typed
  <1>1. CASE StartCreatingWorm
    <2>1. /\ creating' = [creating EXCEPT ![born + 1] = TRUE]
          /\ w # born + 1
      BY <1>1, MadeGrows DEF StartCreatingWorm
    <2> QED
      BY <1>0, <2>1, Zenon
  <1>2. CASE StopCreatingWorm
    <2>1. \/ creating' = creating
          \/ creating' = [creating EXCEPT ![currentWorm] = FALSE]
      BY <1>2 DEF StopCreatingWorm
    <2> QED
      BY <1>0, <2>1, Zenon
  <1>3. CASE creating' = creating
    BY <1>3
  <1> QED
    BY <1>1, <1>2, <1>3, CreationUnchanged DEF AddNote, wormVars, creationVars

\* A finished worm without notes stays so: notes are only added to the worm
\* being created, and decay adds none.
LEMMA DeadStays ==
    ASSUME FieldInv, [Next]_vars, NEW w \in Made, Dead(w), ~creating[w]
    PROVE  AllEvents(timeline'[w]) = {} /\ ~creating'[w]
  <1>0. /\ w \in Worm /\ timeline \in [Worm -> Timelines]
        /\ AllEvents(timeline[w]) = {}
    BY MadeGrows DEF FieldInv, Typed, Timelines, Dead
  <1>1. w # currentWorm /\ ~recording[w]
    <2>1. creating[w] = (w = currentWorm) /\ recording[w] = creating[w]
      BY <1>0, Zenon DEF FieldInv, CreationInStep
    <2> QED
      BY <2>1, Zenon
  <1>2. ASSUME timeline'[w] = timeline[w] PROVE AllEvents(timeline'[w]) = {}
    BY <1>0, <1>2
  <1>3. CASE \E p \in Pitches : AddNote(p)
    <2>1. \/ timeline' = timeline
          \/ \E tl : timeline' = [timeline EXCEPT ![currentWorm] = tl]
      BY <1>3 DEF AddNote
    <2>2. timeline'[w] = timeline[w]
      BY <1>0, <1>1, <2>1
    <2> QED
      BY <1>2, <2>2, FinishedStays
  <1>4. CASE Birth
    <2>1. \E tl : timeline' = [timeline EXCEPT ![born + 1] = tl]
      BY <1>4 DEF Birth
    <2>2. w # born + 1
      BY <1>4, MadeGrows
    <2>3. timeline'[w] = timeline[w]
      BY <1>0, <2>1, <2>2
    <2> QED
      BY <1>2, <2>3, FinishedStays
  <1>5. CASE \E v \in Worm : SequenceTick(v)
    <2>1. PICK v \in Worm : SequenceTick(v)
      BY <1>5
    <2>2. \/ timeline' = timeline
          \/ recording[v] /\ timeline' = [timeline EXCEPT ![v] = Grow(timeline[v])]
      BY <2>1 DEF SequenceTick
    <2>3. timeline'[w] = timeline[w]
      BY <1>0, <1>1, <2>2
    <2> QED
      BY <1>2, <2>3, FinishedStays
  <1>6. CASE \E v \in Worm, off \in BOOLEAN : FinishedTick(v, off)
    <2>1. PICK v \in Worm, off \in BOOLEAN : FinishedTick(v, off)
      BY <1>6
    <2>2. PICK tl \in AfterDecay(v) : timeline' = [timeline EXCEPT ![v] = tl]
      BY <2>1 DEF FinishedTick
    <2>3. tl = timeline[v] \/ \E lost : tl = Decayed(timeline[v], lost)
      BY DEF AfterDecay
    <2>4. timeline[v] \in Timelines
      BY <1>0, <2>1
    <2>5. AllEvents(tl) \subseteq AllEvents(timeline[v])
      BY <2>3, <2>4, TimelineOperators
    <2>6. AllEvents(timeline'[w]) = {}
      <3>1. CASE w = v
        BY <1>0, <2>2, <2>5, <3>1
      <3>2. CASE w # v
        BY <1>0, <1>2, <2>2, <3>2
      <3> QED
        BY <3>1, <3>2
    <2> QED
      BY <2>6, FinishedStays
  <1>7. CASE timeline' = timeline
    BY <1>2, <1>7, FinishedStays
  <1>8. \/ \E p \in Pitches : AddNote(p)
        \/ Birth
        \/ \E v \in Worm : SequenceTick(v)
        \/ \E v \in Worm, off \in BOOLEAN : FinishedTick(v, off)
        \/ timeline' = timeline
    BY DEF Next, StartCreatingWorm, StopCreatingWorm, ClearStuff, PostTick,
           ControllerTick, ScanRound, CreatingTick, SecondsPass, vars, fieldVars,
           seqVars
  <1> QED
    BY <1>3, <1>4, <1>5, <1>6, <1>7, <1>8

\* A worm joins the list when it is made and never again; it leaves the list
\* when everything is cleared, or in a tick of the controller when it is dead
\* and finished.
LEMMA ListStep ==
    ASSUME FieldInv, [Next]_vars
    PROVE  /\ \A w \in Made : Holds(worms', w) => Holds(worms, w)
           /\ \A w \in Made : Holds(worms, w) =>
                  \/ Holds(worms', w)
                  \/ ClearStuff
                  \/ Dead(w) /\ ~creating[w]
           /\ \A w \in Made' : w \notin Made => Holds(worms', w)
           /\ \A w \in Made : ControllerTick /\ Holds(worms', w) => Kept(w)
           /\ ClearStuff => \A w : ~Holds(worms', w)
  <1>0. worms \in Seq(1 .. born) /\ born \in Nat /\ Made \subseteq Worm
    BY MadeGrows DEF FieldInv, ScanTypeOK
  <1>1. CASE StartCreatingWorm \/ Birth
    <2>1. worms' = Append(worms, born + 1)
      BY <1>1 DEF StartCreatingWorm, Birth, MeetAndBear
    <2>2. worms \in Seq(1 .. born + 1) /\ born + 1 \in 1 .. born + 1
      BY <1>0
    <2>3. \A x : Holds(worms', x) <=> Holds(worms, x) \/ x = born + 1
      BY <2>1, <2>2, AppendHolds
    <2>4. Made' = Made \cup {born + 1} /\ born + 1 \notin Made
      BY <1>1, MadeGrows
    <2>5. ~ClearStuff /\ ~ControllerTick
      <3>1. worms' # << >>
        BY <2>1, <2>2
      <3>2. born' # born
        BY <1>0, <1>1, MadeGrows
      <3> QED
        BY <3>1, <3>2 DEF ClearStuff, ControllerTick, StartScan
    <2> QED
      BY <2>3, <2>4, <2>5
  <1>2. CASE ClearStuff
    <2>1. worms' = << >> /\ born' = born
      BY <1>2 DEF ClearStuff
    <2>2. \A w : ~Holds(worms', w)
      BY <2>1 DEF Holds
    <2> QED
      BY <1>2, <2>1, <2>2 DEF Made
  <1>3. CASE ControllerTick
    <2>1. /\ worms' = Without(worms, { w \in Worm : ~Kept(w) })
          /\ born' = born
      BY <1>3 DEF ControllerTick, StartScan
    <2>2. \A x : Holds(worms', x)
                  <=> Holds(worms, x) /\ x \notin { w \in Worm : ~Kept(w) }
      BY <1>0, <2>1, WithoutHolds
    <2>3. \A w \in Made : Holds(worms', w) <=> Holds(worms, w) /\ Kept(w)
      BY <1>0, <2>2
    <2>4. Made' = Made
      BY <2>1 DEF Made
    <2>5. ClearStuff => \A w : ~Holds(worms', w)
      BY DEF ClearStuff, Holds
    <2> QED
      BY <2>3, <2>4, <2>5 DEF Kept
  <1>4. CASE ScanRound \/ SecondsPass \/ Elsewhere
    <2>1. worms' = worms
      BY <1>4, ElsewhereUnchanged
      DEF ScanRound, Apart, MeetOnly, NextWorm, SecondsPass, TimePasses, scanVars
    <2>2. born' = born
      BY <1>4, ElsewhereUnchanged
      DEF ScanRound, Apart, MeetOnly, NextWorm, SecondsPass, TimePasses, scanVars
    <2>3. Made' = Made
      BY <2>2 DEF Made
    <2> QED
      BY <1>2, <1>3, <2>1, <2>3
  <1> QED
    BY <1>1, <1>2, <1>3, <1>4, StepCases

\* A worm that cleared itself is dropped from the list before the next scan.
LEMMA ClearedInListStep ==
    ASSUME FieldInv, [Next]_vars
    PROVE  ClearedInList'
  <1> SUFFICES ASSUME NEW w \in Made', Holds(worms', w), dismantled'[w] > 0
               PROVE  /\ dismantled'[w] = 1 /\ AllEvents(timeline'[w]) = {}
                      /\ ~creating'[w] /\ ~Scanning'
    BY DEF ClearedInList, Cleared, Dead, Holds
  <1>0. /\ w \in Worm /\ dismantled \in [Worm -> Nat] /\ Made \subseteq Worm
    BY MadeGrows DEF FieldInv, Typed
  <1>1. ~ClearStuff
    BY ListStep
  <1>2. CASE dismantled'[w] = dismantled[w]
    <2>1. w \in Made
      BY <1>0, <1>2 DEF FieldInv, Unmade
    <2>2. Holds(worms, w)
      BY <2>1, ListStep
    <2>3. dismantled[w] = 1 /\ Dead(w) /\ ~creating[w] /\ ~Scanning
      BY <1>2, <2>1, <2>2 DEF FieldInv, ClearedInList, Cleared
    <2>4. ~ControllerTick
      BY <2>1, <2>3, ListStep DEF Kept
    <2>5. i' = i
      <3>1. ~ScanRound /\ ~Birth
        BY <2>3 DEF ScanRound, Birth, Apart, MeetOnly, MeetAndBear, Meet, InnerRound,
                    NextWorm
      <3> QED
        BY <1>1, <2>4, <3>1, StepCases, ElsewhereUnchanged
        DEF StartCreatingWorm, SecondsPass, TimePasses, cursorVars, scanVars
    <2> QED
      BY <1>2, <2>1, <2>3, <2>5, DeadStays DEF Scanning
  <1>3. CASE \E off \in BOOLEAN : FinishedTick(w, off) /\ Gone(w, off)
    <2>1. PICK off \in BOOLEAN : FinishedTick(w, off) /\ Gone(w, off)
      BY <1>3
    <2>2. /\ w \in Made /\ dismantled[w] = 0 /\ ~Scanning /\ ~creating[w]
      BY <1>0, <2>1, CalledNotCleared
    <2>3. /\ AllEvents(timeline'[w]) = {}
          /\ dismantled' = [dismantled EXCEPT ![w] = dismantled[w] + 1]
          /\ creating' = creating /\ i' = i
      BY <2>1 DEF FinishedTick, Gone, scanVars
    <2> QED
      BY <1>0, <2>2, <2>3 DEF Scanning
  <1> QED
    BY <1>0, <1>1, <1>2, <1>3, DismantledStep

\* A worm that leaves the list uncleared is finished and has no notes.
LEMMA EscapeStep ==
    ASSUME FieldInv, [Next]_vars
    PROVE  OnlyTheDeadEscapeClear'
  <1>0. ScanTypeOK'
    BY ScanPart
  <1>1. \A w : w \in Listed' <=> Holds(worms', w)
    <2>1. DOMAIN worms' = 1 .. Len(worms')
      BY <1>0 DEF ScanTypeOK
    <2> QED
      BY <2>1 DEF Listed, Holds
  <1> SUFFICES ASSUME NEW w \in Made'
               PROVE  \/ Holds(worms', w)
                      \/ dismantled'[w] > 0
                      \/ AllEvents(timeline'[w]) = {} /\ ~creating'[w]
    BY <1>1 DEF OnlyTheDeadEscapeClear, Cleared, Dead
  <1>2. CASE w \notin Made
    BY <1>2, ListStep
  <1>3. CASE w \in Made
    <2>0. /\ w \in Worm /\ dismantled[w] \in Nat
          /\ dismantled[w] > 0 => dismantled'[w] > 0
      <3>1. w \in Worm /\ dismantled[w] \in Nat
        BY <1>3, MadeGrows DEF FieldInv, Typed
      <3> QED
        BY <3>1, DismantledStep
    <2>1. Holds(worms, w) \/ dismantled[w] > 0 \/ (Dead(w) /\ ~creating[w])
      BY <1>3, ListedHolds DEF FieldInv, OnlyTheDeadEscapeClear, Cleared
    <2>2. CASE ClearStuff /\ Holds(worms, w)
      <3>1. dismantled' = [v \in Worm |-> IF v \in Listed THEN dismantled[v] + 1
                                                         ELSE dismantled[v]]
        BY <2>2 DEF ClearStuff, Listed
      <3>2. w \in Listed
        BY <2>2, ListedHolds DEF FieldInv
      <3> QED
        BY <2>0, <3>1, <3>2
    <2>3. CASE Dead(w) /\ ~creating[w]
      BY <1>3, <2>3, DeadStays
    <2> QED
      BY <1>3, <2>0, <2>1, <2>2, <2>3, ListStep
  <1> QED
    BY <1>2, <1>3

\* Only a worm dismantled at most once is dismantled again.
LEMMA TwiceStep ==
    ASSUME FieldInv, [Next]_vars
    PROVE  DismantledAtMostTwice'
  <1> SUFFICES ASSUME NEW w \in Worm PROVE dismantled'[w] <= 2
    BY DEF DismantledAtMostTwice
  <1>0. dismantled[w] \in Nat /\ dismantled[w] <= 2
    BY DEF FieldInv, Typed, DismantledAtMostTwice
  <1>1. CASE Holds(worms, w)
    <2>1. w \in Made
      BY <1>1, ListedHolds DEF FieldInv
    <2>2. dismantled[w] <= 1
      BY <1>0, <1>1, <2>1 DEF FieldInv, ClearedInList, Cleared
    <2> QED
      BY <1>0, <2>2, DismantledStep
  <1>2. CASE ~Holds(worms, w)
    BY <1>0, <1>2, DismantledStep
  <1> QED
    BY <1>1, <1>2

-----------------------------------------------------------------------------
\* The effect a baby starts with is one its parents have eaten, or none.
LEMMA EffectsStep ==
    ASSUME FieldInv, [Next]_vars
    PROVE  /\ eaten' \in [Worm -> Effects \cup {NoEffect}]
           /\ \A w \in Worm : eaten'[w] # eaten[w] => dismantled'[w] = 0
  <1>0. /\ eaten \in [Worm -> Effects \cup {NoEffect}]
        /\ dismantled \in [Worm -> Nat] /\ Made \subseteq Worm
    BY MadeGrows DEF FieldInv, Typed
  <1>1. CASE Birth
    <2>1. /\ worms[i] \in Worm /\ worms[j] \in Worm
          /\ born + 1 \in Worm /\ born + 1 \notin Made
      BY <1>0, <1>1, ParentsMade, MadeGrows
    <2>2. PICK e \in InheritedEffects(worms[i], worms[j]) :
               eaten' = [eaten EXCEPT ![born + 1] = e]
      BY <1>1 DEF Birth
    <2>3. e \in Effects \cup {NoEffect}
      BY <1>0, <2>1 DEF InheritedEffects
    <2>4. dismantled' = dismantled
      BY <1>1 DEF Birth
    <2>5. dismantled[born + 1] = 0
      BY <2>1 DEF FieldInv, Unmade
    <2> QED
      BY <1>0, <2>2, <2>3, <2>4, <2>5
  <1>2. CASE \E v \in Worm, off \in BOOLEAN : FinishedTick(v, off)
    <2>1. PICK v \in Worm, off \in BOOLEAN : FinishedTick(v, off)
      BY <1>2
    <2>2. dismantled[v] = 0
      BY <2>1, CalledNotCleared
    <2>3. \/ eaten' = eaten
          \/ /\ \E e \in {eaten[v]} \cup Effects : eaten' = [eaten EXCEPT ![v] = e]
             /\ dismantled' = dismantled
      BY <2>1 DEF FinishedTick
    <2> QED
      BY <1>0, <2>2, <2>3
  <1>3. CASE eaten' = eaten
    BY <1>0, <1>3
  <1>4. \/ Birth \/ (\E v \in Worm, off \in BOOLEAN : FinishedTick(v, off))
        \/ eaten' = eaten
    BY DEF Next, StartCreatingWorm, AddNote, StopCreatingWorm, ClearStuff, PostTick,
           ControllerTick, ScanRound, SequenceTick, CreatingTick, SecondsPass,
           vars, fieldVars, wormVars
  <1> QED
    BY <1>1, <1>2, <1>3, <1>4

\* A worm's age only matters as being more than 0.
LEMMA AgedStep ==
    ASSUME FieldInv, [Next]_vars
    PROVE  aged' \in [Worm -> BOOLEAN]
  <1>0. aged \in [Worm -> BOOLEAN]
    BY DEF FieldInv, Typed
  <1>1. \/ \E v \in Worm : aged' = [aged EXCEPT ![v] = TRUE]
        \/ aged' = aged
    BY DEF Next, StartCreatingWorm, AddNote, StopCreatingWorm, ClearStuff, PostTick,
           ControllerTick, ScanRound, Birth, SequenceTick, CreatingTick, FinishedTick,
           SecondsPass, vars, fieldVars, wormVars
  <1> QED
    BY <1>0, <1>1, Zenon

\* The invariant holds before the first touch.
LEMMA FieldInvInit == Init => FieldInv
  <1> SUFFICES ASSUME Init PROVE FieldInv
    OBVIOUS
  <1> USE DEF Init
  <1>0. /\ Made = {} /\ born = 0 /\ worms = << >> /\ i = 0
        /\ \A w \in Worm : w # NoWorm
    BY DEF Made, Worm, NoWorm
  <1>1. mating \in [Worm -> BOOLEAN] /\ foundMate \in BOOLEAN
    BY Zenon
  <1>2. ScanTypeOK
    BY <1>0, <1>1, MaxWormsAssumption
    DEF ScanTypeOK, NoGeneration, Generation, Dates
  <1>3. CursorsInArray
    BY DEF CursorsInArray, Scanning
  <1>4. /\ creatingWorm \in BOOLEAN /\ armed \in BOOLEAN
        /\ currentWorm \in Made \cup {NoWorm}
        /\ creating \in [Worm -> BOOLEAN] /\ aged \in [Worm -> BOOLEAN]
        /\ recording \in [Worm -> BOOLEAN]
    BY Zenon
  <1>5. /\ eaten \in [Worm -> Effects \cup {NoEffect}]
        /\ dismantled \in [Worm -> Nat] /\ pos \in [Worm -> Nat]
        /\ timeline \in [Worm -> Seq(SUBSET Pitches)]
    BY DEF EmptyTimeline
  <1>6. /\ observers \in Seq(Observers) /\ pending \in Seq(Observers)
        /\ Len(observers) = 1 /\ Len(pending) = 0
    BY DEF Observers
  <1>7. Typed
    BY <1>4, <1>5, <1>6 DEF Typed
  <1>8. CreationInStep
    <2>1. armed = creatingWorm /\ creatingWorm = (currentWorm # NoWorm)
      BY Zenon
    <2>2. ASSUME NEW w \in Worm
          PROVE  creating[w] = (w = currentWorm) /\ recording[w] = creating[w]
      <3>1. creating[w] = FALSE /\ recording[w] = FALSE
        BY Zenon
      <3>2. (w = currentWorm) = FALSE
        BY <1>0, Zenon
      <3> QED
        BY <3>1, <3>2, Zenon
    <2> QED
      BY <2>1, <2>2, Zenon DEF CreationInStep
  <1>9. Unmade
    BY DEF Unmade
  <1>10. OnceEach
    BY <1>6 DEF OnceEach, Distinct
  <1>11. /\ SequencesInStep /\ ClearedUnregistered /\ ClearedInList
         /\ OnlyTheDeadEscapeClear
    BY <1>0 DEF SequencesInStep, ClearedUnregistered, ClearedInList,
                OnlyTheDeadEscapeClear
  <1>12. DismantledAtMostTwice
    BY DEF DismantledAtMostTwice
  <1> QED
    BY <1>2, <1>3, <1>7, <1>8, <1>9, <1>10, <1>11, <1>12 DEF FieldInv

\* Every step keeps it.
LEMMA FieldInvStep == FieldInv /\ [Next]_vars => FieldInv'
  <1> SUFFICES ASSUME FieldInv, [Next]_vars PROVE FieldInv'
    OBVIOUS
  <1>1. ScanTypeOK' /\ CursorsInArray'
    BY ScanPart
  <1>2. Typed'
    BY CreationStep, SequencesStep, ObserversStep, DismantledStep, EffectsStep,
       AgedStep
    DEF Typed, CreationTyped, SequencesTyped, Timelines
  <1>3. OnceEach'
    BY ObserversStep DEF OnceEach, Distinct
  <1>4. CreationInStep' /\ SequencesInStep' /\ Unmade'
    BY CreationStep, SequencesStep, UnmadeStep
  <1> QED
    BY <1>1, <1>2, <1>3, <1>4, ClearedUnregisteredStep, ClearedInListStep,
       EscapeStep, TwiceStep
    DEF FieldInv

\* The invariant gives the properties the runs check.
LEMMA FieldInvGives ==
    FieldInv => /\ FieldTypeOK /\ CalledOncePerTick /\ ClearedStayOut
  <1> SUFFICES ASSUME FieldInv
               PROVE  FieldTypeOK /\ CalledOncePerTick /\ ClearedStayOut
    OBVIOUS
  <1>0. /\ ScanTypeOK /\ Typed /\ observers \in Seq(Observers)
        /\ pending \in Seq(Observers) /\ Made \subseteq Worm
    BY MaxWormsAssumption DEF FieldInv, Typed, ScanTypeOK, Made, Worm
  <1>1. FieldTypeOK
    <2>1. \A w \in Worm : timeline[w] \in Seq(SUBSET Pitches)
      BY <1>0 DEF Typed
    <2>2. currentWorm \in Worm \cup {NoWorm}
      BY <1>0 DEF Typed
    <2> QED
      BY <1>0, <2>1, <2>2 DEF FieldTypeOK, Typed
  <1>2. CalledOncePerTick
    <2>1. DOMAIN observers = 1 .. Len(observers)
      BY <1>0
    <2> QED
      BY <2>1 DEF FieldInv, OnceEach, Distinct, CalledOncePerTick
  <1>3. ClearedStayOut
    <2>1. DOMAIN pending = 1 .. Len(pending)
      BY <1>0
    <2>2. ASSUME NEW w \in Made, Cleared(w)
          PROVE  /\ \A k \in DOMAIN pending : pending[k] # WormOf(w)
                 /\ Scanning => w \notin Listed
      <3>1. ~Holds(pending, WormOf(w))
        BY <2>2 DEF FieldInv, ClearedUnregistered
      <3>2. Holds(worms, w) => ~Scanning
        BY <2>2 DEF FieldInv, ClearedInList
      <3> QED
        BY <1>0, <2>1, <3>1, <3>2, ListedHolds DEF Holds
    <2> QED
      BY <2>2 DEF ClearedStayOut
  <1> QED
    BY <1>1, <1>2, <1>3

-----------------------------------------------------------------------------
\* The invariant holds in every reachable state of the field.
THEOREM FieldInvariant == Spec => []FieldInv
  BY FieldInvInit, FieldInvStep, PTL DEF Spec

\* The field keeps its variables in their types.
THEOREM FieldTypeCorrect == Spec => []FieldTypeOK
  BY FieldInvariant, FieldInvGives, PTL

\* The controller's flag, the view's timer, the current worm and the worms'
\* flags always agree, whatever touches, timers and clearing do in between.
THEOREM CreationAlwaysInStep == Spec => []CreationInStep
  <1>1. FieldInv => CreationInStep
    BY DEF FieldInv
  <1> QED
    BY <1>1, FieldInvariant, PTL

\* Every sequence has its position at the last tick while it records and
\* within its timeline while it plays, whether it was played in or inherited.
THEOREM SequencesAlwaysInStep == Spec => []SequencesInStep
  <1>1. FieldInv => SequencesInStep
    BY DEF FieldInv
  <1> QED
    BY <1>1, FieldInvariant, PTL

\* No tick calls a worm or a sequence twice, however often sequences are
\* registered anew and worms unregistered.
THEOREM AlwaysCalledOnce == Spec => []CalledOncePerTick
  BY FieldInvariant, FieldInvGives, PTL

\* A worm without synths is not ticked and not scanned, whether it cleared
\* itself within a post or was cleared between two.
THEOREM ClearedAlwaysStayOut == Spec => []ClearedStayOut
  BY FieldInvariant, FieldInvGives, PTL

\* The Clear button misses only finished worms that have no notes left.
THEOREM OnlyTheDeadEverEscape == Spec => []OnlyTheDeadEscapeClear
  <1>1. FieldInv => OnlyTheDeadEscapeClear
    BY DEF FieldInv
  <1> QED
    BY <1>1, FieldInvariant, PTL

\* No worm's synths are dismantled a third time.
THEOREM NeverDismantledThrice == Spec => []DismantledAtMostTwice
  <1>1. FieldInv => DismantledAtMostTwice
    BY DEF FieldInv
  <1> QED
    BY <1>1, FieldInvariant, PTL

\* No step gives an effect to a worm whose synths are gone.
THEOREM EffectsBeforeClearing == Spec => NoEffectOnceCleared
  <1>1. FieldInv /\ [Next]_vars =>
           [\A w \in Worm : eaten'[w] # eaten[w] => dismantled'[w] = 0]_vars
    BY EffectsStep
  <1> QED
    BY <1>1, FieldInvariant, PTL DEF Spec, NoEffectOnceCleared

\* In the field, as in the scan alone, the loops of -[PWViewController tick]
\* stay within the array, although worms join and leave it between ticks.
THEOREM FieldCursorsInArray == Spec => []CursorsInArray
  <1>1. FieldInv => CursorsInArray
    BY DEF FieldInv
  <1> QED
    BY <1>1, FieldInvariant, PTL

=============================================================================
