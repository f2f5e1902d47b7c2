--------------------------- MODULE StateStoreProofs ---------------------------
(***************************************************************************)
(* Proofs about StateStore, for any set of processes, any number of         *)
(* generations, any Keep >= 1 and every fault.                              *)
(*                                                                         *)
(* The invariant StoreInv strengthens StoreTypeOK and the two properties    *)
(* HeldIsCurrentOrPast and ConflictsArePaidFor with what a prune under way  *)
(* may still remove (never the head) and with what each place of a call     *)
(* knows.  Every step either leaves the directory alone or changes it in    *)
(* one of three ways (DirectoryStep), and each of them only moves the head  *)
(* up: that is what carries the invariant over for the other processes.     *)
(***************************************************************************)
EXTENDS StateStore, FiniteSetTheorems, WellFoundedInduction, TLAPS

\* The largest element of a set of generations.
LEMMA MaxOfGens ==
  ASSUME NEW S, S \subseteq Gens, S # {}
  PROVE  Max(S) \in S /\ \A g \in S : g <= Max(S)
<1> DEFINE D == {MaxGen - g : g \in S}
<1>0. \A g \in S : g \in Int /\ 0 <= g /\ g <= MaxGen
  BY GenAssumption DEF Gens
<1>1. D \subseteq Nat /\ D # {}
  <2>1. \A g \in S : MaxGen - g \in Nat
    BY <1>0, GenAssumption
  <2>2. D # {}
    BY Zenon
  <2> QED
    BY <2>1, <2>2, Zenon
<1>2. PICK d \in D : \A e \in D : ~(<<e, d>> \in OpToRel(<, Nat))
  <2>1. IsWellFoundedOn(OpToRel(<, Nat), Nat)
    BY NatLessThanWellFounded
  <2> QED
    BY <1>1, <2>1, WFMin
<1>3. \A e \in D : d <= e
  <2> SUFFICES ASSUME NEW e \in D, ~(d <= e)
               PROVE  FALSE
    OBVIOUS
  <2>1. d \in Nat /\ e \in Nat
    BY <1>1, <1>2, Zenon
  <2>2. <<e, d>> \in OpToRel(<, Nat)
    <3> HIDE DEF D
    <3>1. e < d
      BY <2>1
    <3> QED
      BY <2>1, <3>1 DEF OpToRel
  <2> QED
    BY <1>2, <2>2, Zenon
<1>4. PICK m \in S : d = MaxGen - m
  BY <1>2
<1>5. \A g \in S : m >= g
  <2> TAKE g \in S
  <2>1. d <= MaxGen - g
    BY <1>3
  <2> QED
    BY <2>1, <1>4, GenAssumption DEF Gens
<1> HIDE DEF D
<1>6. Max(S) \in S /\ \A g \in S : Max(S) >= g
  BY <1>5 DEF Max
<1> QED
  BY <1>6, GenAssumption DEF Gens

-----------------------------------------------------------------------------
(* The inductive invariant. *)

\* What a process may hold: the head of the store, or something older.
Held(gen, state) ==
  /\ \E h \in Present : h >= gen
  /\ (\A h \in Present : h <= gen) => files[gen] \in {state, Unusable}

\* A generation is superseded: a prune that removes it leaves the head alone.
Below(g) == \E h \in Present : h > g

HeldInv(p) == held[p] # Nothing => Held(held[p].gen, held[p].state)

DoomedInv(p) == \A g \in doomed[p] : Below(g)

CallInv(p) ==
  /\ at[p] \in {"ready", "won"} => held[p] # Nothing
  /\ at[p] = "load_read" => seen[p] \in Gens
  /\ at[p] \in InInitialise => tries[p] < Attempts
  /\ at[p] = "init_publish" => began[p] + tries[p] <= seen[p]

PaidInv(p) == at[p] # "idle" => began[p] + tries[p] <= Top

ProcInv(p) == HeldInv(p) /\ DoomedInv(p) /\ CallInv(p) /\ PaidInv(p)

StoreInv == StoreTypeOK /\ \A p \in Procs : ProcInv(p)

-----------------------------------------------------------------------------
(* The directory. *)

\* One above the highest of a set of generations.
Above(S) == IF S = {} THEN 0 ELSE Max(S) + 1

LEMMA AboveGens ==
  ASSUME NEW S, S \subseteq Gens
  PROVE  /\ Above(S) \in Nat
         /\ \A h \in S : h < Above(S)
         /\ S = {} => Above(S) = 0
         /\ S # {} => Above(S) - 1 = Max(S) /\ Max(S) \in S
<1>1. CASE S = {}
  BY <1>1 DEF Above
<1>2. CASE S # {}
  <2>1. Max(S) \in S /\ \A g \in S : g <= Max(S)
    BY <1>2, MaxOfGens
  <2>2. \A h \in S : h \in Nat
    BY GenAssumption DEF Gens
  <2>3. Max(S) \in Nat
    BY <2>1, <2>2, Zenon
  <2>4. Above(S) = Max(S) + 1
    BY <1>2 DEF Above
  <2> QED
    BY <1>2, <2>1, <2>2, <2>3, <2>4
<1> QED
  BY <1>1, <1>2

LEMMA TopBounds ==
  /\ Top \in Nat
  /\ \A h \in Present : h < Top
  /\ Present = {} => Top = 0
  /\ Present # {} => Top - 1 = Max(Present) /\ Max(Present) \in Present
<1>1. Present \subseteq Gens
  BY DEF Present
<1>2. Top = Above(Present)
  BY DEF Top, Above
<1> QED
  BY <1>1, <1>2, AboveGens

LEMMA TopBoundsNext ==
  Top' \in Nat /\ \A h \in Present' : h < Top'
<1>1. Present' \subseteq Gens
  BY DEF Present
<1>2. Top' = Above(Present')
  BY DEF Top, Above
<1> QED
  BY <1>1, <1>2, AboveGens

\* What a step may do to the directory.
Published == \E g \in Gens, c \in States :
  files[g] = NoFile /\ files' = [files EXCEPT ![g] = c]
Damaged == \E g \in Gens :
  files[g] \in States /\ files' = [files EXCEPT ![g] = Unusable]
Removed == \E g \in Gens :
  Below(g) /\ files' = [files EXCEPT ![g] = NoFile]
DirectoryStep == files' = files \/ Published \/ Damaged \/ Removed

LEMMA StepsOfDirectory ==
  StoreInv /\ [StoreNext]_storeVars => DirectoryStep
<1> SUFFICES ASSUME StoreInv, [StoreNext]_storeVars
             PROVE  DirectoryStep
  OBVIOUS
<1>1. ASSUME NEW p \in Procs, NEW state \in States, CasWin(p, state)
      PROVE  DirectoryStep
  BY <1>1 DEF CasWin, Free, DirectoryStep, Published
<1>2. ASSUME NEW p \in Procs, NEW blank \in Blanks, InitPublish(p, blank)
      PROVE  DirectoryStep
  BY <1>2, ContentAssumption DEF InitPublish, Free, DirectoryStep, Published
<1>3. ASSUME NEW p \in Procs, PruneRemove(p)
      PROVE  DirectoryStep
  <2>1. PICK g \in doomed[p] :
          \/ files' = [files EXCEPT ![g] = NoFile]
          \/ files' = files
    BY <1>3 DEF PruneRemove
  <2>2. g \in Gens
    BY <2>1 DEF StoreInv, StoreTypeOK
  <2>3. Below(g)
    BY <2>1 DEF StoreInv, ProcInv, DoomedInv
  <2> QED
    BY <2>1, <2>2, <2>3 DEF DirectoryStep, Removed
<1>4. ASSUME NEW g \in Gens, Damage(g)
      PROVE  DirectoryStep
  BY <1>4 DEF Damage, DirectoryStep, Damaged
<1>5. ASSUME NEW p \in Procs,
             \/ InitialiseCall(p) \/ LoadList(p) \/ LoadRead(p) \/ ReadError(p)
             \/ InitList(p) \/ InitConflict(p) \/ StoreError(p) \/ PruneList(p)
             \/ CasConflict(p) \/ PruneCall(p) \/ Proceed(p) \/ StoreReturn(p)
      PROVE  DirectoryStep
  <2>1. files' = files
    BY <1>5 DEF InitialiseCall, LoadList, LoadRead, ReadError, InitList, InitConflict,
      StoreError, PruneList, CasConflict, PruneCall, Proceed, StoreReturn
  <2> QED
    BY <2>1 DEF DirectoryStep
<1>6. CASE UNCHANGED storeVars
  BY <1>6 DEF storeVars, DirectoryStep
<1> QED
  BY <1>1, <1>2, <1>3, <1>4, <1>5, <1>6 DEF StoreNext, StoreStep

\* The head of the store only moves up, so what was superseded or held stays so.
LEMMA HeadMovesUp ==
  ASSUME files \in [Gens -> Contents \cup {NoFile}], DirectoryStep
  PROVE  /\ files' \in [Gens -> Contents \cup {NoFile}]
         /\ \A h \in Present : \E k \in Present' : k >= h
         /\ \A g \in Gens : Below(g) => Below(g)'
         /\ \A gen \in Gens : \A state : Held(gen, state) => Held(gen, state)'
<1> USE ContentAssumption
<1>0. Present \subseteq Gens /\ Present' \subseteq Gens /\ Gens \subseteq Int
  BY GenAssumption DEF Present, Gens
<1>1. CASE files' = files
  <2>1. Present' = Present
    BY <1>1 DEF Present
  <2> QED
    BY <1>0, <1>1, <2>1 DEF Below, Held
<1>2. CASE Published
  <2>1. PICK g \in Gens, c \in States :
          files[g] = NoFile /\ files' = [files EXCEPT ![g] = c]
    BY <1>2 DEF Published
  <2>2. Present' = Present \cup {g} /\ g \notin Present
    BY <2>1 DEF Present
  <2>3. files' \in [Gens -> Contents \cup {NoFile}]
    BY <2>1 DEF Contents
  <2>4. \A gen \in Gens : \A state : Held(gen, state) => Held(gen, state)'
    <3> SUFFICES ASSUME NEW gen \in Gens, NEW state, Held(gen, state)
                 PROVE  Held(gen, state)'
      OBVIOUS
    <3>1. \E h \in Present' : h >= gen
      BY <2>2 DEF Held
    <3>2. ASSUME \A h \in Present' : h <= gen
          PROVE  files'[gen] \in {state, Unusable}
      <4>1. files[gen] \in {state, Unusable}
        BY <2>2, <3>2 DEF Held
      <4>2. gen \in Present
        <5>1. PICK h \in Present : h >= gen
          BY DEF Held
        <5> QED
          BY <5>1, <3>2, <2>2, <1>0
      <4> QED
        BY <4>1, <4>2, <2>1, <2>2
    <3> QED
      BY <3>1, <3>2 DEF Held
  <2> QED
    BY <1>0, <2>2, <2>3, <2>4 DEF Below
<1>3. CASE Damaged
  <2>1. PICK g \in Gens : files[g] \in States /\ files' = [files EXCEPT ![g] = Unusable]
    BY <1>3 DEF Damaged
  <2>2. Present' = Present
    BY <2>1 DEF Present
  <2>3. files' \in [Gens -> Contents \cup {NoFile}]
    BY <2>1 DEF Contents
  <2>4. \A gen \in Gens : files'[gen] = files[gen] \/ files'[gen] = Unusable
    BY <2>1
  <2>5. \A gen \in Gens : \A state : Held(gen, state) => Held(gen, state)'
    BY <2>2, <2>4 DEF Held
  <2> QED
    BY <1>0, <2>2, <2>3, <2>5 DEF Below
<1>4. CASE Removed
  <2>1. PICK g \in Gens : Below(g) /\ files' = [files EXCEPT ![g] = NoFile]
    BY <1>4 DEF Removed
  <2>2. Present' = Present \ {g}
    BY <2>1 DEF Present
  <2>3. PICK k \in Present : k > g
    BY <2>1 DEF Below
  <2>4. k \in Present' /\ k \in Int /\ g \in Int
    BY <2>2, <2>3, <1>0
  <2>5. files' \in [Gens -> Contents \cup {NoFile}]
    BY <2>1 DEF Contents
  <2>6. \A h \in Present : \E j \in Present' : j >= h
    BY <2>2, <2>3, <2>4, <1>0
  <2>7. \A f \in Gens : Below(f) => Below(f)'
    BY <2>2, <2>3, <2>4, <1>0 DEF Below
  <2>8. \A gen \in Gens : \A state : Held(gen, state) => Held(gen, state)'
    <3> SUFFICES ASSUME NEW gen \in Gens, NEW state, Held(gen, state)
                 PROVE  Held(gen, state)'
      OBVIOUS
    <3>1. \E h \in Present' : h >= gen
      BY <2>6, <1>0 DEF Held
    <3>2. ASSUME \A h \in Present' : h <= gen
          PROVE  files'[gen] \in {state, Unusable}
      <4>1. k <= gen
        BY <3>2, <2>4
      <4>2. g # gen /\ \A h \in Present : h <= gen
        BY <4>1, <3>2, <2>2, <2>3, <2>4, <1>0
      <4>3. files[gen] \in {state, Unusable}
        BY <4>2 DEF Held
      <4> QED
        BY <4>2, <4>3, <2>1
    <3> QED
      BY <3>1, <3>2 DEF Held
  <2> QED
    BY <2>5, <2>6, <2>7, <2>8
<1> QED
  BY <1>1, <1>2, <1>3, <1>4 DEF DirectoryStep

LEMMA TopMovesUp ==
  ASSUME files \in [Gens -> Contents \cup {NoFile}], DirectoryStep
  PROVE  Top \in Nat /\ Top' \in Nat /\ Top <= Top'
<1>1. /\ Top \in Nat
      /\ Present = {} => Top = 0
      /\ Present # {} => Top - 1 \in Present
  BY TopBounds
<1>2. \A h \in Present : \E k \in Present' : k >= h
  BY HeadMovesUp
<1>3. Top' \in Nat /\ \A h \in Present' : h < Top'
  BY TopBoundsNext
<1>4. CASE Present = {}
  BY <1>1, <1>3, <1>4
<1>5. CASE Present # {}
  <2>1. PICK k \in Present' : k >= Top - 1
    BY <1>1, <1>2, <1>5
  <2>2. k < Top' /\ k \in Int
    <3>1. k \in Gens
      BY <2>1 DEF Present
    <3> QED
      BY <3>1, <1>3, GenAssumption DEF Gens
  <2> QED
    BY <1>1, <1>3, <2>1, <2>2
<1> QED
  BY <1>4, <1>5

-----------------------------------------------------------------------------
(* The invariant is inductive. *)

\* What a step leaves alone for a process: everything but the directory.
Untouched(p) ==
  /\ at'[p] = at[p] /\ seen'[p] = seen[p] /\ held'[p] = held[p]
  /\ tries'[p] = tries[p] /\ doomed'[p] = doomed[p] /\ began'[p] = began[p]

LEMMA OthersUntouched ==
  ASSUME StoreInv, DirectoryStep, NEW q \in Procs, Untouched(q)
  PROVE  ProcInv(q)'
<1>1. /\ held[q] \in Versioned \cup {Nothing} /\ doomed[q] \subseteq Gens
      /\ began[q] \in Nat /\ tries[q] \in Int
      /\ files \in [Gens -> Contents \cup {NoFile}]
  BY GenAssumption DEF StoreInv, StoreTypeOK
<1>2. ProcInv(q)
  BY DEF StoreInv
<1>3. HeldInv(q)'
  <2> SUFFICES ASSUME held[q] # Nothing
               PROVE  Held(held[q].gen, held[q].state)'
    BY DEF HeldInv, Untouched
  <2>1. held[q].gen \in Gens
    BY <1>1 DEF Versioned
  <2>2. Held(held[q].gen, held[q].state)
    BY <1>2 DEF ProcInv, HeldInv
  <2>3. \A gen \in Gens : \A state : Held(gen, state) => Held(gen, state)'
    BY <1>1, HeadMovesUp
  <2> QED
    BY <2>1, <2>2, <2>3 DEF Untouched, Held
<1>4. DoomedInv(q)'
  BY <1>1, <1>2, HeadMovesUp DEF ProcInv, DoomedInv, Untouched
<1>5. CallInv(q)'
  BY <1>2 DEF ProcInv, CallInv, Untouched
<1>6. PaidInv(q)'
  BY <1>1, <1>2, TopMovesUp DEF ProcInv, PaidInv, Untouched
<1> QED
  BY <1>3, <1>4, <1>5, <1>6 DEF ProcInv

\* What an action of p has to establish.
Kept(p) == StoreTypeOK' /\ ProcInv(p)' /\ \A q \in Procs \ {p} : Untouched(q)

LEMMA ActionKeepsStoreInv ==
  ASSUME StoreInv, DirectoryStep, NEW p \in Procs, Kept(p)
  PROVE  StoreInv'
<1>1. ASSUME NEW q \in Procs PROVE ProcInv(q)'
  <2>1. CASE q = p
    BY <2>1 DEF Kept
  <2>2. CASE q # p
    BY <2>2, OthersUntouched DEF Kept
  <2> QED
    BY <2>1, <2>2
<1> QED
  BY <1>1 DEF StoreInv, Kept

LEMMA InitialiseKeeps ==
  ASSUME StoreInv, [StoreNext]_storeVars, NEW p \in Procs
  PROVE  /\ InitialiseCall(p) => Kept(p)
         /\ LoadList(p) => Kept(p)
         /\ LoadRead(p) => Kept(p)
         /\ ReadError(p) => Kept(p)
         /\ InitList(p) => Kept(p)
         /\ InitConflict(p) => Kept(p)
         /\ \A blank \in Blanks : InitPublish(p, blank) => Kept(p)
<1> USE DEF StoreInv, StoreTypeOK, Kept, Untouched, Goto, ProcInv
<1>0. /\ DirectoryStep
      /\ Top \in Nat /\ Top' \in Nat /\ Top <= Top'
      /\ Attempts \in Nat /\ 0 < Attempts
      /\ p \in DOMAIN at /\ p \in DOMAIN seen
  BY StepsOfDirectory, TopMovesUp, GenAssumption
<1>1. ASSUME InitialiseCall(p)
      PROVE  Kept(p)
  <2>1. StoreTypeOK'
    BY <1>0, <1>1 DEF InitialiseCall, Places, InInitialise
  <2>2. HeldInv(p)' /\ CallInv(p)'
    BY <1>0, <1>1 DEF InitialiseCall, HeldInv, CallInv
  <2>3. DoomedInv(p)'
    BY <1>1 DEF InitialiseCall, DoomedInv, Below, Present
  <2>4. PaidInv(p)'
    BY <1>0, <1>1 DEF InitialiseCall, PaidInv
  <2>5. \A q \in Procs \ {p} : Untouched(q)
    BY <1>1 DEF InitialiseCall
  <2> QED
    BY <2>1, <2>2, <2>3, <2>4, <2>5
<1>2. ASSUME LoadList(p)
      PROVE  Kept(p)
  <2>0. Present # {} => Max(Present) \in Gens
    BY TopBounds DEF Present
  <2>00. Gens \subseteq Nat
    BY GenAssumption DEF Gens
  <2>1. StoreTypeOK'
    <3>1. CASE Present = {}
      BY <3>1, <1>2 DEF LoadList, Places, InInitialise
    <3>2. CASE Present # {}
      <4>1. Max(Present) \in Nat
        BY <2>0, <2>00, <3>2
      <4>2. seen' = [seen EXCEPT ![p] = Max(Present)] /\ seen' \in [Procs -> Nat]
        BY <3>2, <4>1, <1>2 DEF LoadList
      <4>3. at' = [at EXCEPT ![p] = "load_read"]
        BY <3>2, <1>2 DEF LoadList
      <4> QED
        BY <4>2, <4>3, <1>2 DEF LoadList, Places, InInitialise
    <3> QED
      BY <3>1, <3>2
  <2>2. HeldInv(p)' /\ DoomedInv(p)'
    BY <1>2 DEF LoadList, HeldInv, DoomedInv, Held, Below, Present
  <2>3. CallInv(p)'
    BY <2>0, <1>2 DEF LoadList, CallInv, InInitialise
  <2>4. PaidInv(p)'
    BY <1>0, <1>2 DEF LoadList, PaidInv
  <2>5. \A q \in Procs \ {p} : Untouched(q)
    BY <1>2 DEF LoadList
  <2> QED
    BY <2>1, <2>2, <2>3, <2>4, <2>5
<1>3. ASSUME LoadRead(p)
      PROVE  Kept(p)
  <2>0. seen[p] \in Gens
    BY <1>3 DEF LoadRead, CallInv
  <2>1. StoreTypeOK'
    BY <2>0, <1>3 DEF LoadRead, Places, InInitialise, Versioned
  <2>2. HeldInv(p)'
    <3>1. CASE files[seen[p]] \in States
      <4>1. held'[p] = [gen |-> seen[p], state |-> files[seen[p]]] /\ files' = files
        BY <1>3, <3>1 DEF LoadRead
      <4>2. seen[p] \in Present /\ Present' = Present /\ seen[p] \in Int
        BY <2>0, <3>1, <4>1, ContentAssumption, GenAssumption DEF Present, Gens
      <4> QED
        BY <4>1, <4>2 DEF HeldInv, Held
    <3>2. CASE files[seen[p]] \notin States
      BY <1>3, <3>2 DEF LoadRead, HeldInv, Held, Present
    <3> QED
      BY <3>1, <3>2
  <2>3. DoomedInv(p)'
    BY <1>3 DEF LoadRead, DoomedInv, Below, Present
  <2>4. CallInv(p)'
    BY <1>3, NothingAssumption, GenAssumption, <2>0 DEF LoadRead, CallInv, InInitialise, Gens
  <2>5. PaidInv(p)'
    BY <1>0, <1>3 DEF LoadRead, PaidInv
  <2>6. \A q \in Procs \ {p} : Untouched(q)
    BY <1>3 DEF LoadRead
  <2> QED
    BY <2>1, <2>2, <2>3, <2>4, <2>5, <2>6
<1>4. ASSUME ReadError(p)
      PROVE  Kept(p)
  <2>1. StoreTypeOK'
    BY <1>4 DEF ReadError, Places, InInitialise
  <2>2. HeldInv(p)' /\ DoomedInv(p)'
    BY <1>4 DEF ReadError, HeldInv, DoomedInv, Held, Below, Present
  <2>3. CallInv(p)' /\ PaidInv(p)'
    BY <1>0, <1>4 DEF ReadError, CallInv, PaidInv, InInitialise
  <2>4. \A q \in Procs \ {p} : Untouched(q)
    BY <1>4 DEF ReadError
  <2> QED
    BY <2>1, <2>2, <2>3, <2>4
<1>5. ASSUME InitList(p)
      PROVE  Kept(p)
  <2>1. StoreTypeOK'
    BY <1>0, <1>5 DEF InitList, Places, InInitialise
  <2>2. HeldInv(p)' /\ DoomedInv(p)'
    BY <1>5 DEF InitList, HeldInv, DoomedInv, Held, Below, Present
  <2>3. CallInv(p)' /\ PaidInv(p)'
    BY <1>0, <1>5 DEF InitList, CallInv, PaidInv, InInitialise
  <2>4. \A q \in Procs \ {p} : Untouched(q)
    BY <1>5 DEF InitList
  <2> QED
    BY <2>1, <2>2, <2>3, <2>4
<1>6. ASSUME InitConflict(p)
      PROVE  Kept(p)
  <2>0. /\ tries[p] \in Nat /\ tries[p] < Attempts /\ began[p] \in Nat /\ seen[p] \in Nat
        /\ began[p] + tries[p] <= seen[p] /\ seen[p] < Top
    BY <1>0, <1>6, TopBounds DEF InitConflict, CallInv, InInitialise
  <2>1. StoreTypeOK'
    <3>1. tries[p] + 1 \in 0 .. Attempts
      BY <1>0, <2>0
    <3> QED
      BY <1>6, <3>1 DEF InitConflict, Places, InInitialise
  <2>2. HeldInv(p)' /\ DoomedInv(p)'
    BY <1>6 DEF InitConflict, HeldInv, DoomedInv, Held, Below, Present
  <2>3. CallInv(p)'
    BY <1>0, <1>6, <2>0 DEF InitConflict, CallInv, InInitialise
  <2>4. PaidInv(p)'
    BY <1>0, <1>6, <2>0 DEF InitConflict, PaidInv
  <2>5. \A q \in Procs \ {p} : Untouched(q)
    BY <1>6 DEF InitConflict
  <2> QED
    BY <2>1, <2>2, <2>3, <2>4, <2>5
<1>7. ASSUME NEW blank \in Blanks, InitPublish(p, blank)
      PROVE  Kept(p)
  <2>0. seen[p] \in Gens /\ seen[p] \in Int /\ blank \in States
    BY <1>7, ContentAssumption, GenAssumption DEF InitPublish, Free, Gens
  <2>1. StoreTypeOK'
    BY <2>0, <1>7 DEF InitPublish, Places, InInitialise, Versioned, Contents
  <2>2. HeldInv(p)'
    <3>1. held'[p] = [gen |-> seen[p], state |-> blank] /\ files'[seen[p]] = blank
      BY <1>7, <2>0 DEF InitPublish
    <3>2. seen[p] \in Present'
      BY <2>0, <3>1, ContentAssumption DEF Present
    <3> QED
      BY <2>0, <3>1, <3>2 DEF HeldInv, Held
  <2>3. DoomedInv(p)'
    BY <1>0, <1>7, HeadMovesUp DEF InitPublish, DoomedInv
  <2>4. CallInv(p)'
    BY <1>7, <2>0, NothingAssumption, GenAssumption DEF InitPublish, CallInv, InInitialise, Gens
  <2>5. PaidInv(p)'
    BY <1>0, <1>7, GenAssumption DEF InitPublish, PaidInv
  <2>6. \A q \in Procs \ {p} : Untouched(q)
    BY <1>7 DEF InitPublish
  <2> QED
    BY <2>1, <2>2, <2>3, <2>4, <2>5, <2>6
<1> QED
  BY <1>1, <1>2, <1>3, <1>4, <1>5, <1>6, <1>7

LEMMA CasKeeps ==
  ASSUME StoreInv, [StoreNext]_storeVars, NEW p \in Procs
  PROVE  /\ \A state \in States : CasWin(p, state) => Kept(p)
         /\ CasConflict(p) => Kept(p)
         /\ StoreError(p) => Kept(p)
         /\ Proceed(p) => Kept(p)
         /\ StoreReturn(p) => Kept(p)
<1> USE DEF StoreInv, StoreTypeOK, Kept, Untouched, Goto, ProcInv
<1>0. /\ DirectoryStep
      /\ Top \in Nat /\ Top' \in Nat /\ Top <= Top'
      /\ Attempts \in Nat /\ 0 < Attempts
  BY StepsOfDirectory, TopMovesUp, GenAssumption
<1>1. ASSUME NEW state \in States, CasWin(p, state)
      PROVE  Kept(p)
  <2> DEFINE next == held[p].gen + 1
  <2>0. next \in Gens /\ next \in Int
    BY <1>1, GenAssumption DEF CasWin, Free, Gens
  <2>1. StoreTypeOK'
    BY <2>0, <1>1 DEF CasWin, Places, Versioned, Contents
  <2>2. HeldInv(p)'
    <3>1. held'[p] = [gen |-> next, state |-> state] /\ files'[next] = state
      BY <1>1, <2>0 DEF CasWin
    <3>2. next \in Present'
      BY <2>0, <3>1, ContentAssumption DEF Present
    <3> QED
      BY <2>0, <3>1, <3>2 DEF HeldInv, Held
  <2>3. DoomedInv(p)'
    BY <1>0, <1>1, HeadMovesUp DEF CasWin, DoomedInv
  <2>4. CallInv(p)'
    <3>1. held'[p] = [gen |-> next, state |-> state] /\ next \in Nat
      BY <1>1, <2>0, GenAssumption DEF CasWin, Gens
    <3> QED
      BY <1>1, <3>1, NothingAssumption DEF CasWin, CallInv, InInitialise
  <2>5. PaidInv(p)'
    BY <1>0, <1>1, GenAssumption DEF CasWin, PaidInv
  <2>6. \A q \in Procs \ {p} : Untouched(q)
    BY <1>1 DEF CasWin
  <2> QED
    BY <2>1, <2>2, <2>3, <2>4, <2>5, <2>6
<1>2. ASSUME CasConflict(p) \/ StoreError(p) \/ Proceed(p)
      PROVE  Kept(p)
  <2>0. /\ UNCHANGED <<files, seen, held, tries, doomed, began>>
        /\ at[p] # "idle"
        /\ \/ at' = [at EXCEPT ![p] = "lost"]
           \/ at' = [at EXCEPT ![p] = "failed"]
           \/ at[p] = "won" /\ at' = [at EXCEPT ![p] = "ready"]
    BY <1>2 DEF CasConflict, StoreError, Proceed
  <2>1. StoreTypeOK'
    BY <2>0 DEF Places
  <2>2. HeldInv(p)' /\ DoomedInv(p)'
    BY <2>0 DEF HeldInv, DoomedInv, Held, Below, Present
  <2>3. CallInv(p)'
    BY <2>0 DEF CallInv, InInitialise
  <2>4. PaidInv(p)'
    BY <1>0, <2>0 DEF PaidInv
  <2>5. \A q \in Procs \ {p} : Untouched(q)
    BY <2>0
  <2> QED
    BY <2>1, <2>2, <2>3, <2>4, <2>5
<1>3. ASSUME StoreReturn(p)
      PROVE  Kept(p)
  <2>1. StoreTypeOK'
    BY <1>0, <1>3 DEF StoreReturn, Places
  <2>2. HeldInv(p)' /\ DoomedInv(p)' /\ PaidInv(p)'
    BY <1>3 DEF StoreReturn, HeldInv, DoomedInv, PaidInv
  <2>3. CallInv(p)'
    BY <1>3 DEF StoreReturn, CallInv, InInitialise
  <2>4. \A q \in Procs \ {p} : Untouched(q)
    BY <1>3 DEF StoreReturn
  <2> QED
    BY <2>1, <2>2, <2>3, <2>4
<1> QED
  BY <1>1, <1>2, <1>3

\* What prune removes has Keep generations above it, so the head is not among it.
LEMMA SupersededIsBelow ==
  ASSUME NEW g \in Superseded
  PROVE  g \in Gens /\ Below(g)
<1>1. g \in Gens /\ Cardinality({h \in Present : h > g}) >= Keep
  BY DEF Superseded, Present
<1>2. {h \in Present : h > g} # {}
  <2> SUFFICES ASSUME {h \in Present : h > g} = {}
               PROVE  FALSE
    OBVIOUS
  <2>1. Cardinality({h \in Present : h > g}) = 0
    BY FS_EmptySet
  <2> QED
    BY <1>1, <2>1, KeepAssumption
<1> QED
  BY <1>1, <1>2 DEF Below

LEMMA PruneKeeps ==
  ASSUME StoreInv, [StoreNext]_storeVars, NEW p \in Procs
  PROVE  /\ PruneCall(p) => Kept(p)
         /\ PruneList(p) => Kept(p)
         /\ PruneRemove(p) => Kept(p)
<1> USE DEF StoreInv, StoreTypeOK, Kept, Untouched, Goto, ProcInv
<1>0. DirectoryStep /\ Top \in Nat /\ Top' \in Nat /\ Top <= Top'
  BY StepsOfDirectory, TopMovesUp
<1>1. ASSUME PruneCall(p)
      PROVE  Kept(p)
  <2>1. StoreTypeOK'
    BY <1>1 DEF PruneCall, Places
  <2>2. HeldInv(p)' /\ DoomedInv(p)'
    BY <1>1 DEF PruneCall, HeldInv, DoomedInv, Held, Below, Present
  <2>3. CallInv(p)' /\ PaidInv(p)'
    BY <1>0, <1>1 DEF PruneCall, CallInv, PaidInv, InInitialise
  <2>4. \A q \in Procs \ {p} : Untouched(q)
    BY <1>1 DEF PruneCall
  <2> QED
    BY <2>1, <2>2, <2>3, <2>4
<1>2. ASSUME PruneList(p)
      PROVE  Kept(p)
  <2>0. \A g \in Superseded : g \in Gens /\ Below(g)
    BY SupersededIsBelow
  <2>1. StoreTypeOK'
    BY <1>2, <2>0 DEF PruneList, Places
  <2>2. HeldInv(p)'
    BY <1>2 DEF PruneList, HeldInv, Held, Present
  <2>3. DoomedInv(p)'
    <3>1. doomed'[p] \in {Superseded, {}} /\ files' = files
      BY <1>2 DEF PruneList
    <3> QED
      BY <2>0, <3>1 DEF DoomedInv, Below, Present
  <2>4. CallInv(p)' /\ PaidInv(p)'
    BY <1>0, <1>2 DEF PruneList, CallInv, PaidInv, InInitialise
  <2>5. \A q \in Procs \ {p} : Untouched(q)
    BY <1>2 DEF PruneList
  <2> QED
    BY <2>1, <2>2, <2>3, <2>4, <2>5
<1>3. ASSUME PruneRemove(p)
      PROVE  Kept(p)
  <2>0. PICK g \in doomed[p] :
          /\ files' = [files EXCEPT ![g] = NoFile] \/ files' = files
          /\ doomed' = [doomed EXCEPT ![p] = @ \ {g}]
    BY <1>3 DEF PruneRemove
  <2>1. StoreTypeOK'
    <3>1. files' \in [Gens -> Contents \cup {NoFile}]
      BY <2>0
    <3>2. doomed' \in [Procs -> SUBSET Gens]
      BY <2>0
    <3> QED
      BY <1>3, <3>1, <3>2 DEF PruneRemove
  <2>2. HeldInv(p)'
    <3> SUFFICES ASSUME held[p] # Nothing
                 PROVE  Held(held[p].gen, held[p].state)'
      BY <1>3 DEF PruneRemove, HeldInv
    <3>1. held[p].gen \in Gens
      BY DEF Versioned
    <3>2. Held(held[p].gen, held[p].state)
      BY DEF HeldInv
    <3>3. \A gen \in Gens : \A state : Held(gen, state) => Held(gen, state)'
      BY <1>0, HeadMovesUp
    <3>4. held' = held
      BY <1>3 DEF PruneRemove
    <3> QED
      BY <3>1, <3>2, <3>3, <3>4 DEF Held
  <2>3. DoomedInv(p)'
    <3>1. doomed'[p] \subseteq doomed[p] /\ doomed[p] \subseteq Gens
      BY <2>0
    <3>2. \A h \in Gens : Below(h) => Below(h)'
      BY <1>0, HeadMovesUp
    <3> QED
      BY <3>1, <3>2 DEF DoomedInv
  <2>4. CallInv(p)' /\ PaidInv(p)'
    BY <1>0, <1>3 DEF PruneRemove, CallInv, PaidInv, InInitialise
  <2>5. \A q \in Procs \ {p} : Untouched(q)
    BY <1>3 DEF PruneRemove
  <2> QED
    BY <2>1, <2>2, <2>3, <2>4, <2>5
<1> QED
  BY <1>1, <1>2, <1>3

LEMMA StoreInvStart ==
  StoreInit => StoreInv
<1> SUFFICES ASSUME StoreInit
             PROVE  StoreInv
  OBVIOUS
<1>1. PICK content \in Found : files = [g \in Gens |-> IF g = 0 THEN content ELSE NoFile]
  BY DEF StoreInit
<1>2. StoreTypeOK
  BY <1>1, ContentAssumption, GenAssumption
    DEF StoreInit, StoreTypeOK, Contents, Places
<1>3. \A p \in Procs : ProcInv(p)
  BY DEF StoreInit, ProcInv, HeldInv, DoomedInv, CallInv, PaidInv, InInitialise
<1> QED
  BY <1>2, <1>3 DEF StoreInv

LEMMA StoreInvStep ==
  StoreInv /\ [StoreNext]_storeVars => StoreInv'
<1> SUFFICES ASSUME StoreInv, [StoreNext]_storeVars
             PROVE  StoreInv'
  OBVIOUS
<1>1. DirectoryStep
  BY StepsOfDirectory
<1>2. ASSUME NEW p \in Procs, Kept(p)
      PROVE  StoreInv'
  BY <1>1, <1>2, ActionKeepsStoreInv
<1>3. ASSUME StoreTypeOK', \A q \in Procs : Untouched(q)
      PROVE  StoreInv'
  BY <1>1, <1>3, OthersUntouched DEF StoreInv
<1>4. CASE UNCHANGED storeVars
  <2>1. StoreTypeOK'
    BY <1>4 DEF StoreInv, StoreTypeOK, storeVars
  <2> QED
    BY <1>3, <1>4, <2>1 DEF Untouched, storeVars
<1>5. ASSUME NEW g \in Gens, Damage(g)
      PROVE  StoreInv'
  <2>1. StoreTypeOK'
    BY <1>5 DEF Damage, StoreInv, StoreTypeOK, Contents
  <2> QED
    BY <1>3, <1>5, <2>1 DEF Untouched, Damage
<1> QED
  BY <1>2, <1>4, <1>5, InitialiseKeeps, CasKeeps, PruneKeeps DEF StoreNext, StoreStep

LEMMA StoreInvHolds == StoreSpec => []StoreInv
  BY StoreInvStart, StoreInvStep, PTL DEF StoreSpec

-----------------------------------------------------------------------------
(* The theorems. *)

\* Every generation the store handles is in range and every call is at one of
\* its places: initialise stays within INITIALISE_ATTEMPTS however many
\* processes publish (state.rs, StateStore::initialise).
THEOREM StoreTypeCorrect == StoreSpec => []StoreTypeOK
<1>1. StoreInv => StoreTypeOK
  BY DEF StoreInv
<1> QED
  BY <1>1, StoreInvHolds, PTL

\* What a caller of load, initialise or compare_and_set was handed is the current
\* state for as long as the store has not moved on, whatever other processes
\* publish and prune meanwhile (state.rs, Versioned).
THEOREM StoreHeld == StoreSpec => []HeldIsCurrentOrPast
<1>1. StoreInv => HeldIsCurrentOrPast
  <2> SUFFICES ASSUME StoreInv, NEW p \in Procs, held[p] # Nothing
               PROVE  /\ held[p].gen < Top
                      /\ held[p].gen + 1 = Top => Current \in {held[p].state, Unusable}
    BY DEF HeldIsCurrentOrPast
  <2>1. held[p].gen \in Int /\ Present \subseteq Int
    BY GenAssumption DEF StoreInv, StoreTypeOK, Versioned, Gens, Present
  <2>2. Held(held[p].gen, held[p].state)
    BY DEF StoreInv, ProcInv, HeldInv
  <2>3. PICK h \in Present : h >= held[p].gen
    BY <2>2 DEF Held
  <2>4. held[p].gen < Top
    BY <2>1, <2>3, TopBounds
  <2>5. ASSUME held[p].gen + 1 = Top
        PROVE  Current \in {held[p].state, Unusable}
    <3>1. held[p].gen = Max(Present) /\ \A k \in Present : k <= held[p].gen
      BY <2>1, <2>3, <2>5, TopBounds
    <3>2. Current = files[held[p].gen]
      BY <2>3, <3>1 DEF Current
    <3> QED
      BY <2>2, <3>1, <3>2 DEF Held
  <2> QED
    BY <2>4, <2>5
<1> QED
  BY <1>1, StoreInvHolds, PTL

\* initialise gives up only when the store moved on under it at least once for
\* each conflict it counted (state.rs, INITIALISE_ATTEMPTS).
THEOREM StorePaid == StoreSpec => []ConflictsArePaidFor
<1>1. StoreInv => ConflictsArePaidFor
  <2> SUFFICES ASSUME StoreInv, NEW p \in Procs, at[p] # "idle"
               PROVE  tries[p] <= Top - began[p]
    BY DEF ConflictsArePaidFor
  <2>1. tries[p] \in Int /\ began[p] \in Int /\ Top \in Int
    BY GenAssumption, TopBounds DEF StoreInv, StoreTypeOK
  <2>2. began[p] + tries[p] <= Top
    BY DEF StoreInv, ProcInv, PaidInv
  <2> QED
    BY <2>1, <2>2
<1> QED
  BY <1>1, StoreInvHolds, PTL

\* No step of any process removes the current generation or replaces its content
\* (state.rs, publish by hard_link and prune): only another format or a disk
\* fault can make it unreadable.
THEOREM HeadIsNeverRemoved == StoreSpec => CurrentOnlySuperseded
<1>1. ASSUME StoreInv, [StoreNext]_storeVars, Present # {}
      PROVE  files'[Max(Present)] \in {files[Max(Present)], Unusable}
  <2>1. DirectoryStep
    BY <1>1, StepsOfDirectory
  <2>2. /\ Max(Present) \in Present /\ Present \subseteq Gens /\ Gens \subseteq Int
        /\ \A h \in Present : h <= Max(Present)
    BY <1>1, TopBounds, MaxOfGens, GenAssumption DEF Present, Gens
  <2>3. files \in [Gens -> Contents \cup {NoFile}]
    BY <1>1 DEF StoreInv, StoreTypeOK
  <2>4. CASE files' = files
    BY <2>4
  <2>5. CASE Published
    <3>1. PICK g \in Gens, c \in States :
            files[g] = NoFile /\ files' = [files EXCEPT ![g] = c]
      BY <2>5 DEF Published
    <3>2. g # Max(Present)
      BY <2>2, <3>1 DEF Present
    <3> QED
      BY <2>2, <2>3, <3>1, <3>2
  <2>6. CASE Damaged
    BY <2>2, <2>3, <2>6 DEF Damaged
  <2>7. CASE Removed
    <3>1. PICK g \in Gens : Below(g) /\ files' = [files EXCEPT ![g] = NoFile]
      BY <2>7 DEF Removed
    <3>2. g # Max(Present)
      BY <2>2, <3>1 DEF Below
    <3> QED
      BY <2>2, <2>3, <3>1, <3>2
  <2> QED
    BY <2>1, <2>4, <2>5, <2>6, <2>7 DEF DirectoryStep
<1>2. StoreInv /\ [StoreNext]_storeVars
        => [Present # {} =>
              LET head == Max(Present)
              IN  files'[head] \in {files[head], Unusable}]_storeVars
  BY <1>1
<1> QED
  BY <1>2, StoreInvHolds, PTL DEF StoreSpec, CurrentOnlySuperseded

\* A compare_and_set that becomes the current state replaced the very state it
\* was computed from: at the head of the store no transition is lost (state.rs,
\* StateStore::compare_and_set).
THEOREM HeadCommits == StoreSpec => HeadCommitReadHead
<1> DEFINE Commit(p) ==
      (at[p] = "ready" /\ at'[p] = "won" /\ held'[p].gen >= Top) =>
        /\ Top = held[p].gen + 1
        /\ Current \in {held[p].state, Unusable}
<1>1. ASSUME StoreInv, HeldIsCurrentOrPast, [StoreNext]_storeVars, NEW p \in Procs,
             at[p] = "ready", at'[p] = "won", held'[p].gen >= Top
      PROVE  Top = held[p].gen + 1 /\ Current \in {held[p].state, Unusable}
  <2>1. held[p] # Nothing /\ held[p].gen \in Int /\ Top \in Int
    BY <1>1, GenAssumption, TopBounds
      DEF StoreInv, StoreTypeOK, ProcInv, CallInv, Versioned, Gens
  <2>2. PICK state \in States : CasWin(p, state)
    BY <1>1 DEF StoreInv, StoreTypeOK, StoreNext, StoreStep, storeVars, Goto,
      InitialiseCall, LoadList, LoadRead, ReadError, InitList, InitPublish, InitConflict,
      StoreError, PruneList, PruneRemove, CasWin, CasConflict, PruneCall, Proceed,
      StoreReturn, Damage
  <2>3. held'[p].gen = held[p].gen + 1
    BY <1>1, <2>2 DEF CasWin, StoreInv, StoreTypeOK
  <2>4. held[p].gen < Top
    BY <1>1, <2>1 DEF HeldIsCurrentOrPast
  <2>5. Top = held[p].gen + 1
    BY <1>1, <2>1, <2>3, <2>4
  <2> QED
    BY <1>1, <2>1, <2>5 DEF HeldIsCurrentOrPast
<1>2. StoreInv /\ HeldIsCurrentOrPast /\ [StoreNext]_storeVars
        => [\A p \in Procs : Commit(p)]_storeVars
  BY <1>1
<1> QED
  BY <1>2, StoreInvHolds, StoreHeld, PTL DEF StoreSpec, HeadCommitReadHead
=============================================================================
