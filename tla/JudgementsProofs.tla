---------------------------- MODULE JudgementsProofs ----------------------------
(***************************************************************************)
(* Judgements, proved for all its constants, question by question: but for *)
(* the watch and its heartbeat, which are in UnattendedProofs.             *)
(*                                                                         *)
(* Most of these modules answer in one step, from given facts that no step *)
(* changes: what is proved of them is the answer.  Discovery, FleetTests   *)
(* and Descriptor's questions are answered step by step.                   *)
(***************************************************************************)
EXTENDS Judgements, WellFoundedInduction, FiniteSetTheorems, SequenceTheorems, TLAPS

\* A nonempty set of naturals has a least member.
LEMMA SmallestExists ==
  ASSUME NEW S, S \subseteq Nat, S # {}
  PROVE  \E n \in S : \A m \in S : n <= m
  <1>1. \E x \in S : \A y \in S : ~(<<y, x>> \in OpToRel(<, Nat))
    BY NatLessThanWellFounded, WFMin
  <1>2. PICK x \in S : \A y \in S : ~(<<y, x>> \in OpToRel(<, Nat))
    BY <1>1
  <1>3. \A y \in S : ~(y < x)
    BY <1>2 DEF OpToRel
  <1> QED
    BY <1>3

-----------------------------------------------------------------------------
(* Discovery: which checkouts are the fleet.                               *)
(*                                                                         *)
(* What the scan has decided of a candidate stays decided, because what is *)
(* held only grows: a checkout that was passed over as a second one still  *)
(* is when the scan ends, and then the chain from it to the one that is in *)
(* the fleet can be followed (WhoseRepository).                            *)

\* The candidates come before what is nested, and say what their kind of checkout can.
DiskOk ==
  /\ disk \in [Dsc!Ids -> Dsc!Lone]
  /\ \A i \in Dsc!Ids : i > 1 => Dsc!Rank(disk[i - 1].place) <= Dsc!Rank(disk[i].place)

\* Every repository held is governed by its main checkout, or by one in the fleet.
HeldIsTrue ==
  /\ Dsc!Mains \subseteq held
  /\ \A c \in held : c \in Dsc!Mains \/ \E j \in fleet : Dsc!Linked(j) /\ Dsc!Common(j) = c
  /\ \A j \in fleet : Dsc!Linked(j) => Dsc!Common(j) \in held
FleetIsGoverned ==
  \A j \in fleet : /\ j \in Dsc!Candidates /\ Dsc!Admitted(j) /\ j \notin Dsc!RedundantClones
                   /\ Dsc!Linked(j) /\ ~Dsc!Listed(j) => Dsc!Common(j) \notin Dsc!Mains

\* What the scan made of a candidate it has looked at.
Decided(i) ==
  \/ i \in fleet
  \/ i \in Dsc!RedundantClones
  \/ Dsc!DuplicateCheckout(i)
  \/ ~Dsc!Admitted(i) /\ (Dsc!UnresolvedWarning(i) => i \in warned)
ScanIsDecided == \A i \in Dsc!Candidates : i < next => Decided(i)
NestedIsTold  == next = N + 2 => \A i \in Dsc!Nested : cut \/ i \in warned \/ Dsc!WorktreeOf(i)

DiscoveryInv ==
  /\ DiskOk /\ next \in 1..N + 2 /\ HeldIsTrue /\ FleetIsGoverned /\ ScanIsDecided /\ NestedIsTold
  /\ Dsc!OnePerRepository

\* The places have the order the scan has.
LEMMA RanksAre ==
  /\ Dsc!Rank("listed") \in 1..2 /\ Dsc!Rank("scanned") \in 1..2 /\ Dsc!Rank("nested") = 3
  <1>1. /\ \A i \in 1..3 : Dsc!Places[i] = "nested" <=> i = 3
        /\ \A i \in 1..3 : Dsc!Places[i] = "scanned" <=> i = 2
        /\ \A i \in 1..3 : Dsc!Places[i] = "listed" <=> i = 1
    BY DEF Dsc!Places
  <1>2. 1 \in 1..3 /\ 2 \in 1..3 /\ 3 \in 1..3
    OBVIOUS
  <1>3. Dsc!Rank("nested") = 3
    BY <1>1, <1>2 DEF Dsc!Rank
  <1>4. Dsc!Rank("scanned") = 2
    BY <1>1, <1>2 DEF Dsc!Rank
  <1>5. Dsc!Rank("listed") = 1
    BY <1>1, <1>2 DEF Dsc!Rank
  <1> QED
    BY <1>3, <1>4, <1>5

\* Past the first one that is nested, all are: the least candidate beyond it would come
\* right after one that is not.
LEMMA CandidatesComeFirst ==
  ASSUME DiskOk, NEW i \in Dsc!Ids, i \notin Dsc!Candidates
  PROVE  \A j \in Dsc!Candidates : j < i
  <1>0. N \in Nat \ {0} /\ Dsc!Ids = 1..N
    BY JudgementsAssumption DEF JudgementsAssumption, Dsc!Ids
  <1> DEFINE S == {j \in Dsc!Candidates : i <= j}
  <1>1. S \subseteq Dsc!Ids /\ S \subseteq Nat
    BY <1>0 DEF Dsc!Candidates, Dsc!Ids
  <1>2. ASSUME S # {} PROVE FALSE
    <2>1. PICK j \in S : \A k \in S : j <= k
      <3> HIDE DEF S
      <3> QED
        BY <1>1, <1>2, SmallestExists
    <2>2. j \in Dsc!Ids /\ j # i /\ i <= j /\ j > 1 /\ j - 1 \in Dsc!Ids /\ i <= j - 1
      BY <1>0, <1>1, <2>1
    <2>3. j - 1 \notin Dsc!Candidates
      BY <1>0, <2>1, <2>2
    <2>4. disk[j - 1].place = "nested"
      BY <2>2, <2>3 DEF Dsc!Candidates, Dsc!Ids
    <2>5. disk[j].place \in {"listed", "scanned"}
      BY <2>1, <2>2 DEF DiskOk, Dsc!Candidates, Dsc!Lone, Dsc!Checkout
    <2>6. Dsc!Rank(disk[j - 1].place) <= Dsc!Rank(disk[j].place)
      BY <2>2 DEF DiskOk
    <2>7. Dsc!Rank(disk[j].place) \in 1..2 /\ Dsc!Rank(disk[j - 1].place) = 3
      BY <2>4, <2>5, RanksAre
    <2> QED
      BY <2>6, <2>7
  <1>3. \A j \in Dsc!Candidates : j \notin S /\ j \in Nat /\ i \in Nat
    BY <1>0, <1>2 DEF Dsc!Candidates, Dsc!Ids
  <1> QED
    BY <1>3

\* Of the clones there are, one is kept.
LEMMA KeeperIsOne ==
  ASSUME DiskOk, Dsc!Clones # {}
  PROVE  Dsc!Keeper \in Dsc!Clones
  <1>0. N \in Nat \ {0}
    BY JudgementsAssumption DEF JudgementsAssumption
  <1>1. \A b \in BOOLEAN : Dsc!Bit(b) \in Nat
    BY DEF Dsc!Bit
  <1>2. \A i \in Dsc!Clones : Dsc!CanonicalRank(i) \in Nat /\ i \in Nat
    <2> TAKE i \in Dsc!Clones
    <2>1. i \in Nat
      BY <1>0 DEF Dsc!Clones, Dsc!Candidates, Dsc!Ids
    <2>2. /\ Dsc!Bit(~Dsc!Listed(i)) \in Nat /\ Dsc!Bit(disk[i].form # "named") \in Nat
          /\ Dsc!Bit(disk[i].form = "hidden") \in Nat /\ Dsc!Bit(~Dsc!Admitted(i)) \in Nat
      BY DEF Dsc!Bit
    <2> QED
      BY <2>1, <2>2 DEF Dsc!CanonicalRank
  <1> DEFINE R == {Dsc!CanonicalRank(i) : i \in Dsc!Clones}
  <1>3. PICK r \in R : \A s \in R : r <= s
    <2>1. R \subseteq Nat /\ R # {}
      BY <1>2
    <2> HIDE DEF R
    <2> QED
      BY <2>1, SmallestExists
  <1> DEFINE B == {i \in Dsc!Clones : Dsc!CanonicalRank(i) = r}
  <1>4. PICK b \in B : \A j \in B : b <= j
    <2>1. B \subseteq Nat /\ B # {}
      BY <1>2
    <2> HIDE DEF B
    <2> QED
      BY <2>1, SmallestExists
  <1>5. \A j \in Dsc!Clones : \/ Dsc!CanonicalRank(b) < Dsc!CanonicalRank(j)
                              \/ Dsc!CanonicalRank(b) = Dsc!CanonicalRank(j) /\ b <= j
    <2> SUFFICES ASSUME NEW j \in Dsc!Clones
                 PROVE  \/ Dsc!CanonicalRank(b) < Dsc!CanonicalRank(j)
                        \/ Dsc!CanonicalRank(b) = Dsc!CanonicalRank(j) /\ b <= j
      OBVIOUS
    <2>1. r <= Dsc!CanonicalRank(j) /\ Dsc!CanonicalRank(b) = r
      BY <1>3
    <2>2. CASE Dsc!CanonicalRank(j) = r
      BY <1>4, <2>1, <2>2
    <2>3. CASE Dsc!CanonicalRank(j) # r
      BY <1>2, <2>1, <2>3
    <2> QED
      BY <2>2, <2>3
  <1>6. b \in Dsc!Clones
    OBVIOUS
  <1> HIDE DEF B
  <1> QED
    BY <1>5, <1>6, Zenon DEF Dsc!Keeper

\* What depends on the disk alone stands while the scan runs.
LEMMA DiskStands ==
  ASSUME disk' = disk, plain' = plain
  PROVE  /\ Dsc!Candidates' = Dsc!Candidates /\ Dsc!Mains' = Dsc!Mains
         /\ Dsc!RedundantClones' = Dsc!RedundantClones /\ Dsc!Nested' = Dsc!Nested
         /\ DiskOk' = DiskOk
         /\ \A i : /\ Dsc!Admitted(i)' = Dsc!Admitted(i) /\ Dsc!Linked(i)' = Dsc!Linked(i)
                   /\ Dsc!Listed(i)' = Dsc!Listed(i) /\ Dsc!Common(i)' = Dsc!Common(i)
                   /\ Dsc!UnresolvedWarning(i)' = Dsc!UnresolvedWarning(i)
         /\ \A i, j : Dsc!SameRepository(i, j)' = Dsc!SameRepository(i, j)
  <1>1. Dsc!Candidates' = Dsc!Candidates /\ Dsc!Nested' = Dsc!Nested /\ DiskOk' = DiskOk
    BY DEF Dsc!Candidates, Dsc!Nested, Dsc!IsProjectDir, DiskOk, Dsc!Admitted
  <1>2. \A i : /\ Dsc!Admitted(i)' = Dsc!Admitted(i) /\ Dsc!Linked(i)' = Dsc!Linked(i)
               /\ Dsc!Listed(i)' = Dsc!Listed(i) /\ Dsc!Common(i)' = Dsc!Common(i)
               /\ Dsc!Main(i)' = Dsc!Main(i)
    BY DEF Dsc!Admitted, Dsc!Linked, Dsc!Listed, Dsc!Common, Dsc!Main
  <1>3. Dsc!Mains' = Dsc!Mains
    BY <1>1, <1>2 DEF Dsc!Mains
  <1>4. Dsc!Clones' = Dsc!Clones /\ \A i : Dsc!CanonicalRank(i)' = Dsc!CanonicalRank(i)
    BY <1>1, <1>2 DEF Dsc!Clones, Dsc!CanonicalRank
  <1>5. Dsc!RedundantClones' = Dsc!RedundantClones
    BY <1>2, <1>4 DEF Dsc!RedundantClones, Dsc!Keeper
  <1>6. \A i : Dsc!UnresolvedWarning(i)' = Dsc!UnresolvedWarning(i)
    BY <1>1, <1>2 DEF Dsc!UnresolvedWarning, Dsc!SiblingCheckout, Dsc!CandidateRepos
  <1>7. \A i, j : Dsc!SameRepository(i, j)' = Dsc!SameRepository(i, j)
    BY <1>2 DEF Dsc!SameRepository
  <1> QED
    BY <1>1, <1>2, <1>3, <1>5, <1>6, <1>7

\* A scan begins with the main checkouts held and nothing found.
LEMMA DiscoveryInit == Dsc!Init => DiscoveryInv
  <1> SUFFICES ASSUME Dsc!Init PROVE DiscoveryInv
    OBVIOUS
  <1>0. N \in Nat \ {0} /\ Dsc!Ids = 1..N
    BY JudgementsAssumption DEF JudgementsAssumption, Dsc!Ids
  <1>1. PICK lack \in {"broken", "refused", "none"} :
          disk \in {d \in [Dsc!Ids -> {c \in Dsc!Lone : c.config \in {"ok", lack}}] :
                      \A i \in Dsc!Ids : Dsc!WellFormed(d, i)}
    BY DEF Dsc!Init
  <1>2. DiskOk
    BY <1>1 DEF DiskOk, Dsc!WellFormed
  <1>3. next = 1 /\ held = Dsc!Mains /\ fleet = {}
    BY DEF Dsc!Init
  <1>4. next \in 1..N + 2 /\ next # N + 2
    BY <1>0, <1>3
  <1>5. ScanIsDecided
    BY <1>0, <1>3 DEF ScanIsDecided, Dsc!Candidates
  <1> QED
    BY <1>2, <1>3, <1>4, <1>5 DEF DiscoveryInv, HeldIsTrue, FleetIsGoverned, NestedIsTold, Dsc!OnePerRepository

\* Two checkouts in the fleet of one repository that nobody listed are one: clones of one
\* origin both being the one that is kept, and a worktree not being added when its
\* repository is held.
LEMMA AddedAlone ==
  ASSUME DiscoveryInv, NEW i \in Dsc!Candidates, NEW j \in fleet,
         i \notin Dsc!RedundantClones, ~Dsc!DuplicateCheckout(i), Dsc!Admitted(i),
         i # j, Dsc!SameRepository(i, j)
  PROVE  Dsc!Listed(i) \/ Dsc!Listed(j)
  <1> SUFFICES ASSUME ~Dsc!Listed(i), ~Dsc!Listed(j) PROVE FALSE
    OBVIOUS
  <1>1. j \in Dsc!Candidates /\ Dsc!Admitted(j) /\ j \notin Dsc!RedundantClones
    BY DEF DiscoveryInv, FleetIsGoverned
  <1>2. CASE Dsc!Main(i) /\ Dsc!Main(j) /\ disk[i].origin /\ disk[j].origin
    <2>1. i \in Dsc!Clones /\ j \in Dsc!Clones
      BY <1>1, <1>2 DEF Dsc!Clones
    <2> QED
      BY <1>1, <2>1 DEF Dsc!RedundantClones
  <1>3. CASE disk[i].git # "none" /\ disk[j].git # "none" /\ Dsc!Common(i) = Dsc!Common(j)
    <2>0. /\ Dsc!Main(i) \/ Dsc!Linked(i)
          /\ Dsc!Main(j) \/ Dsc!Linked(j)
      BY <1>1, <1>3 DEF Dsc!Main, Dsc!Linked, DiscoveryInv, DiskOk, Dsc!Lone, Dsc!Checkout, Dsc!Candidates
    <2>1. CASE Dsc!Main(i) /\ Dsc!Main(j)
      BY <1>3, <2>1 DEF Dsc!Common
    <2>2. CASE Dsc!Linked(i)
      <3>1. Dsc!Common(i) \notin held
        BY <2>2 DEF Dsc!DuplicateCheckout
      <3>2. Dsc!Main(j) => Dsc!Common(j) \in Dsc!Mains
        BY <1>1, <1>3 DEF Dsc!Mains
      <3> QED
        BY <1>3, <2>0, <3>1, <3>2 DEF DiscoveryInv, HeldIsTrue
    <2>3. CASE Dsc!Main(i) /\ Dsc!Linked(j)
      <3>1. Dsc!Common(i) \in Dsc!Mains
        BY <1>3, <2>3 DEF Dsc!Mains
      <3> QED
        BY <1>3, <2>3, <3>1 DEF DiscoveryInv, FleetIsGoverned
    <2> QED
      BY <2>0, <2>1, <2>2, <2>3
  <1> QED
    BY <1>2, <1>3 DEF Dsc!SameRepository

LEMMA SameIsMutual == \A i, j : Dsc!SameRepository(i, j) => Dsc!SameRepository(j, i)
  BY DEF Dsc!SameRepository

\* One candidate is passed over, joins the fleet, or is warned of.
LEMMA ConsiderKeeps ==
  ASSUME DiscoveryInv, NEW i \in Dsc!Ids, Dsc!Consider(i)
  PROVE  DiscoveryInv'
  <1>0. N \in Nat \ {0} /\ Dsc!Ids = 1..N
    BY JudgementsAssumption DEF JudgementsAssumption, Dsc!Ids
  <1>1. next = i /\ i \in Dsc!Candidates /\ next' = i + 1 /\ disk' = disk /\ plain' = plain
    BY DEF Dsc!Consider
  <1>2. next' \in 1..N + 2 /\ next' # N + 2
    BY <1>0, <1>1
  <1>3. /\ fleet \subseteq fleet' /\ fleet' \subseteq fleet \cup {i}
        /\ warned \subseteq warned'
        /\ held' = IF i \in fleet' \ fleet /\ Dsc!Linked(i) THEN held \cup {Dsc!Common(i)} ELSE held
        /\ i \in fleet' \ fleet => i \notin Dsc!RedundantClones /\ ~Dsc!DuplicateCheckout(i) /\ Dsc!Admitted(i)
        /\ \/ i \in fleet'
           \/ i \in Dsc!RedundantClones
           \/ Dsc!DuplicateCheckout(i)
           \/ ~Dsc!Admitted(i) /\ (Dsc!UnresolvedWarning(i) => i \in warned')
    <2>1. CASE (i \in Dsc!RedundantClones \/ Dsc!DuplicateCheckout(i)) /\ Dsc!Skip(i)
      BY <2>1 DEF Dsc!Skip
    <2>2. CASE /\ i \notin Dsc!RedundantClones /\ ~Dsc!DuplicateCheckout(i)
               /\ Dsc!Admitted(i) /\ Dsc!HoldRepo(i) /\ fleet' = fleet \cup {i} /\ UNCHANGED warned
      <3>1. held' = IF Dsc!Linked(i) THEN held \cup {Dsc!Common(i)} ELSE held
        BY <2>2 DEF Dsc!HoldRepo
      <3>2. CASE i \in fleet /\ Dsc!Linked(i)
        <4>1. Dsc!Common(i) \in held
          BY <3>2 DEF DiscoveryInv, HeldIsTrue
        <4>2. held' = held
          BY <3>1, <4>1
        <4> QED
          BY <2>2, <3>2, <4>2
      <3>3. CASE ~(i \in fleet /\ Dsc!Linked(i))
        BY <2>2, <3>1, <3>3
      <3> QED
        BY <3>2, <3>3
    <2>3. CASE /\ i \notin Dsc!RedundantClones /\ ~Dsc!DuplicateCheckout(i)
               /\ ~Dsc!Admitted(i) /\ UNCHANGED <<held, fleet>>
               /\ warned' = IF Dsc!UnresolvedWarning(i) THEN warned \cup {i} ELSE warned
      BY <2>3
    <2> QED
      BY <2>1, <2>2, <2>3 DEF Dsc!Consider
  <1>4. held \subseteq held'
    BY <1>3
  <1>5. DiskOk' /\ next' \in 1..N + 2 /\ NestedIsTold'
    BY <1>1, <1>2, DiskStands DEF DiscoveryInv, NestedIsTold
  <1>6. HeldIsTrue'
    <2>1. Dsc!Mains' \subseteq held'
      BY <1>1, <1>4, DiskStands DEF DiscoveryInv, HeldIsTrue
    <2>2. \A c \in held' : c \in Dsc!Mains' \/ \E j \in fleet' : Dsc!Linked(j)' /\ Dsc!Common(j)' = c
      <3> SUFFICES ASSUME NEW c \in held'
                   PROVE  c \in Dsc!Mains \/ \E j \in fleet' : Dsc!Linked(j) /\ Dsc!Common(j) = c
        BY <1>1, DiskStands
      <3>1. CASE c \in held
        BY <1>3, <3>1 DEF DiscoveryInv, HeldIsTrue
      <3>2. CASE c \notin held
        BY <1>3, <3>2
      <3> QED
        BY <3>1, <3>2
    <2>3. \A j \in fleet' : Dsc!Linked(j)' => Dsc!Common(j)' \in held'
      <3> SUFFICES ASSUME NEW j \in fleet', Dsc!Linked(j) PROVE Dsc!Common(j) \in held'
        BY <1>1, DiskStands
      <3>1. CASE j \in fleet
        BY <1>4, <3>1 DEF DiscoveryInv, HeldIsTrue
      <3>2. CASE j \notin fleet
        BY <1>3, <3>2
      <3> QED
        BY <3>1, <3>2
    <2> QED
      BY <2>1, <2>2, <2>3 DEF HeldIsTrue
  <1>7. FleetIsGoverned'
    <2> SUFFICES ASSUME NEW j \in fleet'
                 PROVE  /\ j \in Dsc!Candidates /\ Dsc!Admitted(j) /\ j \notin Dsc!RedundantClones
                        /\ Dsc!Linked(j) /\ ~Dsc!Listed(j) => Dsc!Common(j) \notin Dsc!Mains
      BY <1>1, DiskStands DEF FleetIsGoverned
    <2>1. CASE j \in fleet
      BY <2>1 DEF DiscoveryInv, FleetIsGoverned
    <2>2. CASE j \notin fleet
      <3>1. j = i /\ i \in fleet' \ fleet
        BY <1>3, <2>2
      <3>2. Dsc!Linked(i) /\ ~Dsc!Listed(i) => Dsc!Common(i) \notin held
        BY <1>3, <3>1 DEF Dsc!DuplicateCheckout
      <3> QED
        BY <1>1, <1>3, <3>1, <3>2 DEF DiscoveryInv, HeldIsTrue
    <2> QED
      BY <2>1, <2>2
  <1>8. ScanIsDecided'
    <2> SUFFICES ASSUME NEW j \in Dsc!Candidates, j < next' PROVE Decided(j)'
      BY <1>1, DiskStands DEF ScanIsDecided
    <2>0. j \in Nat /\ i \in Nat
      BY <1>0, <1>1 DEF Dsc!Candidates
    <2>1. /\ Dsc!DuplicateCheckout(j) => Dsc!DuplicateCheckout(j)'
          /\ Dsc!DuplicateCheckout(i) => Dsc!DuplicateCheckout(i)'
      BY <1>1, <1>4, DiskStands DEF Dsc!DuplicateCheckout
    <2>2. CASE j = i
      BY <1>1, <1>3, <2>1, <2>2, DiskStands DEF Decided
    <2>3. CASE j # i
      <3>1. j < next
        BY <1>1, <2>0, <2>3
      <3>2. Decided(j)
        BY <3>1 DEF DiscoveryInv, ScanIsDecided
      <3> QED
        BY <1>1, <1>3, <2>1, <3>2, DiskStands DEF Decided
    <2> QED
      BY <2>2, <2>3
  <1>9. Dsc!OnePerRepository'
    <2> SUFFICES ASSUME NEW j \in fleet', NEW k \in fleet', j # k, Dsc!SameRepository(j, k)
                 PROVE  Dsc!Listed(j) \/ Dsc!Listed(k)
      BY <1>1, DiskStands DEF Dsc!OnePerRepository
    <2>1. CASE j \in fleet /\ k \in fleet
      BY <2>1 DEF DiscoveryInv, Dsc!OnePerRepository
    <2>2. CASE j \notin fleet
      BY <1>1, <1>3, <2>2, AddedAlone
    <2>3. CASE k \notin fleet
      BY <1>1, <1>3, <2>3, AddedAlone, SameIsMutual
    <2> QED
      BY <2>1, <2>2, <2>3
  <1> QED
    BY <1>5, <1>6, <1>7, <1>8, <1>9 DEF DiscoveryInv

\* When no candidate is left, the nested search says what it found.
LEMMA NestedKeeps == ASSUME DiscoveryInv, Dsc!NestedWarnings PROVE DiscoveryInv'
  <1>0. N \in Nat \ {0} /\ Dsc!Ids = 1..N
    BY JudgementsAssumption DEF JudgementsAssumption, Dsc!Ids
  <1>1. /\ disk' = disk /\ plain' = plain /\ held' = held /\ fleet' = fleet /\ warned \subseteq warned'
        /\ next \in Dsc!Ids \cup {N + 1} /\ next \notin Dsc!Candidates /\ next' = N + 2
    BY DEF Dsc!NestedWarnings
  <1>2. PICK reached \in SUBSET Dsc!Nested : /\ warned' = warned \cup {i \in reached : ~Dsc!WorktreeOf(i)}
                                             /\ cut' \in {reached # Dsc!Nested, TRUE}
    BY DEF Dsc!NestedWarnings
  <1>3. DiskOk' /\ next' \in 1..N + 2
    BY <1>0, <1>1, DiskStands DEF DiscoveryInv
  <1>4. HeldIsTrue' /\ FleetIsGoverned' /\ Dsc!OnePerRepository'
    BY <1>1, DiskStands DEF DiscoveryInv, HeldIsTrue, FleetIsGoverned, Dsc!OnePerRepository
  <1>5. \A j \in Dsc!Candidates : j < next
    <2>1. CASE next \in Dsc!Ids
      BY <1>1, <2>1, CandidatesComeFirst DEF DiscoveryInv
    <2>2. CASE next = N + 1
      BY <1>0, <2>2 DEF Dsc!Candidates
    <2> QED
      BY <1>1, <2>1, <2>2
  <1>6. ScanIsDecided'
    <2> SUFFICES ASSUME NEW j \in Dsc!Candidates PROVE Decided(j)'
      BY <1>1, DiskStands DEF ScanIsDecided
    <2>1. Decided(j)
      BY <1>5 DEF DiscoveryInv, ScanIsDecided
    <2>2. Dsc!DuplicateCheckout(j)' = Dsc!DuplicateCheckout(j)
      BY <1>1, DiskStands DEF Dsc!DuplicateCheckout
    <2> QED
      BY <1>1, <2>1, <2>2, DiskStands DEF Decided
  <1>7. NestedIsTold'
    <2> SUFFICES ASSUME NEW i \in Dsc!Nested PROVE cut' \/ i \in warned' \/ Dsc!WorktreeOf(i)'
      BY <1>1, DiskStands DEF NestedIsTold
    <2>1. Dsc!WorktreeOf(i)' = Dsc!WorktreeOf(i)
      BY <1>1, DiskStands DEF Dsc!WorktreeOf, Dsc!Repos
    <2> QED
      BY <1>2, <2>1
  <1> QED
    BY <1>3, <1>4, <1>6, <1>7 DEF DiscoveryInv

LEMMA DiscoveryStep ==
  ASSUME DiscoveryInv, [Dsc!Next]_(Dsc!vars)
  PROVE  DiscoveryInv'
  <1>1. CASE \E i \in Dsc!Ids : Dsc!Consider(i)
    BY <1>1, ConsiderKeeps
  <1>2. CASE Dsc!NestedWarnings
    BY <1>2, NestedKeeps
  <1>3. CASE UNCHANGED Dsc!vars
    <2>1. UNCHANGED <<disk, plain, next, held, fleet, warned, cut>>
      BY <1>3 DEF Dsc!vars
    <2>2. \A j : Dsc!DuplicateCheckout(j)' = Dsc!DuplicateCheckout(j) /\ Dsc!WorktreeOf(j)' = Dsc!WorktreeOf(j)
      BY <2>1, DiskStands DEF Dsc!DuplicateCheckout, Dsc!WorktreeOf, Dsc!Repos
    <2>3. HeldIsTrue' /\ FleetIsGoverned' /\ Dsc!OnePerRepository' /\ NestedIsTold'
      BY <2>1, <2>2, DiskStands
         DEF DiscoveryInv, HeldIsTrue, FleetIsGoverned, Dsc!OnePerRepository, NestedIsTold
    <2>4. ScanIsDecided'
      BY <2>1, <2>2, DiskStands DEF DiscoveryInv, ScanIsDecided, Decided
    <2>5. DiskOk' /\ next' \in 1..N + 2
      BY <2>1, DiskStands DEF DiscoveryInv
    <2> QED
      BY <2>3, <2>4, <2>5 DEF DiscoveryInv
  <1> QED
    BY <1>1, <1>2, <1>3 DEF Dsc!Next

\* Whose repository a clone that was passed over is: the kept one's, which the fleet holds
\* when it is governed at all.
LEMMA CloneIsStoodFor ==
  ASSUME DiscoveryInv, next = N + 2, NEW i \in Dsc!RedundantClones
  PROVE  /\ i \in Dsc!Clones /\ Dsc!SameRepository(i, Dsc!Keeper) /\ Dsc!Keeper \in Dsc!Ids
         /\ Dsc!Admitted(Dsc!Keeper) => Dsc!Accounted(Dsc!Keeper)
  <1>0. N \in Nat \ {0} /\ Dsc!Ids = 1..N
    BY JudgementsAssumption DEF JudgementsAssumption, Dsc!Ids
  <1>1. i \in Dsc!Clones
    BY DEF Dsc!RedundantClones
  <1>2. Dsc!Keeper \in Dsc!Clones
    BY <1>1, KeeperIsOne DEF DiscoveryInv
  <1>3. Dsc!Keeper \in Dsc!Candidates /\ Dsc!Main(Dsc!Keeper) /\ Dsc!SameRepository(i, Dsc!Keeper)
    BY <1>1, <1>2 DEF Dsc!Clones, Dsc!SameRepository
  <1>4. Dsc!Keeper \notin Dsc!RedundantClones
    BY DEF Dsc!RedundantClones
  <1>5. ~Dsc!DuplicateCheckout(Dsc!Keeper)
    BY <1>3 DEF Dsc!DuplicateCheckout, Dsc!Linked, Dsc!Main
  <1>6. Dsc!Keeper \in Dsc!Ids /\ Decided(Dsc!Keeper)
    <2>1. Dsc!Keeper \in Dsc!Ids
      BY <1>3 DEF Dsc!Candidates
    <2>2. Dsc!Keeper < next
      BY <1>0, <2>1
    <2> QED
      BY <1>3, <2>1, <2>2 DEF DiscoveryInv, ScanIsDecided
  <1> QED
    BY <1>1, <1>3, <1>4, <1>5, <1>6 DEF Decided, Dsc!Accounted

\* Whose a worktree is that was passed over: of a repository whose main checkout, or whose
\* other worktree, is in the fleet, or of a clone that another stands for.
LEMMA WhoseRepository ==
  ASSUME DiscoveryInv, next = N + 2, NEW i \in Dsc!Candidates, Dsc!DuplicateCheckout(i)
  PROVE  Dsc!StoodFor(i) \/ Dsc!Silenced(i)
  <1>0. N \in Nat \ {0} /\ Dsc!Ids = 1..N
    BY JudgementsAssumption DEF JudgementsAssumption, Dsc!Ids
  <1>1. Dsc!Linked(i) /\ Dsc!Common(i) \in held /\ disk[i].git # "none"
    BY DEF Dsc!DuplicateCheckout, Dsc!Linked
  <1>2. CASE \E j \in fleet : Dsc!Linked(j) /\ Dsc!Common(j) = Dsc!Common(i)
    <2>1. PICK j \in fleet : Dsc!Linked(j) /\ Dsc!Common(j) = Dsc!Common(i)
      BY <1>2
    <2>2. j \in Dsc!Ids /\ Dsc!Accounted(j) /\ Dsc!SameRepository(i, j)
      BY <1>1, <2>1 DEF DiscoveryInv, FleetIsGoverned, Dsc!Candidates, Dsc!Accounted, Dsc!SameRepository, Dsc!Linked
    <2> QED
      BY <2>2 DEF Dsc!StoodFor
  <1>3. CASE Dsc!Common(i) \in Dsc!Mains
    <2>1. PICK j \in Dsc!Candidates : /\ disk[j].git # "none" /\ Dsc!Admitted(j)
                                      /\ Dsc!Main(j) \/ Dsc!Listed(j)
                                      /\ Dsc!Common(j) = Dsc!Common(i)
      BY <1>3 DEF Dsc!Mains
    <2>2. j \in Dsc!Ids /\ Dsc!SameRepository(i, j) /\ Decided(j)
      <3>1. j \in Dsc!Ids /\ Dsc!SameRepository(i, j)
        BY <1>1, <2>1 DEF Dsc!Candidates, Dsc!SameRepository
      <3>2. j < next
        BY <1>0, <3>1
      <3> QED
        BY <3>1, <3>2 DEF DiscoveryInv, ScanIsDecided
    <2>3. ~Dsc!DuplicateCheckout(j)
      BY <2>1 DEF Dsc!DuplicateCheckout, Dsc!Main, Dsc!Linked
    <2>4. CASE j \in fleet
      <3>1. Dsc!Accounted(j)
        BY <2>4 DEF Dsc!Accounted
      <3> QED
        BY <2>2, <3>1 DEF Dsc!StoodFor
    <2>5. CASE j \in Dsc!RedundantClones
      <3>1. CASE Dsc!Admitted(Dsc!Keeper)
        <4>1. Dsc!Keeper \in Dsc!Ids /\ Dsc!Accounted(Dsc!Keeper) /\ Dsc!SameRepository(j, Dsc!Keeper)
          BY <2>5, <3>1, CloneIsStoodFor
        <4> QED
          BY <2>2, <4>1 DEF Dsc!StoodFor
      <3>2. CASE ~Dsc!Admitted(Dsc!Keeper)
        <4>1. j \in Dsc!Clones
          BY <2>5, CloneIsStoodFor
        <4> QED
          BY <2>2, <3>2, <4>1 DEF Dsc!Silenced
      <3> QED
        BY <3>1, <3>2
    <2> QED
      BY <2>1, <2>2, <2>3, <2>4, <2>5 DEF Decided
  <1> QED
    BY <1>1, <1>2, <1>3 DEF DiscoveryInv, HeldIsTrue

\* When the scan is over, what was decided of each is what may be decided of it.
LEMMA DiscoveryTells == ASSUME DiscoveryInv PROVE Dsc!OnePerRepository /\ Dsc!NothingDropsSilently
  <1>0. N \in Nat \ {0} /\ Dsc!Ids = 1..N
    BY JudgementsAssumption DEF JudgementsAssumption, Dsc!Ids
  <1> SUFFICES ASSUME next = N + 2, NEW i \in Dsc!Ids
               PROVE  /\ Dsc!Listed(i) => Dsc!Accounted(i)
                      /\ Dsc!Notable(i) => \/ Dsc!Accounted(i) \/ Dsc!StoodFor(i) \/ Dsc!Silenced(i)
                                           \/ i \notin Dsc!Candidates /\ cut
    BY DEF DiscoveryInv, Dsc!NothingDropsSilently
  <1>1. CASE i \in Dsc!Candidates
    <2>1. Decided(i)
      <3>1. i < next
        BY <1>0
      <3> QED
        BY <1>1, <3>1 DEF DiscoveryInv, ScanIsDecided
    <2>2. CASE i \in fleet
      BY <2>2 DEF Dsc!Accounted
    <2>3. CASE i \in Dsc!RedundantClones
      <3>1. ~Dsc!Listed(i)
        BY <2>3 DEF Dsc!RedundantClones
      <3>2. CASE Dsc!Admitted(Dsc!Keeper)
        <4>1. Dsc!StoodFor(i)
          BY <2>3, <3>2, CloneIsStoodFor DEF Dsc!StoodFor
        <4> QED
          BY <3>1, <4>1
      <3>3. CASE ~Dsc!Admitted(Dsc!Keeper)
        <4>1. i \in Dsc!Clones /\ Dsc!SameRepository(i, i)
          BY <2>3, CloneIsStoodFor DEF Dsc!SameRepository, Dsc!Clones
        <4>2. Dsc!Silenced(i)
          BY <3>3, <4>1 DEF Dsc!Silenced
        <4> QED
          BY <3>1, <4>2
      <3> QED
        BY <3>2, <3>3
    <2>4. CASE Dsc!DuplicateCheckout(i)
      <3>1. ~Dsc!Listed(i)
        BY <2>4 DEF Dsc!DuplicateCheckout
      <3> QED
        BY <1>1, <2>4, <3>1, WhoseRepository
    <2>5. CASE ~Dsc!Admitted(i) /\ (Dsc!UnresolvedWarning(i) => i \in warned)
      <3>1. CASE Dsc!UnresolvedWarning(i)
        BY <2>5, <3>1 DEF Dsc!Accounted
      <3>2. CASE ~Dsc!UnresolvedWarning(i)
        <4>1. disk[i].config # "refused" /\ (Dsc!SiblingCheckout(i) \/ (~Dsc!Listed(i) /\ disk[i].config # "broken"))
          BY <3>2 DEF Dsc!UnresolvedWarning
        <4>2. ~Dsc!Listed(i)
          BY <4>1 DEF Dsc!SiblingCheckout
        <4>3. Dsc!Notable(i) => Dsc!Silenced(i)
          BY <2>5, <4>1, <4>2 DEF Dsc!Notable, Dsc!Silenced
        <4> QED
          BY <4>2, <4>3
      <3> QED
        BY <3>1, <3>2
    <2> QED
      BY <2>1, <2>2, <2>3, <2>4, <2>5 DEF Decided
  <1>2. CASE i \notin Dsc!Candidates
    <2>1. disk[i].place = "nested" /\ ~Dsc!Listed(i)
      BY <1>2 DEF Dsc!Candidates, Dsc!Listed
    <2> SUFFICES ASSUME Dsc!Notable(i), ~Dsc!Silenced(i), ~cut, i \notin warned PROVE Dsc!StoodFor(i)
      BY <1>2, <2>1 DEF Dsc!Accounted
    <2>2. i \in Dsc!Nested
      BY <1>2, <2>1 DEF Dsc!Notable, Dsc!Silenced, Dsc!Nested, Dsc!IsProjectDir, Dsc!Admitted
    <2>3. Dsc!WorktreeOf(i)
      BY <2>2 DEF DiscoveryInv, NestedIsTold
    <2>4. PICK j \in fleet : disk[j].git # "none" /\ Dsc!Common(j) = Dsc!Common(i)
      BY <2>3 DEF Dsc!WorktreeOf, Dsc!Repos
    <2>5. j \in Dsc!Ids /\ Dsc!Accounted(j) /\ Dsc!SameRepository(i, j)
      BY <2>3, <2>4 DEF DiscoveryInv, FleetIsGoverned, Dsc!Candidates, Dsc!Accounted, Dsc!SameRepository,
                        Dsc!WorktreeOf, Dsc!Linked
    <2> QED
      BY <2>5 DEF Dsc!StoodFor
  <1> QED
    BY <1>1, <1>2

-----------------------------------------------------------------------------
(* FleetTests: each row says what its repository's tests did, and the exit *)
(* code is taken from all of them at the end.                              *)

TestsGiven ==
  /\ repo \in [Suites -> Tst!RepoKinds] /\ scanned \in BOOLEAN
  /\ admitted \subseteq Suites /\ listed \subseteq Suites
  /\ asked \in {{}} \cup {{r} : r \in Suites}
RowsTell == /\ DOMAIN rows \subseteq Tst!Selected
            /\ \A r \in DOMAIN rows : rows[r] = Tst!RunRepo(r)
TestsInv == TestsGiven /\ RowsTell /\ Tst!RedIsNeverGreen

\* A repository is green exactly when its row passes, and only an ungoverned one is skipped.
LEMMA RunRepoTells ==
  ASSUME TestsGiven, NEW r \in Suites
  PROVE  /\ Tst!RunRepo(r) = "pass" <=> Tst!Green(r)
         /\ Tst!RunRepo(r) \in {"pass", "fail", "skip"}
         /\ Tst!RunRepo(r) = "skip" => ~repo[r].governed
  <1> DEFINE s == repo[r]
  <1>1. /\ s.governed \in BOOLEAN /\ s.justfile \in BOOLEAN
        /\ s.summary \in {"timed out", "could not start", "exited 1", "no test recipe", "test"}
        /\ ~s.justfile => s.summary = "no test recipe"
    <2>1. repo[r] \in Tst!RepoKinds
      BY DEF TestsGiven
    <2> QED
      BY <2>1 DEF Tst!RepoKinds, Tst!Summaries
  <1>2. s.run.counted \subseteq {0} <=> \A n \in s.run.counted : n = 0
    OBVIOUS
  <1>3. /\ Tst!Verdict(s.run) = "pass" <=> s.run.ended = "exited 0" /\ \A n \in s.run.counted : n = 0
        /\ Tst!Verdict(s.run) \in {"pass", "fail"}
    BY DEF Tst!Verdict
  <1>4. /\ Tst!NoGate(r) \in {"fail", "skip"} /\ (Tst!NoGate(r) = "skip" => ~s.governed)
    BY DEF Tst!NoGate
  <1>5. CASE ~s.justfile \/ s.summary = "no test recipe"
    <2>1. Tst!Preflight(r) = Tst!NoGate(r)
      BY <1>1, <1>5 DEF Tst!Preflight
    <2> QED
      BY <1>1, <1>4, <1>5, <2>1 DEF Tst!RunRepo, Tst!Green
  <1>6. CASE s.justfile /\ s.summary = "test"
    <2>1. Tst!Preflight(r) = "run"
      BY <1>6 DEF Tst!Preflight
    <2> QED
      BY <1>2, <1>3, <1>6, <2>1 DEF Tst!RunRepo, Tst!Green
  <1>7. CASE s.justfile /\ s.summary \in {"timed out", "could not start", "exited 1"}
    <2>1. Tst!Preflight(r) = "fail"
      BY <1>7 DEF Tst!Preflight
    <2> QED
      BY <1>7, <2>1 DEF Tst!RunRepo, Tst!Green
  <1> QED
    BY <1>1, <1>5, <1>6, <1>7

\* At the start there is no row and no exit code.
LEMMA TestsInit == Tst!Init => TestsInv
  <1> SUFFICES ASSUME Tst!Init PROVE TestsInv
    OBVIOUS
  <1>1. DOMAIN rows = {}
    BY DEF Tst!Init
  <1> QED
    BY <1>1 DEF Tst!Init, Tst!Pending, TestsInv, TestsGiven, RowsTell, Tst!RedIsNeverGreen

\* A row more, or the exit code.
LEMMA TestsStep ==
  ASSUME TestsInv, [Tst!Next]_(Tst!vars)
  PROVE  TestsInv'
  <1>0. \A r \in Suites : /\ Tst!RunRepo(r) = "pass" <=> Tst!Green(r)
                          /\ Tst!RunRepo(r) \in {"pass", "fail", "skip"}
                          /\ Tst!RunRepo(r) = "skip" => ~repo[r].governed
    BY RunRepoTells DEF TestsInv
  <1>1. /\ UNCHANGED <<repo, admitted, scanned, listed, asked>>
    BY DEF Tst!Next, Tst!NothingSelected, Tst!RunOne, Tst!Finish, Tst!vars, Tst!given
  <1>2. TestsGiven' /\ Tst!Selected' = Tst!Selected
    BY <1>1 DEF TestsInv, TestsGiven, Tst!Selected
  <1>3. \A r : Tst!RunRepo(r)' = Tst!RunRepo(r) /\ Tst!Green(r)' = Tst!Green(r)
    BY <1>1 DEF Tst!RunRepo, Tst!Preflight, Tst!NoGate, Tst!Verdict, Tst!Green
  <1>4. CASE Tst!NothingSelected
    <2>1. UNCHANGED rows /\ testExit' = 2
      BY <1>4 DEF Tst!NothingSelected
    <2> QED
      BY <1>2, <1>3, <2>1 DEF TestsInv, RowsTell, Tst!RedIsNeverGreen
  <1>5. ASSUME NEW r \in Suites, Tst!RunOne(r) PROVE TestsInv'
    <2>1. /\ testExit = 3 /\ UNCHANGED testExit /\ r \in Tst!Selected
          /\ rows' = [q \in DOMAIN rows \cup {r} |-> IF q = r THEN Tst!RunRepo(r) ELSE rows[q]]
      BY <1>5 DEF Tst!RunOne, Tst!Pending
    <2>2. DOMAIN rows' \subseteq Tst!Selected /\ \A q \in DOMAIN rows' : rows'[q] = Tst!RunRepo(q)
      BY <2>1 DEF TestsInv, RowsTell
    <2>3. RowsTell'
      BY <1>2, <1>3, <2>2 DEF RowsTell
    <2> QED
      BY <1>2, <2>1, <2>3 DEF TestsInv, Tst!RedIsNeverGreen
  <1>6. CASE Tst!Finish
    <2>1. /\ Tst!Selected # {} /\ DOMAIN rows = Tst!Selected /\ UNCHANGED rows
          /\ testExit' = IF Tst!FleetTestExit = 1 \/ (asked = {} /\ (Tst!Unscanned \/ Tst!Dropped # {})) THEN 1 ELSE 0
      BY <1>6 DEF Tst!Finish
    <2>2. Tst!Selected \subseteq Suites /\ Tst!Selected \subseteq admitted
      BY DEF Tst!Selected, TestsInv, TestsGiven
    <2>3. Tst!FleetTestExit = 1 <=> \E r \in Tst!Selected : Tst!RunRepo(r) = "fail"
      BY <2>1 DEF Tst!FleetTestExit, TestsInv, RowsTell
    <2>4. asked = {} => (Tst!Unscanned \/ Tst!Dropped # {} <=> ~scanned \/ ~(listed \subseteq admitted))
      BY DEF Tst!Unscanned, Tst!Dropped
    <2>5. ASSUME testExit' = 1
          PROVE  \/ \E r \in Tst!Selected : ~Tst!Green(r)
                 \/ asked = {} /\ (~scanned \/ ~(listed \subseteq admitted))
      <3>1. CASE Tst!FleetTestExit = 1
        BY <1>0, <2>2, <2>3, <3>1
      <3>2. CASE Tst!FleetTestExit # 1
        BY <2>1, <2>4, <2>5, <3>2
      <3> QED
        BY <3>1, <3>2
    <2>6. ASSUME testExit' = 0
          PROVE  /\ \E r \in admitted : asked \subseteq {r}
                 /\ asked \subseteq admitted
                 /\ asked = {} => scanned /\ listed \subseteq admitted
                 /\ \A r \in IF asked = {} THEN admitted \cup listed ELSE asked :
                      Tst!Green(r) \/ (~repo[r].governed /\ rows[r] = "skip")
      <3>1. Tst!FleetTestExit # 1 /\ (asked = {} => scanned /\ listed \subseteq admitted)
        BY <2>1, <2>4, <2>6
      <3>2. PICK r \in Tst!Selected : TRUE
        BY <2>1
      <3>3. asked \subseteq admitted /\ \E q \in admitted : asked \subseteq {q}
        BY <3>2 DEF Tst!Selected, TestsInv, TestsGiven
      <3>4. (IF asked = {} THEN admitted \cup listed ELSE asked) \subseteq Tst!Selected
        BY <3>1, <3>3 DEF Tst!Selected
      <3>5. \A q \in Tst!Selected : Tst!Green(q) \/ (~repo[q].governed /\ rows[q] = "skip")
        BY <1>0, <2>1, <2>2, <2>3, <3>1 DEF TestsInv, RowsTell
      <3> QED
        BY <3>1, <3>3, <3>4, <3>5
    <2>7. Tst!RedIsNeverGreen'
      BY <1>1, <1>2, <1>3, <2>1, <2>5, <2>6 DEF Tst!RedIsNeverGreen
    <2>8. RowsTell'
      BY <1>2, <1>3, <2>1 DEF TestsInv, RowsTell
    <2> QED
      BY <1>2, <2>7, <2>8 DEF TestsInv
  <1>7. CASE UNCHANGED Tst!vars
    <2>1. UNCHANGED rows /\ UNCHANGED testExit
      BY <1>7 DEF Tst!vars
    <2>2. RowsTell'
      BY <1>2, <1>3, <2>1 DEF TestsInv, RowsTell
    <2>3. Tst!RedIsNeverGreen'
      BY <1>1, <1>2, <1>3, <2>1 DEF TestsInv, Tst!RedIsNeverGreen
    <2> QED
      BY <1>2, <2>2, <2>3 DEF TestsInv
  <1> QED
    BY <1>4, <1>5, <1>6, <1>7 DEF Tst!Next

-----------------------------------------------------------------------------
(* Estate: the keys of the fleet's projects decide what is governed.       *)

EstateGiven ==
  /\ environ \in [override : BOOLEAN, account : BOOLEAN, tools : BOOLEAN]
  /\ narrow \subseteq estate /\ estate \subseteq Est!Resources /\ projects \subseteq Est!Projects
EstateInv == EstateGiven /\ Est!OrphansAreTold

\* A resource is accounted for when a project has its name, or declares it as its app there.
LEMMA AccountedIsGoverned ==
  ASSUME EstateGiven, NEW resources, resources \subseteq Est!Resources
  PROVE  {r \in resources : ~Est!IsAccounted(r)} = Est!Ungoverned(resources)
  <1>0. Est!NoRegion \notin Names /\ Est!NoApp = Est!NoRegion
    BY JudgementsAssumption DEF JudgementsAssumption, Est!EstateAssumption, Est!NoApp, Est!NoRegion
  <1>1. ASSUME NEW r \in resources
        PROVE  Est!IsAccounted(r) <=>
                 \E p \in projects : p.name = r.name \/ (p.app = r.name /\ p.region \in {Est!NoRegion, r.location})
    <2>1. r.name \in Names /\ r.name # Est!NoApp
      BY <1>0 DEF Est!Resources
    <2>2. \A k : k \in Est!AccountedKeys <=>
            \/ \E p \in projects : k = <<p.name, Est!NoRegion>>
            \/ \E p \in projects : p.app # Est!NoApp /\ k = <<p.app, p.region>>
      BY DEF Est!AccountedKeys
    <2>3. Est!IsAccounted(r) <=> \/ <<r.name, Est!NoRegion>> \in Est!AccountedKeys
                                 \/ <<r.name, r.location>> \in Est!AccountedKeys
      BY DEF Est!IsAccounted
    <2>4. <<r.name, Est!NoRegion>> \in Est!AccountedKeys <=>
            \E p \in projects : p.name = r.name \/ (p.app = r.name /\ p.region = Est!NoRegion)
      BY <2>1, <2>2
    <2>5. <<r.name, r.location>> \in Est!AccountedKeys <=>
            \E p \in projects : \/ p.name = r.name /\ r.location = Est!NoRegion
                                \/ p.app = r.name /\ p.region = r.location
      BY <2>1, <2>2
    <2> QED
      BY <2>3, <2>4, <2>5
  <1> QED
    BY <1>1 DEF Est!Ungoverned

LEMMA EstateInit == Est!Init => EstateInv
  BY DEF Est!Init, EstateInv, EstateGiven, Est!OrphansAreTold, Est!Estates, Est!Fleets

LEMMA EstateStep ==
  ASSUME EstateInv, [Est!Next]_(Est!vars)
  PROVE  EstateInv'
  <1>1. UNCHANGED <<scoped, environ, estate, narrow, broken, projects>>
    BY DEF Est!Next, Est!vars, Est!situation
  <1>2. EstateGiven'
    BY <1>1 DEF EstateInv, EstateGiven
  <1>3. CASE Est!Refuse
    <2>1. report' = "refused" /\ code' = 2
      BY <1>3 DEF Est!Refuse, Est!Says
    <2>2. Est!OrphansAreTold'
      BY <2>1 DEF Est!OrphansAreTold
    <2> QED
      BY <1>2, <2>2 DEF EstateInv
  <1>4. CASE Est!Unknown
    <2>1. report' = "unknown" /\ code' = 1
      BY <1>4 DEF Est!Unknown, Est!Says
    <2>2. Est!OrphansAreTold'
      BY <2>1 DEF Est!OrphansAreTold
    <2> QED
      BY <1>2, <2>2 DEF EstateInv
  <1>5. CASE Est!FindOrphans
    <2>1. PICK resources \in Est!SearchResources :
            scoped /\ report' = "listed" /\ orphans' = {r \in resources : ~Est!IsAccounted(r)} /\ code' = 0
      BY <1>5 DEF Est!FindOrphans, Est!Says
    <2>2. /\ broken = ""
          /\ environ.tools \/ environ.override
          /\ resources = IF environ.override THEN narrow ELSE estate
      BY <2>1 DEF Est!SearchResources, Est!Listings, Est!GcloudEnv, Est!GcloudConfigDir
    <2>3. resources \subseteq Est!Resources
      BY <2>2 DEF EstateInv, EstateGiven
    <2>4. orphans' = Est!Ungoverned(resources)
      BY <2>1, <2>3, AccountedIsGoverned DEF EstateInv
    <2>5. Est!OrphansAreTold'
      <3>1. /\ report' = "listed" /\ code' = 0 /\ scoped' /\ broken' = ""
            /\ environ'.tools \/ environ'.override
        <4>1. scoped'
          BY <1>1, <2>1, Zenon
        <4>2. environ' = environ /\ broken' = broken
          BY <1>1
        <4> QED
          BY <2>1, <2>2, <4>1, <4>2
      <3>2. orphans' = Est!Ungoverned(IF environ.override THEN narrow ELSE estate)'
        <4>1. CASE environ.override
          BY <1>1, <2>2, <2>4, <4>1 DEF Est!Ungoverned
        <4>2. CASE ~environ.override
          BY <1>1, <2>2, <2>4, <4>2 DEF Est!Ungoverned
        <4> QED
          BY <4>1, <4>2
      <3> QED
        BY <3>1, <3>2 DEF Est!OrphansAreTold
    <2> QED
      BY <1>2, <2>5 DEF EstateInv
  <1>6. CASE UNCHANGED Est!vars
    BY <1>1, <1>2, <1>6 DEF Est!vars, EstateInv, Est!OrphansAreTold, Est!Ungoverned
  <1> QED
    BY <1>3, <1>4, <1>5, <1>6 DEF Est!Next

-----------------------------------------------------------------------------
(* Meter: the newest price in reach, and its sum. *)

MeterInv == logs \in [MeteredRuns -> Mtr!Logs] /\ Mtr!TotalIsHonest

\* The price of a log's last result, when it begins in the last limit bytes.
Newest(entries, limit) ==
  {usd \in 0..1 : \E i \in DOMAIN entries :
     /\ entries[i].kind = "result" /\ entries[i].usd = usd /\ entries[i].from <= limit
     /\ \A j \in DOMAIN entries : j > i => entries[j].kind # "result"}

\* A log's pieces begin one after the other.
LEMMA LogsAre ==
  ASSUME NEW entries \in Mtr!Logs
  PROVE  /\ entries \in Seq(Mtr!Piece) /\ DOMAIN entries = 1..Len(entries) /\ Len(entries) \in Nat
         /\ \A i \in DOMAIN entries : /\ entries[i].kind \in {"result", "other"} /\ entries[i].usd \in 0..1
                                      /\ entries[i].from \in Nat
         /\ \A i, j \in DOMAIN entries : i < j => entries[i].from > entries[j].from
  <1>1. PICK n \in 0..MaxPieces : entries \in [1..n -> Mtr!Piece]
    BY DEF Mtr!Logs
  <1>2. entries \in Seq(Mtr!Piece)
    BY <1>1
  <1>3. \A x \in Mtr!Piece : x.kind \in {"result", "other"} /\ x.usd \in 0..1 /\ x.from \in Nat
    <2>1. MaxSize \in Nat
      BY JudgementsAssumption DEF JudgementsAssumption, Mtr!MeterAssumption
    <2> QED
      BY <2>1 DEF Mtr!Piece
  <1>4. \A i, j \in DOMAIN entries : i < j => entries[i].from > entries[j].from
    BY DEF Mtr!Logs
  <1> HIDE DEF Mtr!Piece
  <1> QED
    BY <1>1, <1>2, <1>3, <1>4

\* What lies after a result within reach is within reach too.
LEMMA ScanIsNewest ==
  ASSUME NEW entries \in Mtr!Logs, NEW limit \in Nat
  PROVE  Mtr!Scan(entries, Mtr!Window(entries, limit)) = Newest(entries, limit)
  <1> DEFINE priced == {i \in Mtr!Window(entries, limit) : Mtr!FromPayload(entries[i]) # {}}
             last   == {i \in priced : \A k \in priced : k <= i}
  <1>1. /\ DOMAIN entries = 1..Len(entries) /\ Len(entries) \in Nat
        /\ \A i \in DOMAIN entries : entries[i].usd \in 0..1 /\ entries[i].from \in Nat
        /\ \A i, j \in DOMAIN entries : i < j => entries[i].from > entries[j].from
    BY LogsAre
  <1>2. \A i : i \in priced <=> i \in DOMAIN entries /\ entries[i].from <= limit /\ entries[i].kind = "result"
    BY DEF Mtr!Window, Mtr!FromPayload
  <1>3. Mtr!Scan(entries, Mtr!Window(entries, limit)) = UNION {Mtr!FromPayload(entries[i]) : i \in last}
    BY DEF Mtr!Scan
  <1> HIDE DEF priced
  <1>4. ASSUME NEW i \in DOMAIN entries
        PROVE  i \in last <=> /\ entries[i].kind = "result" /\ entries[i].from <= limit
                              /\ \A j \in DOMAIN entries : j > i => entries[j].kind # "result"
    <2>1. ASSUME i \in last, NEW j \in DOMAIN entries, j > i, entries[j].kind = "result" PROVE FALSE
      <3>1. entries[i].from <= limit /\ entries[i].from > entries[j].from
        BY <1>1, <1>2, <2>1
      <3>2. j \in priced
        BY <1>1, <1>2, <2>1, <3>1
      <3> QED
        BY <1>1, <2>1, <3>2
    <2>2. ASSUME entries[i].kind = "result", entries[i].from <= limit,
                 \A j \in DOMAIN entries : j > i => entries[j].kind # "result"
          PROVE  i \in last
      BY <1>1, <1>2, <2>2
    <2> QED
      BY <1>2, <2>1, <2>2
  <1>5. last \subseteq DOMAIN entries /\ \A i \in last : Mtr!FromPayload(entries[i]) = {entries[i].usd}
    BY <1>2 DEF Mtr!FromPayload
  <1> HIDE DEF last
  <1>6. \A usd : usd \in Newest(entries, limit) <=> \E i \in last : usd = entries[i].usd
    BY <1>1, <1>4, <1>5 DEF Newest
  <1>7. \A usd : usd \in UNION {Mtr!FromPayload(entries[i]) : i \in last} <=> \E i \in last : usd = entries[i].usd
    BY <1>5
  <1> QED
    BY <1>3, <1>6, <1>7

\* The second window is read only for what the first one does not hold.
LEMMA ParsedIsStated ==
  ASSUME logs \in [MeteredRuns -> Mtr!Logs], NEW r \in MeteredRuns
  PROVE  Mtr!ParseLog(r) = IF r \in unreadable THEN {} ELSE Mtr!Stated(r)
  <1> DEFINE entries == logs[r]
             near    == Mtr!Scan(entries, Mtr!Window(entries, TailBytes))
  <1>0. TailBytes \in Nat /\ MaxBytes \in Nat /\ TailBytes < MaxBytes
    BY JudgementsAssumption DEF JudgementsAssumption, Mtr!MeterAssumption
  <1>1. /\ entries \in Mtr!Logs /\ DOMAIN entries = 1..Len(entries) /\ Len(entries) \in Nat
        /\ \A i \in DOMAIN entries : entries[i].from \in Nat
        /\ \A i, j \in DOMAIN entries : i < j => entries[i].from > entries[j].from
    BY LogsAre
  <1>2. Mtr!Stated(r) = Newest(entries, MaxBytes)
    <2>1. \A i, j : i \in DOMAIN entries => (j \in i + 1..Len(entries) <=> j \in DOMAIN entries /\ j > i)
      BY <1>1
    <2> QED
      BY <2>1 DEF Mtr!Stated, Newest
  <1>3. near = Newest(entries, TailBytes) /\ Mtr!Scan(entries, Mtr!Window(entries, MaxBytes)) = Newest(entries, MaxBytes)
    BY <1>0, <1>1, ScanIsNewest
  <1>a. Mtr!Size(entries) \in Nat
    <2>1. entries \in Seq(Mtr!Piece)
      BY <1>1, LogsAre
    <2>2. entries # <<>> => 1 \in DOMAIN entries
      BY <1>1, <2>1
    <2> QED
      BY <1>1, <2>2 DEF Mtr!Size
  <1> HIDE DEF entries, near
  <1>4. CASE r \in unreadable
    BY <1>4 DEF Mtr!ParseLog
  <1>5. CASE r \notin unreadable /\ (near # {} \/ Mtr!Size(entries) <= TailBytes)
    <2>1. Mtr!ParseLog(r) = near
      <3>1. ~(near = {} /\ Mtr!Size(entries) > TailBytes)
        BY <1>0, <1>5, <1>a
      <3> QED
        BY <1>5, <3>1 DEF Mtr!ParseLog, entries, near
    <2>2. Newest(entries, TailBytes) = Newest(entries, MaxBytes)
      <3>1. \A usd \in Newest(entries, TailBytes) : usd \in Newest(entries, MaxBytes)
        BY <1>0, <1>1 DEF Newest
      <3>2. ASSUME NEW usd \in Newest(entries, MaxBytes) PROVE usd \in Newest(entries, TailBytes)
        <4>1. usd \in 0..1
          BY <3>2 DEF Newest
        <4>2. PICK i \in DOMAIN entries :
                 /\ entries[i].kind = "result" /\ entries[i].usd = usd /\ entries[i].from <= MaxBytes
                 /\ \A j \in DOMAIN entries : j > i => entries[j].kind # "result"
          BY <3>2 DEF Newest
        <4>3. entries[i].from <= TailBytes
          <5>1. CASE Mtr!Size(entries) <= TailBytes
            <6>1. 1 \in DOMAIN entries /\ entries # <<>> /\ i \in Nat /\ 1 <= i
              BY <1>1, <4>2
            <6>2. entries[1].from <= TailBytes
              BY <5>1, <6>1 DEF Mtr!Size
            <6>3. i = 1 \/ 1 < i
              BY <6>1
            <6> QED
              BY <1>0, <1>1, <4>2, <6>1, <6>2, <6>3
          <5>2. CASE near # {}
            <6>1. PICK known \in Newest(entries, TailBytes) : TRUE
              BY <1>3, <5>2
            <6>2. PICK j \in DOMAIN entries :
                    /\ entries[j].kind = "result" /\ entries[j].from <= TailBytes
                    /\ \A k \in DOMAIN entries : k > j => entries[k].kind # "result"
              BY <6>1 DEF Newest
            <6>3. ~(j > i) /\ ~(i > j)
              BY <4>2, <6>2
            <6>4. i = j
              BY <1>1, <4>2, <6>2, <6>3
            <6> QED
              BY <6>2, <6>4
          <5> QED
            BY <1>5, <5>1, <5>2
        <4> QED
          BY <4>1, <4>2, <4>3 DEF Newest
      <3> QED
        BY <3>1, <3>2 DEF Newest
    <2> QED
      BY <1>2, <1>3, <1>5, <2>1, <2>2
  <1>6. CASE r \notin unreadable /\ near = {} /\ ~(Mtr!Size(entries) <= TailBytes)
    <2>1. Mtr!Size(entries) > TailBytes
      BY <1>0, <1>6, <1>a
    <2>2. Mtr!ParseLog(r) = Mtr!Scan(entries, Mtr!Window(entries, MaxBytes))
      BY <1>6, <2>1 DEF Mtr!ParseLog, entries, near
    <2> QED
      BY <1>2, <1>3, <1>6, <2>2
  <1> QED
    BY <1>4, <1>5, <1>6

LEMMA MeterInit == Mtr!Init => MeterInv
  BY DEF Mtr!Init, MeterInv, Mtr!TotalIsHonest

LEMMA MeterStep ==
  ASSUME MeterInv, [Mtr!Next]_(Mtr!vars)
  PROVE  MeterInv'
  <1>1. UNCHANGED <<logs, unreadable, killed>>
    BY DEF Mtr!Next, Mtr!List, Mtr!vars, Mtr!given
  <1>2. (logs \in [MeteredRuns -> Mtr!Logs])'
    BY <1>1 DEF MeterInv
  <1>3. CASE Mtr!List
    <2> DEFINE metered == {r \in MeteredRuns : Mtr!Cost(r) # {}}
    <2>1. \A r \in MeteredRuns : Mtr!Cost(r) = IF r \in killed \cup unreadable THEN {} ELSE Mtr!Stated(r)
      BY ParsedIsStated DEF MeterInv, Mtr!Cost
    <2>2. metered = Mtr!Known
      BY <2>1 DEF Mtr!Known
    <2>3. {r \in metered : 1 \in Mtr!Cost(r)} = {r \in Mtr!Known : 1 \in Mtr!Stated(r)}
      BY <2>1, <2>2
    <2>4. total' = Mtr!Total
      BY <1>3 DEF Mtr!List
    <2>5. Mtr!Total = [usd |-> Mtr!Cardinality({r \in metered : 1 \in Mtr!Cost(r)}),
                       metered |-> Mtr!Cardinality(metered), unmetered |-> Mtr!Cardinality(MeteredRuns \ metered)]
      BY DEF Mtr!Total
    <2> HIDE DEF metered
    <2>6. /\ total'.unmetered = Mtr!Cardinality(MeteredRuns \ Mtr!Known) /\ total'.metered = Mtr!Cardinality(Mtr!Known)
          /\ total'.usd = Mtr!Cardinality({r \in Mtr!Known : 1 \in Mtr!Stated(r)})
      BY <2>2, <2>3, <2>4, <2>5
    <2>7. Mtr!Known' = Mtr!Known /\ \A r \in MeteredRuns : Mtr!Stated(r)' = Mtr!Stated(r)
      BY <1>1 DEF Mtr!Known, Mtr!Stated
    <2>8. {r \in Mtr!Known' : 1 \in Mtr!Stated(r)'} = {r \in Mtr!Known : 1 \in Mtr!Stated(r)}
      BY <2>7 DEF Mtr!Known
    <2>9. Mtr!TotalIsHonest'
      BY <2>6, <2>7, <2>8 DEF Mtr!TotalIsHonest
    <2> QED
      BY <1>2, <2>9 DEF MeterInv
  <1>4. CASE UNCHANGED Mtr!vars
    BY <1>1, <1>2, <1>4 DEF Mtr!vars, MeterInv, Mtr!TotalIsHonest, Mtr!Known, Mtr!Stated
  <1> QED
    BY <1>3, <1>4 DEF Mtr!Next

-----------------------------------------------------------------------------
(* Probes: each platform's words for a run, one source at a time. *)

ProbesGiven ==
  /\ query \in {"ci", "ci done", "cloud-status", "cloud-status done"}
  /\ source \in Prb!Sources /\ run \in Prb!Runs /\ open \in Nat
  /\ field \in {"", "status", "conclusion"}
  /\ service \in Prb!Services
  /\ health \in {"", "ok", "error", "refused", "redirected away", "down"}
  /\ service.target = "none" => health = ""
  /\ query \in {"ci", "ci done"} => cloud = "none"
  /\ query \in {"cloud-status", "cloud-status done"} => ci = "none"
ProbesInv == ProbesGiven /\ Prb!ProbesAreTrue

\* The outcome in a platform's word.
WordIs(word) ==
  /\ word = "success" <=> run = "good"
  /\ word = "failure" <=> run = "bad"
  /\ word \in {"null", "running"} <=> run = "running"

LEMMA WordsAre ==
  ASSUME run \in Prb!Runs \ {"none"}
  PROVE  /\ WordIs(Prb!Word[run]) /\ WordIs(Prb!Outcome)
         /\ Prb!Word[run] # "completed" /\ Prb!Outcome # "completed"
  BY DEF Prb!Runs, Prb!Word, Prb!Outcome, WordIs

\* What a status URL is read at says nothing of a run, or what it says is so.
LEMMA RawStatusIs ==
  ASSUME ProbesGiven, source \in Prb!Urls
  PROVE  /\ Prb!RawStatus = "success" => run = "good"
         /\ Prb!RawStatus = "failure" => run = "bad"
         /\ Prb!RawStatus \in {"null", "running"} => run = "running"
         /\ run # "none" /\ source # "list" /\ Prb!ReadsOutcome => WordIs(Prb!RawStatus)
  <1> DEFINE keys == IF field = "" THEN Prb!StatusKeys ELSE <<field>>
             read == {i \in DOMAIN keys : Prb!Has(keys[i])}
             raw  == Prb!RawStatus
  <1>0. run \in Prb!Runs /\ field \in {"", "status", "conclusion"}
    BY DEF ProbesGiven
  <1>1. /\ field = "" => /\ DOMAIN keys = {1, 2, 3, 4}
                         /\ keys[1] = "result" /\ keys[2] = "conclusion" /\ keys[3] = "status" /\ keys[4] = "state"
        /\ field # "" => DOMAIN keys = {1} /\ keys[1] = field
    <2>1. CASE field = ""
      <3>1. keys = <<"result", "conclusion", "status", "state">>
        BY <2>1 DEF Prb!StatusKeys
      <3> HIDE DEF keys
      <3>2. Len(keys) = 4 /\ DOMAIN keys = 1..4
        BY <3>1
      <3>3. 1..4 = {1, 2, 3, 4}
        OBVIOUS
      <3> QED
        BY <2>1, <3>1, <3>2, <3>3
    <2>2. CASE field # ""
      <3>1. keys = <<field>>
        BY <2>2
      <3> HIDE DEF keys
      <3>2. DOMAIN keys = 1..1
        BY <3>1
      <3>3. 1..1 = {1}
        OBVIOUS
      <3> QED
        BY <2>2, <3>1, <3>2, <3>3
    <2> QED
      BY <2>1, <2>2
  <1>2. raw = IF read = {} THEN "missing" ELSE Prb!Payload[keys[CHOOSE i \in read : \A j \in read : i <= j]]
    BY DEF Prb!RawStatus
  <1>a. read \subseteq DOMAIN keys /\ DOMAIN keys \subseteq {1, 2, 3, 4}
    BY <1>1
  <1>b. \A j \in {1, 2, 3, 4} : /\ 1 <= j /\ (j # 1 => 2 <= j)
                                /\ (j \notin {1, 2} => 3 <= j) /\ (j \notin {1, 2, 3} => 4 <= j)
    OBVIOUS
  <1> HIDE DEF keys, read, raw
  <1>3. ASSUME NEW i \in read, \A j \in read : i <= j PROVE raw = Prb!Payload[keys[i]]
    <2>1. read \subseteq Nat
      BY <1>a
    <2>2. (CHOOSE k \in read : \A j \in read : k <= j) = i
      <3> DEFINE least == CHOOSE k \in read : \A j \in read : k <= j
      <3>1. least \in read /\ \A j \in read : least <= j
        BY <1>3, Zenon
      <3> HIDE DEF least
      <3>2. least <= i /\ i <= least /\ least \in Nat /\ i \in Nat
        BY <1>3, <2>1, <3>1
      <3>3. least = i
        BY <3>2
      <3> QED
        BY <3>3 DEF least
    <2> QED
      BY <1>2, <1>3, <2>2
  <1>4. CASE run = "none" \/ source = "list"
    <2>1. DOMAIN Prb!Payload = {}
      BY <1>4 DEF Prb!Payload
    <2>2. read = {}
      BY <2>1 DEF read, Prb!Has
    <2>3. raw = "missing"
      BY <1>2, <2>2
    <2> QED
      BY <1>4, <2>3 DEF raw
  <1>5. CASE run # "none" /\ source = "jenkins"
    <2>1. Prb!Payload = [result |-> Prb!Outcome]
      BY <1>5 DEF Prb!Payload
    <2>2. \A i \in DOMAIN keys : i \in read <=> keys[i] = "result"
      BY <2>1 DEF read, Prb!Has
    <2>3. CASE field = ""
      <3>1. 1 \in read /\ \A j \in read : 1 <= j
        <4>1. 1 \in read
          BY <1>0, <1>1, <2>2, <2>3
        <4>2. \A j \in read : j \in {1, 2, 3, 4} /\ j \notin {}
          BY <1>0, <1>1, <1>a, <2>2, <2>3
        <4> QED
          BY <1>b, <4>1, <4>2
      <3>2. raw = Prb!Outcome
        <4>1. raw = Prb!Payload[keys[1]] /\ keys[1] = "result"
          BY <1>1, <1>3, <2>3, <3>1
        <4>2. Prb!Payload["result"] = Prb!Outcome
          BY <2>1
        <4> QED
          BY <4>1, <4>2
      <3> QED
        BY <1>0, <1>5, <3>2, WordsAre DEF WordIs, raw
    <2>4. CASE field # ""
      <3>1. read = {}
        BY <1>0, <1>1, <1>a, <2>2, <2>4
      <3>2. raw = "missing" /\ ~Prb!ReadsOutcome
        BY <1>2, <1>5, <2>4, <3>1 DEF Prb!ReadsOutcome, Prb!Urls
      <3> QED
        BY <3>2 DEF raw
    <2> QED
      BY <2>3, <2>4
  <1>6. CASE run # "none" /\ source = "hub-shaped"
    <2>1. Prb!Payload = [status |-> IF run = "running" THEN "running" ELSE "completed", conclusion |-> Prb!Outcome]
      BY <1>6 DEF Prb!Payload
    <2>2. \A i \in DOMAIN keys : i \in read <=> keys[i] \in {"status", "conclusion"}
      BY <2>1 DEF read, Prb!Has
    <2>3. CASE field = ""
      <3>1. 2 \in read /\ \A j \in read : 2 <= j
        <4>1. 2 \in read
          BY <1>0, <1>1, <2>2, <2>3
        <4>2. \A j \in read : j \in {1, 2, 3, 4} /\ j \notin {1}
          BY <1>0, <1>1, <1>a, <2>2, <2>3
        <4> QED
          BY <1>b, <4>1, <4>2
      <3>2. raw = Prb!Outcome
        <4>1. raw = Prb!Payload[keys[2]] /\ keys[2] = "conclusion"
          BY <1>1, <1>3, <2>3, <3>1
        <4>2. Prb!Payload["conclusion"] = Prb!Outcome
          BY <2>1
        <4> QED
          BY <4>1, <4>2
      <3> QED
        BY <1>0, <1>6, <3>2, WordsAre DEF WordIs, raw
    <2>4. CASE field # ""
      <3>1. 1 \in read /\ \A j \in read : 1 <= j
        <4>1. 1 \in read
          BY <1>0, <1>1, <2>2, <2>4
        <4>2. \A j \in read : j \in {1, 2, 3, 4} /\ j \notin {}
          BY <1>0, <1>1, <1>a, <2>2, <2>4
        <4> QED
          BY <1>b, <4>1, <4>2
      <3>2. raw = Prb!Payload[field]
        BY <1>1, <1>3, <2>4, <3>1
      <3>3. CASE field = "conclusion"
        <4>1. raw = Prb!Outcome
          BY <2>1, <3>2, <3>3
        <4> QED
          BY <1>0, <1>6, <4>1, WordsAre DEF WordIs, raw
      <3>4. CASE field = "status"
        <4>1. raw = IF run = "running" THEN "running" ELSE "completed"
          BY <2>1, <3>2, <3>4
        <4>2. ~Prb!ReadsOutcome
          BY <1>6, <3>4 DEF Prb!ReadsOutcome, Prb!Urls
        <4> QED
          BY <4>1, <4>2 DEF raw
      <3> QED
        BY <1>0, <2>4, <3>3, <3>4
    <2> QED
      BY <2>3, <2>4
  <1>7. CASE run # "none" /\ source = "rest"
    <2>1. Prb!Payload = [status |-> Prb!Word[run]]
      BY <1>7 DEF Prb!Payload
    <2>2. \A i \in DOMAIN keys : i \in read <=> keys[i] = "status"
      BY <2>1 DEF read, Prb!Has
    <2>3. CASE field = ""
      <3>1. 3 \in read /\ \A j \in read : 3 <= j
        <4>1. 3 \in read
          BY <1>0, <1>1, <2>2, <2>3
        <4>2. \A j \in read : j \in {1, 2, 3, 4} /\ j \notin {1, 2}
          BY <1>0, <1>1, <1>a, <2>2, <2>3
        <4> QED
          BY <1>b, <4>1, <4>2
      <3>2. raw = Prb!Word[run]
        <4>1. raw = Prb!Payload[keys[3]] /\ keys[3] = "status"
          BY <1>1, <1>3, <2>3, <3>1
        <4>2. Prb!Payload["status"] = Prb!Word[run]
          BY <2>1
        <4> QED
          BY <4>1, <4>2
      <3> QED
        BY <1>0, <1>7, <3>2, WordsAre DEF WordIs, raw
    <2>4. CASE field = "status"
      <3>1. 1 \in read /\ \A j \in read : 1 <= j
        <4>1. 1 \in read
          BY <1>0, <1>1, <2>2, <2>4
        <4>2. \A j \in read : j \in {1, 2, 3, 4} /\ j \notin {}
          BY <1>0, <1>1, <1>a, <2>2, <2>4
        <4> QED
          BY <1>b, <4>1, <4>2
      <3>2. raw = Prb!Word[run]
        BY <1>1, <1>3, <2>1, <2>4, <3>1
      <3> QED
        BY <1>0, <1>7, <3>2, WordsAre DEF WordIs, raw
    <2>5. CASE field = "conclusion"
      <3>1. read = {}
        BY <1>0, <1>1, <1>a, <2>2, <2>5
      <3>2. raw = "missing" /\ ~Prb!ReadsOutcome
        BY <1>2, <1>7, <2>5, <3>1 DEF Prb!ReadsOutcome, Prb!Urls
      <3> QED
        BY <3>2 DEF raw
    <2> QED
      BY <1>0, <2>3, <2>4, <2>5
  <1>8. CASE run # "none" /\ source = "buildkite"
    <2>1. Prb!Payload = [state |-> Prb!Word[run]]
      BY <1>8 DEF Prb!Payload
    <2>2. \A i \in DOMAIN keys : i \in read <=> keys[i] = "state"
      BY <2>1 DEF read, Prb!Has
    <2>3. CASE field = ""
      <3>1. 4 \in read /\ \A j \in read : 4 <= j
        <4>1. 4 \in read
          BY <1>0, <1>1, <2>2, <2>3
        <4>2. \A j \in read : j \in {1, 2, 3, 4} /\ j \notin {1, 2, 3}
          BY <1>0, <1>1, <1>a, <2>2, <2>3
        <4> QED
          BY <1>b, <4>1, <4>2
      <3>2. raw = Prb!Word[run]
        <4>1. raw = Prb!Payload[keys[4]] /\ keys[4] = "state"
          BY <1>1, <1>3, <2>3, <3>1
        <4>2. Prb!Payload["state"] = Prb!Word[run]
          BY <2>1
        <4> QED
          BY <4>1, <4>2
      <3> QED
        BY <1>0, <1>8, <3>2, WordsAre DEF WordIs, raw
    <2>4. CASE field # ""
      <3>1. read = {}
        BY <1>0, <1>1, <1>a, <2>2, <2>4
      <3>2. raw = "missing" /\ ~Prb!ReadsOutcome
        BY <1>2, <1>8, <2>4, <3>1 DEF Prb!ReadsOutcome, Prb!Urls
      <3> QED
        BY <3>2 DEF raw
    <2> QED
      BY <2>3, <2>4
  <1> QED
    BY <1>4, <1>5, <1>6, <1>7, <1>8 DEF Prb!Urls, raw

\* What is told of a project's CI.
LEMMA ProbeCiTells ==
  ASSUME ProbesGiven
  PROVE  /\ Prb!ProbeCi.ci = "pass" => run = "good"
         /\ Prb!ProbeCi.ci = "fail" => run = "bad"
         /\ Prb!ProbeCi.ci = "running" => run = "running"
         /\ Prb!ProbeCi.ci = "unknown" => \/ "ci" \notin reach \/ run \in {"none", "odd"}
                                          \/ source = "list" \/ ~Prb!ReadsOutcome
         /\ Prb!ProbeCi.prs \subseteq {open} \/ (Prb!ProbeCi.prs = {Prb!MrCount} /\ Prb!MrCount < open)
  <1>0. run \in Prb!Runs /\ source \in Prb!Sources /\ open \in Nat /\ MrCountCap \in Nat
    BY JudgementsAssumption DEF JudgementsAssumption, ProbesGiven
  <1>1. CASE source \in Prb!Urls
    <2>1. Prb!ProbeCi = [ci |-> IF "ci" \in reach THEN Prb!NormaliseStatus(Prb!RawStatus) ELSE "unknown", prs |-> {}]
      BY <1>1 DEF Prb!ProbeCi, Prb!ProbeStatusUrl, Prb!Urls
    <2>2. Prb!NormaliseStatus(Prb!RawStatus) =
            CASE Prb!RawStatus \in {"null", "running"} -> "running" [] Prb!RawStatus = "success" -> "pass"
              [] Prb!RawStatus = "failure" -> "fail" [] OTHER -> "unknown"
      BY DEF Prb!NormaliseStatus
    <2> QED
      BY <1>0, <1>1, <2>1, <2>2, RawStatusIs DEF Prb!Runs, WordIs
  <1>2. CASE source = "gitlab"
    <2>1. Prb!ProbeCi = [ci |-> IF "ci" \in reach THEN Prb!ParsePipelineStatus ELSE "unknown",
                         prs |-> IF "prs" \in reach THEN {Prb!MrCount} ELSE {}]
      BY <1>2 DEF Prb!ProbeCi, Prb!CollectGitlab, Prb!Urls
    <2>2. IF run = "none" THEN Prb!ParsePipelineStatus = "unknown"
          ELSE Prb!ParsePipelineStatus = Prb!NormaliseStatus(Prb!Word[run])
      <3>1. CASE run = "none"
        <4>1. ~Prb!Has("status")
          BY <3>1 DEF Prb!Has, Prb!Payload
        <4> QED
          BY <3>1, <4>1 DEF Prb!ParsePipelineStatus
      <3>2. CASE run # "none"
        <4>1. Prb!Payload = [status |-> Prb!Word[run]]
          BY <1>2, <3>2 DEF Prb!Payload
        <4> QED
          BY <3>2, <4>1 DEF Prb!ParsePipelineStatus, Prb!Has
      <3> QED
        BY <3>1, <3>2
    <2>3. run # "none" => WordIs(Prb!Word[run])
      BY <1>0, WordsAre
    <2>4. {Prb!MrCount} \subseteq {open} \/ Prb!MrCount < open
      BY <1>0 DEF Prb!MrCount
    <2>5. /\ Prb!ParsePipelineStatus = "pass" => run = "good"
          /\ Prb!ParsePipelineStatus = "fail" => run = "bad"
          /\ Prb!ParsePipelineStatus = "running" => run = "running"
          /\ Prb!ParsePipelineStatus = "unknown" => run \in {"none", "odd"}
      <3>1. CASE run = "none"
        BY <2>2, <3>1
      <3>2. CASE run # "none"
        BY <1>0, <2>2, <2>3, <3>2 DEF Prb!NormaliseStatus, WordIs, Prb!Runs
      <3> QED
        BY <3>1, <3>2
    <2> QED
      BY <2>1, <2>4, <2>5
  <1>3. CASE source = "github"
    <2>1. Prb!ProbeCi = [ci |-> IF "ci" \in reach THEN Prb!ParseCiConclusion ELSE "unknown",
                         prs |-> IF "prs" \in reach THEN {open} ELSE {}]
      BY <1>3 DEF Prb!ProbeCi, Prb!CollectGithub, Prb!Urls
    <2>2. /\ Prb!ParseCiConclusion = "pass" => run = "good"
          /\ Prb!ParseCiConclusion = "fail" => run = "bad"
          /\ Prb!ParseCiConclusion = "running" => run = "running"
          /\ Prb!ParseCiConclusion = "unknown" => run \in {"none", "odd"}
      <3>1. CASE run = "none"
        <4>1. ~Prb!Has("status")
          BY <3>1 DEF Prb!Has, Prb!Payload
        <4> QED
          BY <3>1, <4>1 DEF Prb!ParseCiConclusion
      <3>2. CASE run # "none"
        <4>1. Prb!Payload = [status |-> IF run = "running" THEN "running" ELSE "completed", conclusion |-> Prb!Outcome]
          BY <1>3, <3>2 DEF Prb!Payload
        <4>2. Prb!ParseCiConclusion =
                IF run = "running" THEN "running"
                ELSE CASE Prb!Outcome = "success" -> "pass" [] Prb!Outcome = "failure" -> "fail"
                       [] OTHER -> "unknown"
          BY <4>1 DEF Prb!ParseCiConclusion, Prb!Has
        <4>3. WordIs(Prb!Outcome)
          BY <1>0, <3>2, WordsAre
        <4> QED
          BY <1>0, <3>2, <4>2, <4>3 DEF WordIs, Prb!Runs
      <3> QED
        BY <3>1, <3>2
    <2> QED
      BY <2>1, <2>2
  <1> QED
    BY <1>0, <1>1, <1>2, <1>3 DEF Prb!Sources

\* What is told of a deployment.
LEMMA CloudCellTells ==
  ASSUME ProbesGiven
  PROVE  /\ Prb!CloudCell = "pass" => /\ "cloud" \in reach /\ health # "error"
                                      /\ service.target \in {"fly", "cloud-run"}
         /\ Prb!CloudCell = "none" <=> service.target = "none"
         /\ health = "error" => Prb!CloudCell = "fail"
         /\ Prb!CloudCell = "fail" <=> service.target # "none" /\ (Prb!ProbeHealth = "unhealthy" \/ Prb!State = "stopped")
  <1>1. Prb!ProbeHealth = "unhealthy" <=> health = "error"
    BY DEF ProbesGiven, Prb!ProbeHealth
  <1>2. Prb!State # "unknown" => "cloud" \in reach /\ service.target \in {"fly", "cloud-run"}
    <2>1. CASE "cloud" \in reach /\ service.target = "fly"
      BY <2>1
    <2>2. CASE "cloud" \in reach /\ service.target = "cloud-run"
      BY <2>2
    <2>3. CASE ~("cloud" \in reach /\ service.target = "fly") /\ ~("cloud" \in reach /\ service.target = "cloud-run")
      BY <2>3 DEF Prb!State
    <2> QED
      BY <2>1, <2>2, <2>3
  <1>3. CASE service.target = "none"
    BY <1>1, <1>3 DEF Prb!CloudCell, ProbesGiven
  <1>4. CASE service.target # "none" /\ (Prb!ProbeHealth = "unhealthy" \/ Prb!State = "stopped")
    BY <1>4 DEF Prb!CloudCell
  <1>5. CASE service.target # "none" /\ ~(Prb!ProbeHealth = "unhealthy" \/ Prb!State = "stopped")
    <2>1. Prb!CloudCell = IF Prb!State = "deployed" THEN "pass" ELSE "unknown"
      BY <1>5 DEF Prb!CloudCell
    <2> QED
      BY <1>1, <1>2, <1>5, <2>1
  <1> QED
    BY <1>3, <1>4, <1>5

LEMMA ProbesInit == Prb!Init => ProbesInv
  <1> SUFFICES ASSUME Prb!Init PROVE ProbesInv
    OBVIOUS
  <1>0. MrCountCap \in Nat
    BY JudgementsAssumption DEF JudgementsAssumption
  <1>1. query \in {"ci", "cloud-status"} /\ ci = "none" /\ cloud = "none"
    BY DEF Prb!Init
  <1>2. source \in Prb!Sources /\ run \in Prb!Runs /\ open \in Nat /\ field \in {"", "status", "conclusion"}
    <2>1. CASE query = "ci"
      <3>1. source \in Prb!Sources /\ run \in Prb!Runs /\ open \in 0..MrCountCap + 1
            /\ field \in {""} \cup IF source \in Prb!Urls THEN {"status", "conclusion"} ELSE {}
        BY <2>1 DEF Prb!Init
      <3>2. open \in 0..MrCountCap + 1
        BY <3>1
      <3>3. open \in Nat
        BY <1>0, <3>2
      <3> QED
        BY <3>1, <3>3
    <2>2. CASE query # "ci"
      <3>1. source = "github" /\ run = "none" /\ open = 0 /\ field = ""
        BY <2>2 DEF Prb!Init
      <3> QED
        BY <3>1 DEF Prb!Sources, Prb!Runs
    <2> QED
      BY <2>1, <2>2
  <1>3. /\ service \in Prb!Services /\ health \in {"", "ok", "error", "refused", "redirected away", "down"}
        /\ service.target = "none" => health = ""
    <2>1. [target |-> "none"] \in Prb!Services
      BY DEF Prb!Services
    <2> QED
      BY <2>1 DEF Prb!Init
  <1> QED
    BY <1>1, <1>2, <1>3 DEF ProbesInv, ProbesGiven, Prb!ProbesAreTrue

LEMMA ProbesStep ==
  ASSUME ProbesInv, [Prb!Next]_(Prb!vars)
  PROVE  ProbesInv'
  <1>1. UNCHANGED <<source, field, run, open, service, health, reach>>
    BY DEF Prb!Next, Prb!Ci, Prb!CloudStatus, Prb!vars, Prb!given
  <1>2. Prb!ReadsOutcome' = Prb!ReadsOutcome /\ Prb!MrCount' = Prb!MrCount
    BY <1>1 DEF Prb!ReadsOutcome, Prb!MrCount
  <1>3. CASE Prb!Ci
    <2>1. /\ query' = "ci done" /\ cloud' = "none" /\ ci' = Prb!ProbeCi.ci /\ prs' = Prb!ProbeCi.prs
          /\ ciExit' = IF Prb!ProbeCi.ci = "fail" THEN 1 ELSE 0
      BY <1>3 DEF Prb!Ci, ProbesInv, ProbesGiven
    <2>2. ProbesGiven'
      BY <1>1, <2>1 DEF ProbesInv, ProbesGiven
    <2>3. Prb!ProbesAreTrue'
      <3> DEFINE told == Prb!ProbeCi.ci
                 counted == Prb!ProbeCi.prs
      <3>1. /\ told = "pass" => run = "good"
            /\ told = "fail" => run = "bad"
            /\ told = "running" => run = "running"
            /\ told = "unknown" => \/ "ci" \notin reach \/ run \in {"none", "odd"}
                                   \/ source = "list" \/ ~Prb!ReadsOutcome
            /\ counted \subseteq {open} \/ (counted = {Prb!MrCount} /\ Prb!MrCount < open)
        BY ProbeCiTells DEF ProbesInv
      <3>2. query' = "ci done" /\ ci' = told /\ prs' = counted /\ cloud' = "none" /\ ciExit' = IF told = "fail" THEN 1 ELSE 0
        BY <2>1
      <3> HIDE DEF told, counted
      <3>3. ciExit' = 1 <=> "fail" \in {ci', cloud'}
        <4>1. CASE told = "fail"
          BY <3>2, <4>1
        <4>2. CASE told # "fail"
          <5>1. ciExit' = 0 /\ ci' # "fail" /\ cloud' # "fail"
            BY <3>2, <4>2
          <5> QED
            BY <5>1
        <4> QED
          BY <4>1, <4>2
      <3>4. /\ ci' = "pass" => run' = "good"
            /\ ci' = "fail" => run' = "bad"
            /\ ci' = "running" => run' = "running"
            /\ ci' = "unknown" => \/ "ci" \notin reach' \/ run' \in {"none", "odd"}
                                  \/ source' = "list" \/ ~Prb!ReadsOutcome'
        BY <1>1, <1>2, <3>1, <3>2
      <3>6. prs' \subseteq {open'} \/ (prs' = {MrCountCap} /\ MrCountCap < open')
        <4>0. open \in Nat /\ MrCountCap \in Nat
          BY JudgementsAssumption DEF JudgementsAssumption, ProbesInv, ProbesGiven
        <4>1. CASE counted \subseteq {open}
          BY <1>1, <3>2, <4>1
        <4>2. CASE counted = {Prb!MrCount} /\ Prb!MrCount < open
          <5>1. MrCountCap < open /\ Prb!MrCount = MrCountCap
            <6>1. CASE open > MrCountCap
              BY <4>0, <6>1 DEF Prb!MrCount
            <6>2. CASE ~(open > MrCountCap)
              BY <4>0, <4>2, <6>2 DEF Prb!MrCount
            <6> QED
              BY <6>1, <6>2
          <5> QED
            BY <1>1, <3>2, <4>2, <5>1
        <4> QED
          BY <3>1, <4>1, <4>2
      <3>7. query' # "cloud-status done" /\ query' = "ci done"
        BY <3>2
      <3> QED
        BY <3>3, <3>4, <3>6, <3>7 DEF Prb!ProbesAreTrue
    <2> QED
      BY <2>2, <2>3 DEF ProbesInv
  <1>4. CASE Prb!CloudStatus
    <2>1. /\ query' = "cloud-status done" /\ ci' = "none" /\ cloud' = Prb!CloudCell
          /\ ciExit' = IF service.target # "none" /\ (Prb!ProbeHealth = "unhealthy" \/ Prb!State = "stopped")
                       THEN 1 ELSE 0
      BY <1>4 DEF Prb!CloudStatus, ProbesInv, ProbesGiven
    <2>2. ProbesGiven'
      BY <1>1, <2>1 DEF ProbesInv, ProbesGiven
    <2>3. Prb!ProbesAreTrue'
      <3> DEFINE cell == Prb!CloudCell
                 fails == service.target # "none" /\ (Prb!ProbeHealth = "unhealthy" \/ Prb!State = "stopped")
      <3>1. /\ cell = "pass" => "cloud" \in reach /\ health # "error" /\ service.target \in {"fly", "cloud-run"}
            /\ cell = "none" <=> service.target = "none"
            /\ health = "error" => cell = "fail"
            /\ cell = "fail" <=> fails
        BY CloudCellTells DEF ProbesInv
      <3>2. query' = "cloud-status done" /\ ci' = "none" /\ cloud' = cell /\ ciExit' = IF fails THEN 1 ELSE 0
        BY <2>1
      <3> HIDE DEF cell, fails
      <3>3. ciExit' = 1 <=> "fail" \in {ci', cloud'}
        <4>1. CASE cell = "fail"
          <5>1. fails
            BY <3>1, <4>1
          <5> QED
            BY <3>2, <4>1, <5>1
        <4>2. CASE cell # "fail"
          <5>1. ~fails
            BY <3>1, <4>2
          <5>2. ciExit' = 0 /\ ci' # "fail" /\ cloud' # "fail"
            BY <3>2, <4>2, <5>1
          <5> QED
            BY <5>2
        <4> QED
          BY <4>1, <4>2
      <3> QED
        BY <1>1, <3>1, <3>2, <3>3 DEF Prb!ProbesAreTrue
    <2> QED
      BY <2>2, <2>3 DEF ProbesInv
  <1>5. CASE UNCHANGED Prb!vars
    <2>1. UNCHANGED <<query, ci, prs, cloud, ciExit>>
      BY <1>5 DEF Prb!vars
    <2>2. ProbesGiven'
      BY <1>1, <2>1 DEF ProbesInv, ProbesGiven
    <2>3. Prb!ProbesAreTrue'
      BY <1>1, <1>2, <2>1 DEF ProbesInv, Prb!ProbesAreTrue
    <2> QED
      BY <2>2, <2>3 DEF ProbesInv
  <1> QED
    BY <1>3, <1>4, <1>5 DEF Prb!Next

-----------------------------------------------------------------------------
(* FleetView: what the tables make of what is known.                       *)

ViewGiven ==
  /\ DOMAIN manifest \in {{}, Manifested}
  /\ \A f \in DOMAIN manifest : manifest[f] \in {"same", "edited", "too large", "unreadable", "gone"}
  /\ expected \subseteq Hooks /\ clone \in Viw!Checkouts
  /\ own \in Viw!Known /\ others \subseteq Viw!Known /\ latest \in Viw!Known
  /\ plugin \in Viw!Known /\ shipped \in Viw!Known
  /\ checks \in Viw!Checks /\ where \subseteq Viw!Terms
ViewInv == ViewGiven /\ Viw!ViewIsTrue

\* Finitely many numbers have a bound: the shortest part of a listing of them that has
\* none would be one element longer than a part that has.
LEMMA FiniteIsBounded ==
  ASSUME NEW S, S \subseteq Nat, IsFiniteSet(S)
  PROVE  \E b \in Nat : \A x \in S : x <= b
  <1>1. PICK n \in Nat : ExistsSurjection(1..n, S)
    BY FS_NatSurjection
  <1>2. PICK f \in Surjection(1..n, S) : TRUE
    BY <1>1 DEF ExistsSurjection
  <1>3. f \in [1..n -> S] /\ \A x \in S : \E i \in 1..n : f[i] = x
    BY <1>2 DEF Surjection
  <1> DEFINE Bounds(k, b) == \A i \in 1..n : i <= k => f[i] <= b
             K == {k \in 0..n : \A b \in Nat : ~Bounds(k, b)}
  <1>4. ASSUME K # {} PROVE FALSE
    <2>1. PICK k \in K : \A m \in K : k <= m
      <3>1. K \subseteq Nat
        OBVIOUS
      <3> HIDE DEF K
      <3> QED
        BY <1>4, <3>1, SmallestExists
    <2>2. k \in 0..n /\ \A b \in Nat : ~Bounds(k, b)
      OBVIOUS
    <2>3. k # 0
      <3>1. Bounds(0, 0)
        OBVIOUS
      <3>2. 0 \in Nat
        OBVIOUS
      <3> QED
        BY <2>2, <3>1, <3>2
    <2>4. k \in 1..n /\ k - 1 \in 0..n /\ ~(k <= k - 1)
      BY <2>2, <2>3
    <2>5. k - 1 \notin K
      BY <2>1, <2>4
    <2>6. PICK b \in Nat : Bounds(k - 1, b)
      BY <2>4, <2>5
    <2>7. f[k] \in Nat
      BY <1>3, <2>4
    <2>8. PICK c \in Nat : b <= c /\ f[k] <= c
      <3>1. PICK y \in Nat : y = f[k]
        BY <2>7
      <3>2. b <= b + y /\ y <= b + y /\ b + y \in Nat
        OBVIOUS
      <3> QED
        BY <3>1, <3>2
    <2>9. Bounds(k, c)
      <3> SUFFICES ASSUME NEW i \in 1..n, i <= k PROVE f[i] <= c
        OBVIOUS
      <3>1. CASE i = k
        BY <2>8, <3>1
      <3>2. CASE i # k
        <4>1. i <= k - 1
          BY <2>4, <3>2
        <4>2. f[i] \in Nat
          BY <1>3
        <4>3. f[i] <= b
          BY <2>6, <4>1
        <4>4. PICK y \in Nat : y = f[i]
          BY <4>2
        <4>5. y <= b
          BY <4>3, <4>4
        <4>6. b <= c
          BY <2>8
        <4>7. y <= c
          <5> HIDE DEF Bounds, K
          <5> QED
            BY <4>5, <4>6
        <4> QED
          BY <4>4, <4>7
      <3> QED
        BY <3>1, <3>2
    <2> QED
      BY <2>2, <2>9
  <1>5. n \in 0..n /\ n \notin K
    <2>1. n \in 0..n
      OBVIOUS
    <2> HIDE DEF K
    <2> QED
      BY <1>4, <2>1
  <1>6. PICK b \in Nat : Bounds(n, b)
    BY <1>5
  <1>7. \A x \in S : x <= b
    BY <1>3, <1>6
  <1> QED
    BY <1>7

LEMMA LargestExists ==
  ASSUME NEW S, S \subseteq Nat, S # {}, IsFiniteSet(S)
  PROVE  \E x \in S : \A y \in S : x >= y
  <1>1. PICK b \in Nat : \A x \in S : x <= b
    BY FiniteIsBounded
  <1> DEFINE R == {b - x : x \in S}
  <1>2. PICK r \in R : \A t \in R : r <= t
    <2>1. R \subseteq Nat /\ R # {}
      <3>1. \A x \in S : b - x \in Nat
        BY <1>1
      <3> QED
        BY <3>1
    <2> HIDE DEF R
    <2> QED
      BY <2>1, SmallestExists
  <1>3. PICK x \in S : r = b - x
    OBVIOUS
  <1>4. \A y \in S : x >= y
    <2> TAKE y \in S
    <2>1. b - x <= b - y
      BY <1>2, <1>3
    <2> QED
      BY <2>1
  <1> QED
    BY <1>4

LEMMA MaxOfVersions ==
  ASSUME Viw!FleetViewAssumption, NEW S, S \subseteq Versions, S # {}
  PROVE  Viw!Max(S) \in S /\ \A y \in S : Viw!Max(S) >= y
  <1>1. S \subseteq Nat /\ IsFiniteSet(S)
    <2>1. Viw!IsFiniteSet(Versions) => IsFiniteSet(Versions)
      BY DEF Viw!IsFiniteSet, IsFiniteSet
    <2> QED
      BY <2>1, FS_Subset DEF Viw!FleetViewAssumption
  <1>2. \E x \in S : \A y \in S : x >= y
    BY <1>1, LargestExists
  <1> QED
    BY <1>2, Zenon DEF Viw!Max

LEMMA MaxOfOne == \A v \in Versions : Viw!Max({v}) = v
  <1> TAKE v \in Versions
  <1>1. Viw!FleetViewAssumption /\ {v} \subseteq Versions /\ {v} # {}
    BY JudgementsAssumption DEF JudgementsAssumption
  <1>2. Viw!Max({v}) \in {v}
    BY <1>1, MaxOfVersions
  <1> QED
    BY <1>2

\* A hook is installed where this checkout's git looks for it.
LEMMA HookIs ==
  ASSUME ViewGiven, Viw!IsRepository, NEW h \in Hooks
  PROVE  Viw!Installed(h) = Viw!GitFinds(h)
  <1>1. clone.git \in {"directory", "worktree", "relocated"}
    BY DEF Viw!IsRepository
  <1>2. CASE clone.git = "directory"
    <2>1. Viw!HooksDir = "in .git"
      BY <1>2 DEF Viw!HooksDir
    <2> QED
      BY <1>2, <2>1 DEF Viw!Installed, Viw!GitFinds
  <1>3. CASE clone.git = "worktree"
    <2>1. Viw!HooksDir = "in the common directory"
      BY <1>3 DEF Viw!HooksDir
    <2> QED
      BY <1>3, <2>1 DEF Viw!Installed, Viw!GitFinds
  <1>4. CASE clone.git = "relocated"
    <2>1. Viw!HooksDir = "in the git directory"
      BY <1>4 DEF Viw!HooksDir
    <2> QED
      BY <1>4, <2>1 DEF Viw!Installed, Viw!GitFinds
  <1> QED
    BY <1>1, <1>2, <1>3, <1>4

LEMMA HookBytes ==
  ASSUME ViewGiven, NEW h \in Hooks
  PROVE  clone.source[h] \in Viw!Bytes /\ Viw!Installed(h) \in {"none", "old", "new"}
  <1>1. clone.source \in [Hooks -> Viw!Bytes] /\ clone.installed \in [Hooks -> Viw!Bytes \ {"unreadable"}]
    BY DEF ViewGiven, Viw!Checkouts
  <1>2. clone.source[h] \in Viw!Bytes /\ clone.installed[h] \in Viw!Bytes \ {"unreadable"}
    BY <1>1
  <1> QED
    BY <1>2 DEF Viw!Installed, Viw!Bytes

\* What the hooks column says of every hook that is declared.
LEMMA HooksTell ==
  ASSUME ViewGiven
  PROVE  /\ Viw!Declared \subseteq Hooks
         /\ Viw!HookHealth = "ok" => \A h \in Viw!Declared : Viw!Installed(h) # "none" /\ ~Viw!Differs(h)
         /\ Viw!HookHealth = "stale" => \E h \in Viw!Declared : Viw!Differs(h)
         /\ Viw!HookHealth \in {"missing", "partial"} => \E h \in Viw!Declared : Viw!Installed(h) = "none"
  <1> DEFINE present == {h \in Viw!Declared : Viw!Installed(h) # "none"}
  <1>0. Viw!Declared \subseteq Hooks
    BY DEF ViewGiven, Viw!Declared
  <1>1. CASE Viw!Declared = {}
    <2>1. Viw!HookHealth = "-"
      BY <1>1 DEF Viw!HookHealth
    <2> QED
      BY <1>0, <2>1
  <1>2. CASE present # Viw!Declared
    <2>1. Viw!HookHealth = IF present = {} THEN "missing" ELSE "partial"
      BY <1>2 DEF Viw!HookHealth
    <2>2. Viw!HookHealth \notin {"ok", "stale"}
      BY <2>1
    <2> QED
      BY <1>0, <1>2, <2>2
  <1>3. CASE Viw!Declared # {} /\ present = Viw!Declared
    <2>1. Viw!HookHealth = IF \E h \in Viw!Declared : Viw!Differs(h) THEN "stale" ELSE "ok"
      BY <1>3 DEF Viw!HookHealth
    <2>2. \A h \in Viw!Declared : Viw!Installed(h) # "none"
      BY <1>3
    <2> QED
      BY <1>0, <2>1, <2>2
  <1> QED
    BY <1>1, <1>2, <1>3

\* The same, of what git finds.
LEMMA HooksAre ==
  ASSUME ViewGiven, Viw!IsRepository
  PROVE  /\ Viw!HookHealth = "ok" =>
              \A h \in Viw!Declared : /\ Viw!GitFinds(h) # "none"
                                      /\ Viw!GitFinds(h) = "old" => clone.source[h] # "new"
         /\ Viw!HookHealth = "stale" => \E h \in Viw!Declared : {clone.source[h], Viw!GitFinds(h)} = {"old", "new"}
         /\ Viw!HookHealth \in {"missing", "partial"} => \E h \in Viw!Declared : Viw!GitFinds(h) = "none"
  <1>1. \A h \in Viw!Declared : h \in Hooks /\ Viw!Installed(h) = Viw!GitFinds(h)
    BY HooksTell, HookIs
  <1>2. \A h \in Viw!Declared : Viw!Differs(h) => {clone.source[h], Viw!GitFinds(h)} = {"old", "new"}
    <2> SUFFICES ASSUME NEW h \in Viw!Declared, Viw!Differs(h)
                 PROVE  {clone.source[h], Viw!GitFinds(h)} = {"old", "new"}
      OBVIOUS
    <2>1. clone.source[h] \in Viw!Bytes /\ Viw!Installed(h) \in {"none", "old", "new"}
      BY <1>1, HookBytes
    <2>2. clone.source[h] \notin {"none", "unreadable"} /\ Viw!Installed(h) # "none" /\ clone.source[h] # Viw!Installed(h)
      BY DEF Viw!Differs
    <2> QED
      BY <1>1, <2>1, <2>2 DEF Viw!Bytes
  <1>3. \A h \in Viw!Declared : ~Viw!Differs(h) /\ Viw!Installed(h) = "old" => clone.source[h] # "new"
    BY DEF Viw!Differs
  <1> QED
    BY <1>1, <1>2, <1>3, HooksTell

\* clean is said of a manifest whose files are all as they were.
LEMMA DriftTells ==
  ASSUME ViewGiven
  PROVE  /\ Viw!ComputeDrift = "clean" => \A f \in Manifested : manifest[f] = "same"
         /\ Viw!Modified \cup Viw!Missing # {} => Viw!ComputeDrift = "drift"
  <1>1. CASE DOMAIN manifest = {}
    <2>1. Viw!ComputeDrift = "no-manifest"
      BY <1>1 DEF Viw!ComputeDrift
    <2>2. Viw!Modified \cup Viw!Missing = {}
      BY <1>1 DEF Viw!Modified, Viw!Missing
    <2> QED
      BY <2>1, <2>2
  <1>2. CASE DOMAIN manifest # {} /\ Viw!Modified \cup Viw!Missing = {}
    <2>1. DOMAIN manifest = Manifested
      BY <1>2 DEF ViewGiven
    <2>2. \A f \in Manifested : manifest[f] = "same"
      BY <1>2, <2>1 DEF ViewGiven, Viw!Modified, Viw!Missing
    <2> QED
      BY <1>2, <2>2
  <1>3. CASE DOMAIN manifest # {} /\ Viw!Modified \cup Viw!Missing # {}
    BY <1>3 DEF Viw!ComputeDrift
  <1> QED
    BY <1>1, <1>2, <1>3

\* behind is said of a version that is not the newest of the fleet.
LEMMA LatestTells ==
  ASSUME ViewGiven, NEW selected
  PROVE  Viw!LatestCell(selected) = "behind" <=> own # {} /\ \E v \in UNION others : v > Viw!Max(own)
  <1>0. Viw!FleetViewAssumption /\ Versions \subseteq Nat
    BY JudgementsAssumption DEF JudgementsAssumption, Viw!FleetViewAssumption
  <1> DEFINE S == own \cup UNION others
  <1>1. S \subseteq Versions /\ own \subseteq Versions
    <2>1. \A k \in Viw!Known : k \subseteq Versions
      BY DEF Viw!Known
    <2>2. own \in Viw!Known /\ others \subseteq Viw!Known
      BY DEF ViewGiven
    <2>3. UNION others \subseteq Versions
      <3> SUFFICES ASSUME NEW k \in others, NEW v \in k PROVE v \in Versions
        OBVIOUS
      <3>1. k \in Viw!Known
        BY <2>2
      <3> QED
        BY <2>1, <3>1
    <2> QED
      BY <2>1, <2>2, <2>3
  <1>2. CASE own = {}
    BY <1>2 DEF Viw!LatestCell
  <1>3. CASE own # {}
    <2>1. PICK v \in Versions : own = {v}
      BY <1>3 DEF ViewGiven, Viw!Known
    <2>2. Viw!Max(own) = v /\ v \in Nat
      BY <1>0, <2>1, MaxOfOne
    <2>3. S # {} /\ v \in S
      BY <2>1
    <2> DEFINE m == Viw!Max(S)
    <2>4. m \in S /\ \A y \in S : m >= y
      <3> HIDE DEF S
      <3> QED
        BY <1>0, <1>1, <2>3, MaxOfVersions
    <2>5. m \in Versions /\ Viw!Max({m}) = m /\ m \in Nat
      BY <1>0, <1>1, <2>4, MaxOfOne
    <2>6. Viw!NewestScaffoldVersion(S) = {m}
      BY <2>3 DEF Viw!NewestScaffoldVersion
    <2>7. Viw!LatestCell(selected) = IF v >= m THEN "=" ELSE "behind"
      <3> HIDE DEF m
      <3>1. own # {} /\ {m} # {}
        BY <1>3
      <3> QED
        BY <2>2, <2>5, <2>6, <3>1 DEF Viw!LatestCell
    <2>8. Viw!LatestCell(selected) = "behind" <=> m > v
      <3> HIDE DEF m, S
      <3>1. m > v <=> ~(v >= m)
        BY <2>2, <2>5
      <3> QED
        BY <2>7, <3>1
    <2>9. m > v <=> \E y \in UNION others : y > v
      <3>1. ASSUME m > v PROVE \E y \in UNION others : y > v
        <4>1. m \in UNION others
          <5> HIDE DEF m
          <5>1. m # v
            BY <2>2, <2>5, <3>1
          <5> QED
            BY <2>1, <2>4, <5>1
        <4> QED
          BY <3>1, <4>1
      <3>2. ASSUME NEW y \in UNION others, y > v PROVE m > v
        <4>1. y \in S /\ y \in Nat
          BY <1>0, <1>1
        <4>2. m >= y
          BY <2>4, <4>1
        <4> HIDE DEF m
        <4> QED
          BY <2>2, <2>5, <3>2, <4>1, <4>2
      <3> QED
        BY <3>1, <3>2
    <2> QED
      BY <1>3, <2>2, <2>8, <2>9
  <1> QED
    BY <1>2, <1>3

\* A standing is of two versions, and otherwise unknown.
LEMMA StandingIs ==
  ASSUME NEW a \in Viw!Known, NEW b \in Viw!Known, NEW word, word \notin {"ok", "unknown"}
  PROVE  /\ Viw!Standing(a, b, word) = "unknown" <=> a = {} \/ b = {}
         /\ Viw!Standing(a, b, word) = word => \E u \in b, v \in a : u > v
         /\ Viw!Standing(a, b, word) = "ok" => \E u \in b, v \in a : u <= v
  <1>0. Versions \subseteq Nat
    BY JudgementsAssumption DEF JudgementsAssumption, Viw!FleetViewAssumption
  <1>1. CASE a = {} \/ b = {}
    BY <1>1 DEF Viw!Standing
  <1>2. CASE ~(a = {} \/ b = {})
    <2>1. PICK v \in Versions : a = {v}
      BY <1>2 DEF Viw!Known
    <2>2. PICK u \in Versions : b = {u}
      BY <1>2 DEF Viw!Known
    <2>3. Viw!Max(a) = v /\ Viw!Max(b) = u
      BY <2>1, <2>2, MaxOfOne
    <2>4. Viw!Standing(a, b, word) = IF v >= u THEN "ok" ELSE word
      BY <1>2, <2>3 DEF Viw!Standing
    <2>5. u \in Nat /\ v \in Nat
      BY <1>0
    <2> QED
      BY <1>2, <2>1, <2>2, <2>4, <2>5
  <1> QED
    BY <1>1, <1>2

\* What each surface prints is of what does not change.
LEMMA ViewStands ==
  ASSUME UNCHANGED Viw!given
  PROVE  /\ UNCHANGED <<manifest, expected, clone, own, others, latest, plugin, shipped, checks, where>>
         /\ Viw!Declared' = Viw!Declared /\ Viw!IsRepository' = Viw!IsRepository
         /\ \A h : Viw!GitFinds(h)' = Viw!GitFinds(h)
         /\ \A task : Viw!CheckCell(task)' = Viw!CheckCell(task)
         /\ Viw!HookHealth' = Viw!HookHealth
         /\ ViewGiven' = ViewGiven
  <1>1. UNCHANGED <<column, manifest, expected, clone, own, others, latest, plugin, shipped, checks, where>>
    BY DEF Viw!given
  <1>2. Viw!Declared' = Viw!Declared /\ \A h : Viw!Installed(h)' = Viw!Installed(h) /\ Viw!Differs(h)' = Viw!Differs(h)
    BY <1>1 DEF Viw!Declared, Viw!Installed, Viw!HooksDir, Viw!Differs
  <1>3. Viw!HookHealth' = Viw!HookHealth
    BY <1>2 DEF Viw!HookHealth
  <1> QED
    BY <1>1, <1>2, <1>3 DEF Viw!IsRepository, Viw!GitFinds, Viw!CheckCell, ViewGiven

\* status prints a project that every term of the filter is known of.
LEMMA StatusTells == ASSUME ViewGiven, Viw!Status PROVE Viw!ViewIsTrue'
  <1>1. UNCHANGED Viw!given
    BY DEF Viw!Status
  <1>2. ASSUME NEW term \in where, Viw!Selects
        PROVE  /\ term.field # "cli"
               /\ term.field = "ci" => /\ term.op # ">"
                                       /\ term.op = "=" /\ term.text = "fail" => Viw!CheckCell("ci") = "fail"
               /\ term.field = "drift" /\ term.op = ">" => Viw!ComputeDrift = "drift"
    <2>1. term.field \in Viw!Fields /\ Viw!Matches(term)
      BY <1>2 DEF Viw!Selects, Viw!Parses
    <2>2. CASE term.field = "ci"
      <3>1. term.op # ">"
        BY <2>1, <2>2 DEF Viw!Matches
      <3>2. ASSUME term.op = "=", term.text = "fail" PROVE Viw!CheckCell("ci") = "fail"
        <4>1. Viw!Value("ci") = "fail"
          BY <2>1, <2>2, <3>2 DEF Viw!Matches
        <4>2. checks.ci = "fail"
          BY <4>1 DEF Viw!Value
        <4> QED
          BY <4>2 DEF Viw!CheckCell
      <3> QED
        BY <2>2, <3>1, <3>2
    <2>3. CASE term.field = "drift" /\ term.op = ">"
      <3>1. Viw!Count > 0
        BY <2>1, <2>3 DEF Viw!Matches
      <3>2. Viw!Cardinality({}) = 0
        BY FS_EmptySet DEF Viw!Cardinality, Cardinality
      <3>3. Viw!Modified \cup Viw!Missing # {}
        BY <3>1, <3>2 DEF Viw!Count
      <3> QED
        BY <2>3, <3>3, DriftTells
    <2> QED
      BY <2>1, <2>2, <2>3 DEF Viw!Fields
  <1>3. CASE ~Viw!Parses /\ row' = [rc |-> 2]
    <2>1. DOMAIN row' = {"rc"} /\ row'.rc = 2
      BY <1>3
    <2> QED
      BY <2>1 DEF Viw!ViewIsTrue, Viw!Printed
  <1>4. CASE Viw!Parses /\ row' = [rc |-> 0]
    <2>1. DOMAIN row' = {"rc"} /\ row'.rc = 0
      BY <1>4
    <2>2. \A term \in where : term.field # "cli"
      BY <1>4 DEF Viw!Parses, Viw!Fields
    <2> QED
      BY <1>1, <2>1, <2>2, ViewStands DEF Viw!ViewIsTrue, Viw!Printed
  <1>5. CASE Viw!Selects /\ row' = [rc |-> 0, hooks |-> Viw!HookHealth, drift |-> Viw!ComputeDrift,
                                   latest |-> Viw!LatestCell(where # {}), tests |-> Viw!CheckCell("test"),
                                   ci |-> Viw!CheckCell("ci")]
    <2>1. /\ DOMAIN row' = {"rc", "hooks", "drift", "latest", "tests", "ci"}
          /\ row'.hooks = Viw!HookHealth /\ row'.drift = Viw!ComputeDrift /\ row'.ci = Viw!CheckCell("ci")
          /\ row'.latest = Viw!LatestCell(where # {})
      BY <1>5
    <2>2. (Viw!Printed("hooks") /\ Viw!IsRepository =>
             /\ row.hooks = "ok" => \A h \in Viw!Declared : /\ Viw!GitFinds(h) # "none"
                                                            /\ Viw!GitFinds(h) = "old" => clone.source[h] # "new"
             /\ row.hooks = "stale" => \E h \in Viw!Declared : {clone.source[h], Viw!GitFinds(h)} = {"old", "new"}
             /\ row.hooks \in {"missing", "partial"} => \E h \in Viw!Declared : Viw!GitFinds(h) = "none")'
      BY <1>1, <2>1, ViewStands, HooksAre
    <2>3. (Viw!Printed("drift") => (row.drift = "clean" => \A f \in Manifested : manifest[f] = "same"))'
      BY <1>1, <2>1, ViewStands, DriftTells
    <2>4. (Viw!Printed("latest") => (row.latest = "behind" <=> own # {} /\ \E v \in UNION others : v > Viw!Max(own)))'
      BY <1>1, <2>1, ViewStands, LatestTells
    <2>5. (Viw!Printed("ci") => \A term \in where :
             /\ term.field = "ci" => /\ term.op # ">"
                                     /\ term.op = "=" /\ term.text = "fail" => row.ci = "fail"
             /\ term.field = "drift" /\ term.op = ">" => row.drift = "drift")'
      BY <1>1, <1>2, <1>5, <2>1, ViewStands
    <2>6. ~(\E term \in where : term.field = "cli")'
      BY <1>1, <1>2, <1>5, ViewStands
    <2>7. ~Viw!Printed("status")' /\ ~Viw!Printed("alerts")'
      BY <2>1 DEF Viw!Printed
    <2> QED
      BY <2>2, <2>3, <2>4, <2>5, <2>6, <2>7 DEF Viw!ViewIsTrue
  <1> QED
    BY <1>3, <1>4, <1>5 DEF Viw!Status

\* notify has an alert for every red cell, and exits 0 when it has none.
LEMMA NotifyTells == ASSUME ViewGiven, Viw!Notify PROVE Viw!ViewIsTrue'
  <1>1. UNCHANGED Viw!given /\ row' = [rc |-> IF Viw!SnapshotAlerts = {} THEN 0 ELSE 1, alerts |-> Viw!SnapshotAlerts]
    BY DEF Viw!Notify
  <1>2. DOMAIN row' = {"rc", "alerts"} /\ row'.alerts = Viw!SnapshotAlerts
        /\ row'.rc = IF Viw!SnapshotAlerts = {} THEN 0 ELSE 1
    BY <1>1
  <1>3. ASSUME NEW task \in {"test", "ci", "lint"}, Viw!CellStatus(Viw!CheckCell(task)) = "bad"
        PROVE  \E level \in {"critical", "warning"} : <<level, task>> \in Viw!SnapshotAlerts
    <2>1. DOMAIN checks = {"test", "ci", "lint", "process"} /\ checks[task] \in {"none", "pass", "fail", "unknown"}
      BY DEF ViewGiven, Viw!Checks
    <2>2. checks[task] = "fail"
      <3>1. CASE checks[task] = "none"
        BY <1>3, <3>1 DEF Viw!CheckCell, Viw!CellStatus
      <3>2. CASE checks[task] \in {"pass", "unknown"}
        BY <1>3, <3>2 DEF Viw!CheckCell, Viw!CellStatus
      <3> QED
        BY <2>1, <3>1, <3>2
    <2>3. CASE task = "lint"
      BY <2>2, <2>3 DEF Viw!SnapshotAlerts
    <2>4. CASE task # "lint"
      <3>1. <<"critical", task>> \in Viw!SnapshotAlerts
        BY <2>1, <2>2, <2>4 DEF Viw!SnapshotAlerts
      <3> QED
        BY <3>1
    <2> QED
      BY <2>3, <2>4
  <1>4. ASSUME Viw!CellStatus(Viw!HookHealth) \in {"bad", "warn"} PROVE <<"warning", "hooks">> \in Viw!SnapshotAlerts
    <2>1. Viw!HookHealth \in {"-", "missing", "partial", "stale", "ok"}
      <3>1. CASE Viw!Declared = {}
        BY <3>1 DEF Viw!HookHealth
      <3>2. CASE Viw!Declared # {}
        BY <3>2 DEF Viw!HookHealth
      <3> QED
        BY <3>1, <3>2
    <2>2. Viw!HookHealth \in {"missing", "partial"}
      BY <1>4, <2>1 DEF Viw!CellStatus
    <2> QED
      BY <2>2 DEF Viw!SnapshotAlerts
  <1>5. ~Viw!Printed("hooks")' /\ ~Viw!Printed("drift")' /\ ~Viw!Printed("latest")' /\ ~Viw!Printed("ci")'
        /\ ~Viw!Printed("status")' /\ Viw!Printed("alerts")'
    BY <1>2 DEF Viw!Printed
  <1>6. (/\ \A task \in {"test", "ci", "lint"} :
              Viw!CellStatus(Viw!CheckCell(task)) = "bad" => \E level \in {"critical", "warning"} : <<level, task>> \in row.alerts
         /\ Viw!CellStatus(Viw!HookHealth) \in {"bad", "warn"} => <<"warning", "hooks">> \in row.alerts
         /\ row.alerts = {} <=> row.rc = 0)'
    <2>1. \A word : Viw!CellStatus(word)' = Viw!CellStatus(word)
      BY DEF Viw!CellStatus
    <2>2. row'.alerts = {} <=> row'.rc = 0
      <3>1. CASE Viw!SnapshotAlerts = {}
        BY <1>2, <3>1
      <3>2. CASE Viw!SnapshotAlerts # {}
        BY <1>2, <3>2
      <3> QED
        BY <3>1, <3>2
    <2> QED
      BY <1>1, <1>2, <1>3, <1>4, <2>1, <2>2, ViewStands DEF Viw!CellStatus
  <1> QED
    BY <1>5, <1>6 DEF Viw!ViewIsTrue

\* upgrade-plan dispatches to who is known to be behind.
LEMMA PlanTells == ASSUME ViewGiven, Viw!UpgradePlan PROVE Viw!ViewIsTrue'
  <1>1. UNCHANGED Viw!given
        /\ row' = [rc |-> IF Viw!PlanStatus = "outdated" THEN 1 ELSE 0, status |-> Viw!PlanStatus,
                   plugin |-> Viw!PluginStatus, reason |-> Viw!UnknownReason, dispatched |-> Viw!PlanStatus = "outdated"]
    BY DEF Viw!UpgradePlan
  <1>2. DOMAIN row' = {"rc", "status", "plugin", "reason", "dispatched"}
    BY <1>1
  <1>3. row'.rc = (IF Viw!PlanStatus = "outdated" THEN 1 ELSE 0) /\ row'.status = Viw!PlanStatus
        /\ row'.plugin = Viw!PluginStatus /\ row'.reason = Viw!UnknownReason
    BY <1>1
  <1>4. row'.dispatched = (Viw!PlanStatus = "outdated")
    BY <1>1
  <1>5. /\ Viw!PlanStatus = "unknown" <=> own = {} \/ latest = {}
        /\ Viw!PlanStatus = "outdated" => \E u \in latest, v \in own : u > v
        /\ Viw!PluginStatus = "ok" => \E u \in shipped, v \in plugin : u <= v
    <2>1. own \in Viw!Known /\ latest \in Viw!Known /\ plugin \in Viw!Known /\ shipped \in Viw!Known
      BY DEF ViewGiven
    <2>2. "outdated" \notin {"ok", "unknown"} /\ "behind" \notin {"ok", "unknown"}
      OBVIOUS
    <2>3. /\ Viw!Standing(own, latest, "outdated") = "unknown" <=> own = {} \/ latest = {}
          /\ Viw!Standing(own, latest, "outdated") = "outdated" => \E u \in latest, v \in own : u > v
      BY <2>1, <2>2, StandingIs
    <2>4. Viw!Standing(plugin, shipped, "behind") = "ok" => \E u \in shipped, v \in plugin : u <= v
      BY <2>1, <2>2, StandingIs
    <2> QED
      BY <2>3, <2>4 DEF Viw!PlanStatus, Viw!PluginStatus
  <1>6. Viw!UnknownReason # "" <=> own = {} \/ latest = {}
    <2>1. CASE own = {}
      BY <2>1 DEF Viw!UnknownReason
    <2>2. CASE own # {} /\ latest = {}
      BY <2>2 DEF Viw!UnknownReason
    <2>3. CASE own # {} /\ latest # {}
      BY <2>3 DEF Viw!UnknownReason
    <2> QED
      BY <2>1, <2>2, <2>3
  <1>7. ~Viw!Printed("hooks")' /\ ~Viw!Printed("drift")' /\ ~Viw!Printed("latest")' /\ ~Viw!Printed("ci")'
        /\ Viw!Printed("status")' /\ ~Viw!Printed("alerts")'
    BY <1>2 DEF Viw!Printed
  <1>8. (/\ row.dispatched <=> row.status = "outdated"
         /\ row.status = "outdated" <=> row.rc = 1
         /\ row.status = "outdated" => \E u \in latest, v \in own : u > v
         /\ row.status = "unknown" <=> row.reason # ""
         /\ row.plugin = "ok" => \E u \in shipped, v \in plugin : u <= v)'
    <2>1. row'.dispatched <=> row'.status = "outdated"
      BY <1>3, <1>4
    <2>2. row'.status = "outdated" <=> row'.rc = 1
      <3>1. CASE Viw!PlanStatus = "outdated"
        BY <1>3, <3>1
      <3>2. CASE Viw!PlanStatus # "outdated"
        BY <1>3, <3>2
      <3> QED
        BY <3>1, <3>2
    <2>3. UNCHANGED <<own, latest, plugin, shipped>>
      BY <1>1, ViewStands
    <2> QED
      BY <1>3, <1>5, <1>6, <2>1, <2>2, <2>3
  <1> QED
    BY <1>7, <1>8 DEF Viw!ViewIsTrue

\* Nothing is printed at the start.
LEMMA ViewInit == Viw!Init => ViewInv
  <1> SUFFICES ASSUME Viw!Init PROVE ViewInv
    OBVIOUS
  <1>1. DOMAIN row = {}
    BY DEF Viw!Init
  <1>2. Viw!ViewIsTrue
    BY <1>1 DEF Viw!ViewIsTrue, Viw!Printed
  <1>3. column \in {"hooks", "versions", "filters"}
    BY DEF Viw!Init
  <1>4. clone \in Viw!Checkouts
    <2>1. CASE column = "hooks"
      BY <2>1 DEF Viw!Init
    <2>2. CASE column # "hooks"
      <3>1. PICK b \in {"new", "old"} :
              clone = [Viw!Bare EXCEPT !.source = [h \in Hooks |-> "new"], !.installed = [h \in Hooks |-> b]]
        <4>1. clone \in IF column = "hooks" THEN Viw!Checkouts
                        ELSE {[Viw!Bare EXCEPT !.source = [h \in Hooks |-> "new"], !.installed = [h \in Hooks |-> b]] :
                                b \in IF column = "filters" THEN {"new", "old"} ELSE {"new"}}
          BY DEF Viw!Init
        <4> QED
          BY <2>2, <4>1
      <3>2. clone = [git |-> "directory", dir |-> "in .git", source |-> [h \in Hooks |-> "new"],
                     installed |-> [h \in Hooks |-> b]]
        BY <3>1 DEF Viw!Bare
      <3>3. [h \in Hooks |-> "new"] \in [Hooks -> Viw!Bytes] /\ [h \in Hooks |-> b] \in [Hooks -> Viw!Bytes \ {"unreadable"}]
        BY DEF Viw!Bytes
      <3> QED
        BY <3>2, <3>3 DEF Viw!Checkouts
    <2> QED
      BY <2>1, <2>2
  <1>5. DOMAIN manifest \in {{}, Manifested}
        /\ \A f \in DOMAIN manifest : manifest[f] \in {"same", "edited", "too large", "unreadable", "gone"}
    <2>1. manifest \in Viw!Trees \cup {[f \in {} |-> ""]}
      BY DEF Viw!Init
    <2> QED
      BY <2>1 DEF Viw!Trees
  <1>6. expected \subseteq Hooks
    BY DEF Viw!Init
  <1>7. /\ own \in Viw!Known /\ others \subseteq Viw!Known /\ latest \in Viw!Known
        /\ plugin \in Viw!Known /\ shipped \in Viw!Known
    <2>1. {} \in Viw!Known /\ {{}} \subseteq Viw!Known
      BY DEF Viw!Known
    <2>0. /\ own \in IF column = "versions" THEN Viw!Known ELSE {{}}
          /\ others \in IF column = "versions" THEN SUBSET Viw!Known ELSE {{}}
          /\ latest \in IF column = "versions" THEN Viw!Known ELSE {{}}
          /\ plugin \in IF column = "versions" THEN Viw!Known ELSE {{}}
          /\ shipped \in IF column = "versions" THEN Viw!Known ELSE {{}}
      BY DEF Viw!Init
    <2>2. CASE column = "versions"
      BY <2>0, <2>2
    <2>3. CASE column # "versions"
      <3>1. own \in {{}} /\ others \in {{}} /\ latest \in {{}} /\ plugin \in {{}} /\ shipped \in {{}}
        BY <2>0, <2>3
      <3> QED
        BY <2>1, <3>1
    <2> QED
      BY <2>2, <2>3
  <1>8. checks \in Viw!Checks
    <2>1. Viw!Quiet \in Viw!Checks
      BY DEF Viw!Quiet, Viw!Checks
    <2> QED
      BY <2>1 DEF Viw!Init
  <1>9. where \subseteq Viw!Terms
    <2>1. [field |-> "ci", op |-> "=", text |-> "unknown"] \in Viw!Terms
      BY DEF Viw!Terms
    <2>2. CASE column = "filters"
      BY <2>2 DEF Viw!Init
    <2>3. CASE column # "filters"
      BY <2>1, <2>3 DEF Viw!Init
    <2> QED
      BY <2>2, <2>3
  <1> QED
    BY <1>2, <1>4, <1>5, <1>6, <1>7, <1>8, <1>9 DEF ViewInv, ViewGiven

LEMMA ViewStep ==
  ASSUME ViewInv, [Viw!Next]_(Viw!vars)
  PROVE  ViewInv'
  <1>1. UNCHANGED Viw!given
    BY DEF Viw!Next, Viw!Status, Viw!Notify, Viw!UpgradePlan, Viw!vars
  <1>2. ViewGiven'
    BY <1>1, ViewStands DEF ViewInv
  <1>3. Viw!ViewIsTrue'
    <2>1. CASE Viw!Next
      BY <2>1, StatusTells, NotifyTells, PlanTells DEF ViewInv, Viw!Next
    <2>2. CASE UNCHANGED Viw!vars
      <3>1. row' = row
        BY <2>2 DEF Viw!vars
      <3>2. \A word : Viw!CellStatus(word)' = Viw!CellStatus(word)
        BY DEF Viw!CellStatus
      <3>3. \A name : Viw!Printed(name)' = Viw!Printed(name)
        BY <3>1 DEF Viw!Printed
      <3>4. UNCHANGED <<manifest, expected, clone, own, others, latest, plugin, shipped, checks, where>>
        BY <1>1, ViewStands
      <3>5. (Viw!Printed("hooks") /\ Viw!IsRepository =>
               /\ row.hooks = "ok" => \A h \in Viw!Declared : /\ Viw!GitFinds(h) # "none"
                                                              /\ Viw!GitFinds(h) = "old" => clone.source[h] # "new"
               /\ row.hooks = "stale" => \E h \in Viw!Declared : {clone.source[h], Viw!GitFinds(h)} = {"old", "new"}
               /\ row.hooks \in {"missing", "partial"} => \E h \in Viw!Declared : Viw!GitFinds(h) = "none")'
        <4>1. Viw!Printed("hooks") /\ Viw!IsRepository =>
               /\ row.hooks = "ok" => \A h \in Viw!Declared : /\ Viw!GitFinds(h) # "none"
                                                              /\ Viw!GitFinds(h) = "old" => clone.source[h] # "new"
               /\ row.hooks = "stale" => \E h \in Viw!Declared : {clone.source[h], Viw!GitFinds(h)} = {"old", "new"}
               /\ row.hooks \in {"missing", "partial"} => \E h \in Viw!Declared : Viw!GitFinds(h) = "none"
          BY DEF ViewInv, Viw!ViewIsTrue
        <4>2. /\ Viw!Declared' = Viw!Declared /\ Viw!IsRepository' = Viw!IsRepository
              /\ \A h : Viw!GitFinds(h)' = Viw!GitFinds(h)
          BY <1>1, ViewStands
        <4> QED
          BY <3>1, <3>3, <3>4, <4>1, <4>2
      <3>6. (/\ Viw!Printed("drift") => (row.drift = "clean" => \A f \in Manifested : manifest[f] = "same")
             /\ Viw!Printed("latest") => (row.latest = "behind" <=> own # {} /\ \E v \in UNION others : v > Viw!Max(own)))'
        BY <3>1, <3>3, <3>4 DEF ViewInv, Viw!ViewIsTrue
      <3>7. (/\ Viw!Printed("ci") => \A term \in where :
                  /\ term.field = "ci" => /\ term.op # ">"
                                          /\ term.op = "=" /\ term.text = "fail" => row.ci = "fail"
                  /\ term.field = "drift" /\ term.op = ">" => row.drift = "drift"
             /\ (\E term \in where : term.field = "cli") /\ Viw!Printed("rc") /\ ~Viw!Printed("alerts")
                  /\ ~Viw!Printed("status") => row.rc = 2)'
        BY <3>1, <3>3, <3>4 DEF ViewInv, Viw!ViewIsTrue
      <3>8. (Viw!Printed("status") =>
               /\ row.dispatched <=> row.status = "outdated"
               /\ row.status = "outdated" <=> row.rc = 1
               /\ row.status = "outdated" => \E u \in latest, v \in own : u > v
               /\ row.status = "unknown" <=> row.reason # ""
               /\ row.plugin = "ok" => \E u \in shipped, v \in plugin : u <= v)'
        BY <3>1, <3>3, <3>4 DEF ViewInv, Viw!ViewIsTrue
      <3>9. (Viw!Printed("alerts") =>
               /\ \A task \in {"test", "ci", "lint"} :
                    Viw!CellStatus(Viw!CheckCell(task)) = "bad" => \E level \in {"critical", "warning"} : <<level, task>> \in row.alerts
               /\ Viw!CellStatus(Viw!HookHealth) \in {"bad", "warn"} => <<"warning", "hooks">> \in row.alerts
               /\ row.alerts = {} <=> row.rc = 0)'
        <4>1. (\A task \in {"test", "ci", "lint"} : Viw!CheckCell(task)' = Viw!CheckCell(task)) /\ Viw!HookHealth' = Viw!HookHealth
          BY <1>1, ViewStands
        <4> QED
          BY <3>1, <3>2, <3>3, <4>1 DEF ViewInv, Viw!ViewIsTrue, Viw!CellStatus
      <3> QED
        BY <3>5, <3>6, <3>7, <3>8, <3>9 DEF Viw!ViewIsTrue
    <2> QED
      BY <2>1, <2>2
  <1> QED
    BY <1>2, <1>3 DEF ViewInv

-----------------------------------------------------------------------------
(* Origins: what the checks against an origin say.                         *)

Comparable == {{}} \cup {{v} : v \in Nat}
Pins == [runtime : {"absent", "lower", "equal", "higher"}, tool : Seq(Org!Levels), typescript : Seq(Org!Levels),
         refs : SUBSET Org!Refs]
OriginsGiven ==
  /\ check \in {"freshness", "seams", "versions"}
  /\ ours \in [Blocks -> Org!Block] /\ theirs \in [Blocks -> Org!Block]
  /\ pinned \in Comparable /\ ships \in Comparable /\ declares \in Nat
  /\ seam \in [Seams -> Org!SeamRow] /\ lone \subseteq Org!Copies /\ tracked \in BOOLEAN
  /\ pins \in Pins /\ bot \in BOOLEAN
  /\ excepted \subseteq {"r", "other"} \X {"*", "tool", "action"}
OriginsInv == OriginsGiven /\ Org!OriginsAreTrue

\* Two blocks are as one to every reader when neither is there, or when they have one
\* shape and the same fields of the same types.
LEMMA BlocksCompared ==
  ASSUME OriginsGiven, NEW b \in Blocks
  PROVE  ~Org!Differs(b) <=>
           ~(\/ Org!Has(ours, b) # Org!Has(theirs, b)
             \/ /\ Org!Has(ours, b) /\ Org!Has(theirs, b)
                /\ \/ Org!Added(b) \cup Org!Removed(b) \cup Org!Retyped(b) # {}
                   \/ Org!Added(b) \cup Org!Removed(b) = {} /\ ours[b].shape # theirs[b].shape)
  <1>1. ours[b] \in Org!Block /\ theirs[b] \in Org!Block
    BY DEF OriginsGiven
  <1>2. \A x \in Org!Block : /\ x.fields \in [SchemaFields -> {Org!Absent, "text", "list"}]
                             /\ x.shape = Org!Absent => x.fields = [f \in SchemaFields |-> Org!Absent]
    BY DEF Org!Block, Org!NoBlock, Org!Absent
  <1>3. Org!Differs(b) <=> ours[b].shape # theirs[b].shape \/ ours[b].fields # theirs[b].fields
    BY DEF Org!Differs, Org!Contract
  <1>4. Org!Added(b) \cup Org!Removed(b) \cup Org!Retyped(b) = {} <=> ours[b].fields = theirs[b].fields
    <2>1. ours[b].fields \in [SchemaFields -> {Org!Absent, "text", "list"}]
          /\ theirs[b].fields \in [SchemaFields -> {Org!Absent, "text", "list"}]
      BY <1>1, <1>2
    <2>2. \A f \in SchemaFields : f \in Org!Added(b) \cup Org!Removed(b) \cup Org!Retyped(b)
                                    <=> ours[b].fields[f] # theirs[b].fields[f]
      BY DEF Org!Added, Org!Removed, Org!Retyped
    <2>3. Org!Added(b) \cup Org!Removed(b) \cup Org!Retyped(b) \subseteq SchemaFields
      BY DEF Org!Added, Org!Removed, Org!Retyped
    <2>4. (\A f \in SchemaFields : ours[b].fields[f] = theirs[b].fields[f]) <=> ours[b].fields = theirs[b].fields
      BY <2>1
    <2> QED
      BY <2>2, <2>3, <2>4
  <1>5. CASE ~Org!Has(ours, b) /\ ~Org!Has(theirs, b)
    BY <1>1, <1>2, <1>3, <1>5 DEF Org!Has
  <1>6. CASE Org!Has(ours, b) # Org!Has(theirs, b)
    <2>1. ours[b].shape # theirs[b].shape
      BY <1>6 DEF Org!Has
    <2> QED
      BY <1>3, <1>6, <2>1
  <1>7. CASE Org!Has(ours, b) /\ Org!Has(theirs, b)
    BY <1>3, <1>4, <1>7
  <1>8. Org!Has(ours, b) \in BOOLEAN /\ Org!Has(theirs, b) \in BOOLEAN
    BY DEF Org!Has
  <1> QED
    BY <1>5, <1>6, <1>7, <1>8

\* Fresh is said when everything was compared, stale when something differed.
LEMMA FreshnessTells == ASSUME OriginsGiven, Org!Freshness PROVE Org!OriginsAreTrue'
  <1> DEFINE drifts == Org!CompareSchema \cup Org!CompareFixtureVersion \cup Org!CompareContractVersion
  <1>0. Understood \in Nat
    BY JudgementsAssumption DEF JudgementsAssumption, Org!OriginsAssumption
  <1>1. /\ check = "freshness" /\ UNCHANGED Org!given
        /\ \/ drifts # {} /\ status' = "stale" /\ verdict' = 1
           \/ drifts = {} /\ status' = (IF arrived = {"schema", "version", "source"} THEN "fresh" ELSE "unknown")
              /\ verdict' = 0
    BY DEF Org!Freshness
  <1>2. UNCHANGED <<check, ours, theirs, pinned, ships, declares, arrived, seam, lone, tracked, pins, bot, excepted>>
    BY <1>1 DEF Org!given, Org!schemas
  <1>3. /\ \A b \in Blocks : Org!Differs(b)' = Org!Differs(b)
        /\ \A b \in Blocks : Org!Has(theirs, b)' = Org!Has(theirs, b)
    BY <1>2 DEF Org!Differs, Org!Contract, Org!Has
  <1>4. CASE drifts # {}
    <2>1. status' = "stale" /\ verdict' = 1
      BY <1>1, <1>4
    <2>2. CASE Org!CompareSchema # {}
      <3>1. PICK b \in Blocks :
              \/ Org!Has(ours, b) # Org!Has(theirs, b)
              \/ /\ Org!Has(ours, b) /\ Org!Has(theirs, b)
                 /\ \/ Org!Added(b) \cup Org!Removed(b) \cup Org!Retyped(b) # {}
                    \/ Org!Added(b) \cup Org!Removed(b) = {} /\ ours[b].shape # theirs[b].shape
        BY <2>2 DEF Org!CompareSchema
      <3>2. "schema" \in arrived /\ Org!Differs(b)
        <4>1. "schema" \in arrived
          BY <2>2 DEF Org!CompareSchema
        <4> QED
          BY <3>1, <4>1, BlocksCompared
      <3>3. "schema" \in arrived' /\ \E x \in Blocks : Org!Differs(x)'
        BY <1>2, <1>3, <3>2
      <3> QED
        BY <1>1, <1>2, <2>1, <3>3 DEF Org!OriginsAreTrue, Org!SeamsAreTrue
    <2>3. CASE Org!CompareFixtureVersion # {}
      <3>1. "version" \in arrived /\ \E p \in pinned, s \in ships : p < s
        BY <2>3 DEF Org!CompareFixtureVersion
      <3>2. PICK p \in pinned, s \in ships : p < s
        BY <3>1
      <3>3. pinned # ships
        <4>1. pinned = {p} /\ ships = {s} /\ p \in Nat /\ s \in Nat
          BY DEF OriginsGiven, Comparable
        <4>2. p # s
          BY <3>2, <4>1
        <4> QED
          BY <4>1, <4>2
      <3> QED
        BY <1>1, <1>2, <2>1, <3>1, <3>3 DEF Org!OriginsAreTrue, Org!SeamsAreTrue
    <2>4. CASE Org!CompareContractVersion # {}
      <3>1. "source" \in arrived /\ (declares = 0 \/ declares > Understood)
        BY <2>4 DEF Org!CompareContractVersion
      <3>2. declares \notin 1..Understood
        BY <1>0, <3>1 DEF OriginsGiven
      <3> QED
        BY <1>1, <1>2, <2>1, <3>1, <3>2 DEF Org!OriginsAreTrue, Org!SeamsAreTrue
    <2> QED
      BY <1>4, <2>2, <2>3, <2>4
  <1>5. CASE drifts = {} /\ arrived = {"schema", "version", "source"}
    <2>1. status' = "fresh" /\ verdict' = 0
      BY <1>1, <1>5
    <2>2. declares \in 1..Understood
      <3>1. ~(declares = 0 \/ declares > Understood)
        BY <1>5 DEF Org!CompareContractVersion
      <3> QED
        BY <1>0, <3>1 DEF OriginsGiven
    <2>3. (\E b \in Blocks : Org!Has(theirs, b)) => \A b \in Blocks : ~Org!Differs(b)
      <3> SUFFICES ASSUME \E b \in Blocks : Org!Has(theirs, b), NEW b \in Blocks PROVE ~Org!Differs(b)
        OBVIOUS
      <3>1. Org!CompareSchema = {} /\ "schema" \in arrived
        BY <1>5
      <3>2. ~(\/ Org!Has(ours, b) # Org!Has(theirs, b)
              \/ /\ Org!Has(ours, b) /\ Org!Has(theirs, b)
                 /\ \/ Org!Added(b) \cup Org!Removed(b) \cup Org!Retyped(b) # {}
                    \/ Org!Added(b) \cup Org!Removed(b) = {} /\ ours[b].shape # theirs[b].shape)
        BY <3>1 DEF Org!CompareSchema
      <3> QED
        BY <3>2, BlocksCompared
    <2>4. \A p \in pinned, s \in ships : p >= s
      <3>1. ~(\E p \in pinned, s \in ships : p < s)
        BY <1>5 DEF Org!CompareFixtureVersion
      <3>2. pinned \subseteq Nat /\ ships \subseteq Nat
        BY DEF OriginsGiven, Comparable
      <3> QED
        BY <3>1, <3>2
    <2>5. (\E b \in Blocks : Org!Has(theirs, b)') => \A b \in Blocks : ~Org!Differs(b)'
      BY <1>3, <2>3
    <2> QED
      BY <1>1, <1>2, <1>5, <2>1, <2>2, <2>4, <2>5 DEF Org!OriginsAreTrue, Org!SeamsAreTrue
  <1>6. CASE drifts = {} /\ arrived # {"schema", "version", "source"}
    <2>1. status' = "unknown" /\ verdict' = 0
      BY <1>1, <1>6
    <2> QED
      BY <1>1, <1>2, <1>6, <2>1 DEF Org!OriginsAreTrue, Org!SeamsAreTrue
  <1> QED
    BY <1>4, <1>5, <1>6

\* The exit code of seams is of the kinds it found.
LEMMA SeamsTell == ASSUME OriginsGiven, Org!JudgeSeams PROVE Org!OriginsAreTrue'
  <1> DEFINE judged == {s \in Seams : Org!One(seam[s]) # ""}
             kinds  == {Org!One(seam[s]) : s \in judged} \cup IF Org!Unregistered # {} THEN {"unregistered"} ELSE {}
             sum    == Org!Cardinality(judged) + Org!Cardinality(Org!Unregistered)
  <1>1. /\ check = "seams" /\ UNCHANGED Org!given /\ found' = kinds /\ status' = "judged"
        /\ verdict' = CASE kinds = {"unchecked"} /\ sum >= Org!Cardinality(Seams) -> 3
                        [] kinds = {"unchecked"} /\ sum < Org!Cardinality(Seams) -> 0
                        [] kinds = {} -> 0
                        [] OTHER -> 1
    BY DEF Org!JudgeSeams
  <1>2. UNCHANGED <<check, seam, lone, tracked>> /\ \A s \in Seams : seam[s].kind # "no manifest"
    BY <1>1 DEF Org!given, Org!JudgeSeams
  <1>3. sum \in Nat /\ Org!Cardinality(Seams) \in Nat
    <2>1. IsFiniteSet(Seams)
      BY JudgementsAssumption DEF JudgementsAssumption, Org!OriginsAssumption, Org!IsFiniteSet, IsFiniteSet
    <2>2. IsFiniteSet(judged)
      BY <2>1, FS_Subset
    <2>3. IsFiniteSet(Org!Unregistered)
      <3>1. IsFiniteSet({"a manifest", "under vendor", "a fixture schema", "under tests"})
        <4>1. IsFiniteSet({"a manifest"})
          BY FS_Singleton
        <4>2. IsFiniteSet({"a manifest"} \cup {"under vendor"})
          BY <4>1, FS_AddElement
        <4>3. IsFiniteSet(({"a manifest"} \cup {"under vendor"}) \cup {"a fixture schema"})
          BY <4>2, FS_AddElement
        <4>4. IsFiniteSet((({"a manifest"} \cup {"under vendor"}) \cup {"a fixture schema"}) \cup {"under tests"})
          BY <4>3, FS_AddElement
        <4>5. {"a manifest", "under vendor", "a fixture schema", "under tests"}
                = (({"a manifest"} \cup {"under vendor"}) \cup {"a fixture schema"}) \cup {"under tests"}
          OBVIOUS
        <4> QED
          BY <4>4, <4>5
      <3> QED
        BY <3>1, FS_Subset DEF OriginsGiven, Org!Unregistered, Org!Tracked, Org!Copies
    <2>4. \A S : IsFiniteSet(S) => Cardinality(S) \in Nat
      BY FS_CardinalityType
    <2>5. \A S : Org!Cardinality(S) = Cardinality(S)
      BY DEF Org!Cardinality, Cardinality
    <2>6. /\ Org!Cardinality(judged) \in Nat /\ Org!Cardinality(Org!Unregistered) \in Nat
          /\ Org!Cardinality(Seams) \in Nat
      <3> HIDE DEF judged
      <3> QED
        BY <2>1, <2>2, <2>3, <2>4, <2>5
    <2>7. \A x, y \in Nat : x + y \in Nat
      OBVIOUS
    <2> QED
      BY <2>6, <2>7
  <1> HIDE DEF sum
  <1>4. /\ verdict' = 0 => kinds \subseteq {"unchecked"}
        /\ verdict' = 1 => kinds \ {"unchecked"} # {}
        /\ verdict' = 3 => kinds = {"unchecked"}
    <2> HIDE DEF kinds
    <2>1. CASE kinds = {"unchecked"} /\ sum >= Org!Cardinality(Seams)
      <3>1. ~(sum < Org!Cardinality(Seams))
        BY <1>3, <2>1
      <3>2. verdict' = 3
        BY <1>1, <2>1, <3>1
      <3> QED
        BY <2>1, <3>2
    <2>2. CASE kinds = {"unchecked"} /\ ~(sum >= Org!Cardinality(Seams))
      <3>1. sum < Org!Cardinality(Seams)
        BY <1>3, <2>2
      <3>2. verdict' = 0
        BY <1>1, <2>2, <3>1
      <3> QED
        BY <2>2, <3>2
    <2>3. CASE kinds = {}
      <3>1. verdict' = 0
        BY <1>1, <2>3
      <3> QED
        BY <2>3, <3>1
    <2>4. CASE kinds # {} /\ kinds # {"unchecked"}
      <3>1. verdict' = 1
        BY <1>1, <2>4
      <3> QED
        BY <2>4, <3>1
    <2> QED
      BY <2>1, <2>2, <2>3, <2>4
  <1>5. ASSUME kinds \subseteq {"unchecked"}
        PROVE  /\ tracked => lone \subseteq Org!Covered \cup {"under tests"}
               /\ \A s \in Seams : /\ seam[s].kind \notin {"no copy", "no manifest"}
                                   /\ seam[s].kind = "vendor" /\ seam[s].moved => seam[s].lag # "beyond"
                                   /\ seam[s].kind = "contract" => seam[s].upstream \notin {"changed", "gone"}
    <2>1. Org!Unregistered = {}
      BY <1>5
    <2>2. \A s \in Seams : Org!One(seam[s]) \in {"", "unchecked"}
      BY <1>5
    <2>3. tracked => lone \subseteq Org!Covered \cup {"under tests"}
      BY <2>1 DEF Org!Unregistered, Org!Tracked
    <2>4. ASSUME NEW s \in Seams
          PROVE  /\ seam[s].kind \notin {"no copy", "no manifest"}
                 /\ seam[s].kind = "vendor" /\ seam[s].moved => seam[s].lag # "beyond"
                 /\ seam[s].kind = "contract" => seam[s].upstream \notin {"changed", "gone"}
      <3>1. ASSUME seam[s].kind \in {"no copy", "no manifest"} PROVE FALSE
        BY <1>2, <2>2, <3>1 DEF Org!One
      <3>2. ASSUME seam[s].kind = "vendor", seam[s].moved, seam[s].lag = "beyond" PROVE FALSE
        <4>1. Org!One(seam[s]) = Org!Vendor(seam[s])
          BY <3>2 DEF Org!One
        <4>2. Org!Vendor(seam[s]) = "stale"
          BY <3>2 DEF Org!Vendor, Org!Stale
        <4> QED
          BY <2>2, <4>1, <4>2
      <3>3. ASSUME seam[s].kind = "contract", seam[s].upstream \in {"changed", "gone"} PROVE FALSE
        <4>1. Org!One(seam[s]) = Org!ContractCopy(seam[s])
          BY <3>3 DEF Org!One
        <4>2. Org!ContractCopy(seam[s]) \in {"stale", "no-schema"}
          <5>1. seam[s].shows \in BOOLEAN
            BY <3>3 DEF OriginsGiven, Org!SeamRow
          <5> QED
            BY <3>3, <5>1 DEF Org!ContractCopy
        <4> QED
          BY <2>2, <4>1, <4>2
      <3> QED
        BY <3>1, <3>2, <3>3
    <2> QED
      BY <2>3, <2>4
  <1>6. ASSUME kinds \ {"unchecked"} # {}
        PROVE  Org!Unregistered # {} \/ \E s \in Seams : Org!Drifted(seam[s]) \/ Org!Unshown(seam[s])
    <2>1. PICK kind \in kinds : kind # "unchecked"
      BY <1>6
    <2>2. CASE Org!Unregistered # {}
      BY <2>2
    <2>3. CASE Org!Unregistered = {}
      <3>1. PICK s \in Seams : Org!One(seam[s]) \notin {"", "unchecked"}
        BY <2>1, <2>3
      <3>2. seam[s] \in Org!SeamRow
        BY DEF OriginsGiven
      <3>3. CASE seam[s].kind = "vendor"
        <4>1. Org!Vendor(seam[s]) \notin {"", "unchecked"}
          BY <3>1, <3>3 DEF Org!One
        <4>2. Org!Stale(seam[s]) /\ seam[s].lag \notin {"unknown", "within"}
          BY <4>1 DEF Org!Vendor
        <4>3. seam[s].lag \in {"unknown", "within", "beyond"} /\ seam[s].shows \in BOOLEAN /\ seam[s].moved \in BOOLEAN
          BY <3>2, <3>3 DEF Org!SeamRow
        <4>4. Org!Drifted(seam[s]) \/ Org!Unshown(seam[s])
          BY <3>3, <4>2, <4>3 DEF Org!Stale, Org!Drifted, Org!Unshown
        <4> QED
          BY <4>4
      <3>4. CASE seam[s].kind = "contract"
        <4>1. Org!ContractCopy(seam[s]) \notin {"", "unchecked"}
          BY <3>1, <3>4 DEF Org!One
        <4>2. seam[s].shows \in BOOLEAN
          BY <3>2, <3>4 DEF Org!SeamRow
        <4>3. ~seam[s].shows \/ seam[s].upstream \in {"changed", "gone"}
          BY <4>1, <4>2 DEF Org!ContractCopy
        <4>4. Org!Drifted(seam[s]) \/ Org!Unshown(seam[s])
          BY <3>4, <4>3 DEF Org!Drifted, Org!Unshown
        <4> QED
          BY <4>4
      <3>5. CASE seam[s].kind \notin {"vendor", "contract"}
        <4>1. seam[s].kind = "no copy"
          BY <3>1, <3>5 DEF Org!One
        <4> QED
          BY <4>1 DEF Org!Drifted
      <3> QED
        BY <3>3, <3>4, <3>5
    <2> QED
      BY <2>2, <2>3
  <1> HIDE DEF kinds
  <1>7. /\ Org!Covered' = Org!Covered /\ Org!Unregistered' = Org!Unregistered
        /\ \A s \in Seams : Org!Drifted(seam[s])' = Org!Drifted(seam[s])
        /\ \A s \in Seams : Org!Unshown(seam[s])' = Org!Unshown(seam[s])
    BY <1>2 DEF Org!Covered, Org!Unregistered, Org!Tracked, Org!Drifted, Org!Unshown
  <1>8. verdict' = 0 => /\ tracked' => lone' \subseteq Org!Covered' \cup {"under tests"}
                        /\ \A s \in Seams : /\ seam'[s].kind \notin {"no copy", "no manifest"}
                                            /\ seam'[s].kind = "vendor" /\ seam'[s].moved => seam'[s].lag # "beyond"
                                            /\ seam'[s].kind = "contract" => seam'[s].upstream \notin {"changed", "gone"}
    BY <1>2, <1>4, <1>5, <1>7
  <1>9. verdict' = 1 => Org!Unregistered' # {} \/ \E s \in Seams : Org!Drifted(seam[s])' \/ Org!Unshown(seam[s])'
    BY <1>4, <1>6, <1>7
  <1>10. check' = "seams" /\ status' = "judged"
    BY <1>1, <1>2
  <1> QED
    BY <1>1, <1>4, <1>8, <1>9, <1>10 DEF Org!OriginsAreTrue, Org!SeamsAreTrue

\* A manifest that cannot be read is a traceback, and its exit code says so.
LEMMA SeamsCrash == ASSUME OriginsGiven, Org!NoManifest PROVE Org!OriginsAreTrue'
  <1>1. check = "seams" /\ UNCHANGED Org!given /\ status' = "crashed" /\ verdict' = 1
    BY DEF Org!NoManifest
  <1>2. check' = "seams" /\ \E s \in Seams : seam'[s].kind = "no manifest"
    BY <1>1 DEF Org!NoManifest, Org!given
  <1>3. verdict' # 0 /\ verdict' # 3
    BY <1>1
  <1> QED
    BY <1>1, <1>2, <1>3 DEF Org!OriginsAreTrue, Org!SeamsAreTrue

\* versions exits 0 when every pin is the register's or excepted.
LEMMA VersionsTell == ASSUME OriginsGiven, Org!JudgeVersions PROVE Org!OriginsAreTrue'
  <1>1. /\ check = "versions" /\ UNCHANGED Org!given /\ status' = "judged"
        /\ verdict' = IF Org!Open # {} THEN 1 ELSE 0
    BY DEF Org!JudgeVersions
  <1>2. UNCHANGED <<check, pins, bot, excepted>>
    BY <1>1 DEF Org!given
  <1>3. verdict' = 1 => <<"r", "*">> \notin excepted
    <2> SUFFICES ASSUME <<"r", "*">> \in excepted PROVE verdict' = 0
      OBVIOUS
    <2>1. Org!Open = {}
      BY DEF Org!Open
    <2> QED
      BY <1>1, <2>1
  <1>4. ASSUME verdict' = 0, <<"r", "*">> \notin excepted
        PROVE  /\ pins.runtime \in {"absent", "equal"} /\ bot
               /\ pins.refs \subseteq {"registered"} \/ <<"r", "action">> \in excepted
               /\ Len(pins.tool) = 1 /\ pins.tool[1] \in {"lower", "unpinned"} => <<"r", "tool">> \in excepted
    <2>1. \A d \in Org!DriftOf : <<"r", d>> \in excepted
      <3>1. Org!Open = {}
        BY <1>1, <1>4
      <3>2. {d \in Org!DriftOf : <<"r", d>> \notin excepted} = {}
        BY <1>4, <3>1 DEF Org!Open
      <3> QED
        BY <3>2
    <2>2. <<"r", "runtime">> \notin excepted /\ <<"r", "update-bot">> \notin excepted
      BY DEF OriginsGiven
    <2>3. Org!Runtime = {} /\ Org!UpdateBot = {}
      BY <2>1, <2>2 DEF Org!DriftOf, Org!Runtime, Org!UpdateBot
    <2>4. pins.runtime \in {"absent", "equal"} /\ bot
      BY <2>3 DEF Org!Runtime, Org!UpdateBot
    <2>5. pins.refs \subseteq {"registered"} \/ <<"r", "action">> \in excepted
      BY <2>1 DEF Org!DriftOf, Org!Actions
    <2>6. ASSUME Len(pins.tool) = 1, pins.tool[1] \in {"lower", "unpinned"} PROVE <<"r", "tool">> \in excepted
      <3>1. pins.tool # <<>>
        BY <2>6
      <3>2. Org!Last2(pins.tool) \in {"unpinned", "lower"}
        BY <2>6 DEF Org!Last2
      <3>3. "tool" \in Org!Tools
        BY <3>1, <3>2 DEF Org!Tools
      <3> QED
        BY <2>1, <3>3 DEF Org!DriftOf
    <2> QED
      BY <2>4, <2>5, <2>6
  <1>5. verdict' # 3
    BY <1>1
  <1>6. check' = "versions" /\ status' = "judged"
    BY <1>1, <1>2
  <1> QED
    BY <1>2, <1>3, <1>4, <1>5, <1>6 DEF Org!OriginsAreTrue, Org!SeamsAreTrue

LEMMA OriginsInit == Org!Init => OriginsInv
  <1> SUFFICES ASSUME Org!Init PROVE OriginsInv
    OBVIOUS
  <1>0. MaxVersion \in Nat /\ Understood \in Nat
    BY JudgementsAssumption DEF JudgementsAssumption, Org!OriginsAssumption
  <1>1. check \in {"freshness", "seams", "versions"} /\ status = "" /\ verdict = 0
    BY DEF Org!Init
  <1>2. Org!OriginsAreTrue
    <2>1. status # "fresh" /\ status # "stale" /\ status # "unknown" /\ ~(status # "")
      BY <1>1
    <2>2. verdict # 1 /\ verdict # 3
      <3>1. 0 # 1 /\ 0 # 3
        OBVIOUS
      <3> QED
        BY <1>1, <3>1, Zenon
    <2> QED
      BY <2>1, <2>2, Zenon DEF Org!OriginsAreTrue, Org!SeamsAreTrue
  <1>3. Org!NoBlock \in Org!Block
    BY DEF Org!Block
  <1>4. /\ ours \in [Blocks -> Org!Block] /\ theirs \in [Blocks -> Org!Block]
        /\ pinned \in Comparable /\ ships \in Comparable /\ declares \in Nat
    <2>1. CASE check # "freshness"
      <3>1. ours = Org!Same /\ theirs = Org!Same /\ pinned = {} /\ ships = {} /\ declares = 0
        BY <2>1 DEF Org!Init
      <3> QED
        BY <1>3, <3>1 DEF Org!Same, Comparable
    <2>2. CASE /\ ours \in {s \in [Blocks -> Org!Block] : \E b \in Blocks : Org!Has(s, b) /\ s[b].prose = "old"}
               /\ theirs \in [Blocks -> Org!Block]
               /\ pinned = {1} /\ ships = {1} /\ declares = Understood
      <3>1. {1} \in Comparable
        BY DEF Comparable
      <3> QED
        BY <1>0, <2>2, <3>1
    <2>3. CASE /\ ours = [b \in Blocks |-> CHOOSE block \in Org!Block : block.shape = "any"]
               /\ theirs \in {ours, [b \in Blocks |-> CHOOSE block \in Org!Block : block.shape = "object"]}
               /\ pinned \in {{}} \cup {{v} : v \in 1..MaxVersion} /\ ships \in {{}} \cup {{v} : v \in 1..MaxVersion}
               /\ declares \in 0..Understood + 1
      <3> DEFINE filled(word) == [shape |-> word, fields |-> [f \in SchemaFields |-> Org!Absent], prose |-> "old"]
      <3>1. \A word \in {"any", "object"} : \E block \in Org!Block : block.shape = word
        <4> TAKE word \in {"any", "object"}
        <4>1. filled(word) \in Org!Block
          BY DEF Org!Block
        <4> QED
          BY <4>1
      <3>2. /\ (CHOOSE block \in Org!Block : block.shape = "any") \in Org!Block
            /\ (CHOOSE block \in Org!Block : block.shape = "object") \in Org!Block
        BY <3>1
      <3>3. 1..MaxVersion \subseteq Nat /\ declares \in Nat
        BY <1>0, <2>3
      <3>4. pinned \in Comparable /\ ships \in Comparable
        BY <2>3, <3>3 DEF Comparable
      <3>5. ours \in [Blocks -> Org!Block]
        BY <2>3, <3>2
      <3>6. theirs \in [Blocks -> Org!Block]
        BY <2>3, <3>2, <3>5
      <3> QED
        BY <3>3, <3>4, <3>5, <3>6
    <2> QED
      BY <2>1, <2>2, <2>3 DEF Org!Init
  <1>5. seam \in [Seams -> Org!SeamRow] /\ lone \subseteq Org!Copies /\ tracked \in BOOLEAN
    <2>1. [kind |-> "elsewhere"] \in Org!SeamRow
      BY DEF Org!SeamRow
    <2>2. /\ seam \in IF check = "seams" THEN [Seams -> Org!SeamRow] ELSE {[s \in Seams |-> [kind |-> "elsewhere"]]}
          /\ lone \in IF check = "seams" THEN SUBSET Org!Copies ELSE {{}}
          /\ tracked \in IF check = "seams" THEN BOOLEAN ELSE {TRUE}
      BY DEF Org!Init
    <2>3. CASE check = "seams"
      BY <2>2, <2>3
    <2>4. CASE check # "seams"
      BY <2>1, <2>2, <2>4
    <2> QED
      BY <2>3, <2>4
  <1>6. pins \in Pins /\ bot \in BOOLEAN /\ excepted \subseteq {"r", "other"} \X {"*", "tool", "action"}
    <2>1. /\ <<>> \in Seq(Org!Levels)
          /\ \A l \in Org!Levels : <<l>> \in Seq(Org!Levels)
      OBVIOUS
    <2>2. "lower" \in Org!Levels /\ "equal" \in Org!Levels
      BY DEF Org!Levels
    <2>3. <<"lower", "equal">> \in Seq(Org!Levels) /\ <<"equal", "lower">> \in Seq(Org!Levels)
      BY <2>2
    <2>4. CASE check = "versions"
      <3>1. pins \in [runtime : {"absent", "lower", "equal", "higher"},
                      tool : {<<>>} \cup {<<l>> : l \in Org!Levels} \cup {<<"lower", "equal">>, <<"equal", "lower">>},
                      typescript : {<<>>} \cup {<<l>> : l \in Org!Levels}, refs : SUBSET Org!Refs]
            /\ bot \in BOOLEAN
            /\ excepted \in {{}} \cup {{x} : x \in {"r", "other"} \X {"*", "tool", "action"}}
        BY <2>4 DEF Org!Init
      <3>2. {<<>>} \cup {<<l>> : l \in Org!Levels} \cup {<<"lower", "equal">>, <<"equal", "lower">>} \subseteq Seq(Org!Levels)
            /\ {<<>>} \cup {<<l>> : l \in Org!Levels} \subseteq Seq(Org!Levels)
        BY <2>1, <2>3
      <3> QED
        BY <3>1, <3>2 DEF Pins
    <2>5. CASE check # "versions"
      <3>1. pins = [runtime |-> "absent", tool |-> <<>>, typescript |-> <<>>, refs |-> {}] /\ bot = TRUE /\ excepted = {}
        BY <2>5 DEF Org!Init
      <3> QED
        BY <2>1, <3>1 DEF Pins
    <2> QED
      BY <2>4, <2>5
  <1> QED
    BY <1>1, <1>2, <1>4, <1>5, <1>6 DEF OriginsInv, OriginsGiven

LEMMA OriginsStep ==
  ASSUME OriginsInv, [Org!Next]_(Org!vars)
  PROVE  OriginsInv'
  <1>1. UNCHANGED <<check, ours, theirs, pinned, ships, declares, arrived, seam, lone, tracked, pins, bot, excepted>>
    BY DEF Org!Next, Org!Freshness, Org!JudgeSeams, Org!NoManifest, Org!JudgeVersions, Org!NoRegister, Org!vars, Org!given, Org!schemas
  <1>2. OriginsGiven'
    BY <1>1 DEF OriginsInv, OriginsGiven
  <1>3. CASE Org!NoRegister
    <2>1. check \in {"seams", "versions"} /\ verdict' = 3 /\ found' = {"unchecked"} /\ status' = "no register"
      BY <1>3 DEF Org!NoRegister
    <2>2. Org!OriginsAreTrue'
      <3>1. status' # "fresh" /\ status' # "stale" /\ status' # "unknown"
        BY <2>1
      <3>2. verdict' # 1 /\ verdict' # 0
        <4>1. 3 # 1 /\ 3 # 0
          OBVIOUS
        <4> QED
          BY <2>1, <4>1, Zenon
      <3> QED
        BY <2>1, <3>1, <3>2, Zenon DEF Org!OriginsAreTrue, Org!SeamsAreTrue
    <2> QED
      BY <1>2, <2>2 DEF OriginsInv
  <1>4. CASE UNCHANGED Org!vars
    <2>1. UNCHANGED <<status, found, verdict>>
      BY <1>4 DEF Org!vars
    <2>2. /\ \A b : Org!Differs(b)' = Org!Differs(b)
          /\ \A b : Org!Has(theirs, b)' = Org!Has(theirs, b)
          /\ Org!Covered' = Org!Covered /\ Org!Unregistered' = Org!Unregistered
          /\ \A s \in Seams : Org!Drifted(seam[s])' = Org!Drifted(seam[s])
          /\ \A s \in Seams : Org!Unshown(seam[s])' = Org!Unshown(seam[s])
      BY <1>1 DEF Org!Differs, Org!Contract, Org!Has, Org!Covered, Org!Unregistered, Org!Tracked, Org!Drifted,
                  Org!Unshown
    <2>3. Org!SeamsAreTrue'
      <3>1. Org!SeamsAreTrue
        BY DEF OriginsInv, Org!OriginsAreTrue
      <3> QED
        BY <1>1, <2>1, <2>2, <3>1 DEF Org!SeamsAreTrue
    <2>4. Org!OriginsAreTrue'
      BY <1>1, <2>1, <2>2, <2>3 DEF OriginsInv, Org!OriginsAreTrue
    <2> QED
      BY <1>2, <2>4 DEF OriginsInv
  <1> QED
    BY <1>2, <1>3, <1>4, FreshnessTells, SeamsTell, SeamsCrash, VersionsTell DEF OriginsInv, Org!Next

-----------------------------------------------------------------------------
(* Descriptor: what is made of what a project declares.                    *)

\* A file that does not parse is met with the memory block it would have by default.
DescriptorGiven ==
  /\ yaml \in {"mapping", "bad", "empty"}
  /\ contract.is \in {"absent", "integer", "word", "bool", "fraction"} /\ contract.n \in Int
  /\ tier.is \in {"absent", "integer", "word", "bool", "fraction"} /\ tier.n \in Nat
  /\ stack \in Cfg!Stacks /\ memoryPath \in Cfg!Paths /\ vault \in Cfg!Paths /\ graph \in Cfg!Paths
  /\ rag \in {"", "endpoint", Cfg!Mistyped} /\ scope \in {"", "project", "user", "other", Cfg!Mistyped}
  /\ context \in {"", "repo", "ambient", "other", Cfg!Mistyped} /\ heal \in {"", "fix", "notify", "other", Cfg!Mistyped}
  /\ observability \in Cfg!Paths
  /\ yaml # "mapping" => stack = "auto"
DescriptorInv == DescriptorGiven /\ Cfg!ReadingsAreTrue

\* Which version a file declares, and when it declares none that can be read.
LEMMA VersionIs ==
  ASSUME DescriptorGiven
  PROVE  /\ Cfg!Version \in Int
         /\ Cfg!Malformed(Cfg!Parsed(contract, Cfg!Absent)) <=>
              yaml = "mapping" /\ contract.is \notin {"absent", "integer"}
         /\ Cfg!Version = IF yaml = "mapping" /\ contract.is = "integer" THEN contract.n ELSE 0
  <1>1. CASE yaml = "mapping"
    <2>1. Cfg!Parsed(contract, Cfg!Absent) = contract
      BY <1>1 DEF Cfg!Parsed
    <2>2. Cfg!Malformed(contract) <=> contract.is \notin {"absent", "integer"}
      BY DEF DescriptorGiven, Cfg!Malformed, Cfg!IsIntegral
    <2>3. Cfg!Version = IF contract.is = "integer" THEN contract.n ELSE 0
      <3>1. CASE contract.is = "integer"
        BY <2>1, <3>1 DEF Cfg!Version, Cfg!AsInt, Cfg!IsIntegral
      <3>2. CASE contract.is # "integer"
        BY <2>1, <3>2 DEF DescriptorGiven, Cfg!Version, Cfg!AsInt, Cfg!IsIntegral
      <3> QED
        BY <3>1, <3>2
    <2>4. Cfg!Version \in Int
      <3>1. contract.n \in Int
        BY DEF DescriptorGiven
      <3>2. 0 \in Int
        OBVIOUS
      <3> QED
        BY <2>3, <3>1, <3>2
    <2> QED
      BY <1>1, <2>1, <2>2, <2>3, <2>4
  <1>2. CASE yaml # "mapping"
    <2>1. Cfg!Parsed(contract, Cfg!Absent) = Cfg!Absent
      BY <1>2 DEF Cfg!Parsed
    <2>2. Cfg!Absent.is = "absent"
      BY DEF Cfg!Absent
    <2>3. ~Cfg!Malformed(Cfg!Absent) /\ Cfg!Version = 0
      BY <2>1, <2>2 DEF Cfg!Version, Cfg!AsInt, Cfg!Malformed
    <2> QED
      BY <1>2, <2>1, <2>3
  <1> QED
    BY <1>1, <1>2

LEMMA LadderIs ==
  /\ DOMAIN Cfg!Ladder = {"auto", "obsidian-only", "obsidian-graphify", "obsidian-graphify-rag"}
  /\ \A s \in DOMAIN Cfg!Ladder : Cfg!Ladder[s] \in Nat
  <1>1. DOMAIN Cfg!Ladder = {"auto", "obsidian-only", "obsidian-graphify", "obsidian-graphify-rag"}
    BY DEF Cfg!Ladder
  <1>2. 0 \in Nat /\ 1 \in Nat /\ 2 \in Nat /\ 3 \in Nat
    OBVIOUS
  <1>3. /\ Cfg!Ladder["auto"] = 0 /\ Cfg!Ladder["obsidian-only"] = 1
        /\ Cfg!Ladder["obsidian-graphify"] = 2 /\ Cfg!Ladder["obsidian-graphify-rag"] = 3
    BY DEF Cfg!Ladder
  <1> QED
    BY <1>1, <1>2, <1>3

LEMMA BlockIs ==
  ASSUME DescriptorGiven
  PROVE  Cfg!HasMemoryBlock <=> yaml = "mapping" /\ stack # "no block"
  BY DEF DescriptorGiven, Cfg!HasMemoryBlock, Cfg!Parsed

\* A stack is declined by name, or by a file of a version that has no block.
LEMMA StackIs ==
  ASSUME DescriptorGiven
  PROVE  /\ Cfg!MemoryStack = "none" <=> Cfg!Declined
         /\ Cfg!HasMemoryBlock => Cfg!MemoryStack = IF stack \in {"", Cfg!Mistyped} THEN "unknown" ELSE stack
         /\ ~Cfg!HasMemoryBlock => Cfg!MemoryStack \in {"none", "unknown"}
  <1>1. CASE Cfg!HasMemoryBlock
    <2>1. yaml = "mapping" /\ stack # "no block"
      BY <1>1, BlockIs
    <2>2. Cfg!MemoryStack = IF stack \in {"", Cfg!Mistyped} THEN "unknown" ELSE stack
      BY <1>1 DEF Cfg!MemoryStack
    <2>3. Cfg!MemoryStack = "none" <=> stack = "none"
      BY <2>2 DEF Cfg!Mistyped
    <2> QED
      BY <1>1, <2>1, <2>2, <2>3 DEF Cfg!Declined
  <1>2. CASE ~Cfg!HasMemoryBlock /\ Cfg!Version >= 1
    <2>1. ~(Cfg!Version < 1)
      BY <1>2, VersionIs
    <2>2. Cfg!MemoryStack = "none"
      BY <1>2, <2>1 DEF Cfg!MemoryStack
    <2>3. yaml = "mapping" /\ stack = "no block"
      <3>1. Cfg!Version # 0
        BY <1>2, VersionIs
      <3>2. yaml = "mapping"
        BY <3>1, VersionIs
      <3> QED
        BY <1>2, <3>2, BlockIs
    <2> QED
      BY <1>2, <2>2, <2>3 DEF Cfg!Declined
  <1>3. CASE ~Cfg!HasMemoryBlock /\ Cfg!Version < 1
    <2>1. ~(Cfg!Version >= 1)
      BY <1>3, VersionIs
    <2>2. Cfg!MemoryStack = "unknown"
      BY <1>3, <2>1 DEF Cfg!MemoryStack
    <2>3. stack \in {"no block", "auto"}
      BY <1>3, BlockIs DEF DescriptorGiven
    <2>4. ~Cfg!Declined
      BY <2>1, <2>3 DEF Cfg!Declined
    <2> QED
      BY <1>3, <2>2, <2>4
  <1>4. Cfg!Version >= 1 \/ Cfg!Version < 1
    BY VersionIs
  <1> QED
    BY <1>1, <1>2, <1>3, <1>4

\* The tier of a memory is its stack's, or else the one declared.
LEMMA TierIs ==
  ASSUME DescriptorGiven
  PROVE  /\ Cfg!MemoryTier \in Nat
         /\ Cfg!HasMemoryBlock => Cfg!MemoryTier = Cfg!Rung
         /\ Cfg!HasMemoryBlock /\ stack \in DOMAIN Cfg!Ladder => Cfg!MemoryTier = Cfg!Ladder[stack]
         /\ Cfg!MemoryStack \in DOMAIN Cfg!Ladder <=> Cfg!HasMemoryBlock /\ stack \in DOMAIN Cfg!Ladder
  <1>1. Cfg!AsInt(tier) \in Nat /\ Cfg!AsInt(Cfg!Absent) = 0 /\ 0 \in Nat
    <2>1. Cfg!Absent.is = "absent"
      BY DEF Cfg!Absent
    <2> QED
      BY <2>1 DEF DescriptorGiven, Cfg!AsInt
  <1>2. /\ "none" \notin DOMAIN Cfg!Ladder /\ "unknown" \notin DOMAIN Cfg!Ladder
        /\ "" \notin DOMAIN Cfg!Ladder /\ Cfg!Mistyped \notin DOMAIN Cfg!Ladder
    BY LadderIs DEF Cfg!Mistyped
  <1>3. CASE ~Cfg!HasMemoryBlock
    <2>1. Cfg!MemoryStack \in {"none", "unknown"} /\ Cfg!DeclaredTier = Cfg!Absent
      BY <1>3, StackIs DEF Cfg!DeclaredTier
    <2>2. Cfg!MemoryTier = 0
      <3>1. CASE Cfg!MemoryStack = "none"
        BY <1>2, <3>1 DEF Cfg!MemoryTier
      <3>2. CASE Cfg!MemoryStack = "unknown"
        <4>1. Cfg!MemoryTier = Cfg!AsInt(Cfg!DeclaredTier)
          BY <1>2, <3>2 DEF Cfg!MemoryTier
        <4> QED
          BY <1>1, <2>1, <4>1
      <3> QED
        BY <2>1, <3>1, <3>2
    <2> QED
      BY <1>1, <1>2, <1>3, <2>1, <2>2
  <1>4. CASE Cfg!HasMemoryBlock /\ stack \in DOMAIN Cfg!Ladder
    <2>1. Cfg!MemoryStack = stack /\ stack # "none"
      BY <1>2, <1>4, StackIs
    <2>2. Cfg!MemoryTier = Cfg!Ladder[stack]
      BY <1>4, <2>1 DEF Cfg!MemoryTier
    <2>3. Cfg!Rung = Cfg!Ladder[stack]
      BY <1>4 DEF Cfg!Rung
    <2> QED
      BY <1>4, <2>1, <2>2, <2>3, LadderIs
  <1>5. CASE Cfg!HasMemoryBlock /\ stack = "none"
    <2>1. Cfg!MemoryStack = "none" /\ Cfg!Declined
      BY <1>5, StackIs DEF Cfg!Mistyped
    <2>2. Cfg!MemoryTier = 0
      BY <1>2, <2>1 DEF Cfg!MemoryTier
    <2>3. Cfg!Rung = 0
      BY <1>2, <1>5, <2>1 DEF Cfg!Rung
    <2> QED
      BY <1>1, <1>2, <1>5, <2>1, <2>2, <2>3
  <1>6. CASE Cfg!HasMemoryBlock /\ stack \notin DOMAIN Cfg!Ladder \cup {"none", Cfg!Mistyped}
    <2>1. Cfg!MemoryStack \notin DOMAIN Cfg!Ladder /\ Cfg!MemoryStack # "none" /\ ~Cfg!Declined
      <3>1. Cfg!MemoryStack \in {"unknown", stack}
        BY <1>6, StackIs
      <3>2. Cfg!MemoryStack \notin DOMAIN Cfg!Ladder /\ Cfg!MemoryStack # "none"
        BY <1>2, <1>6, <3>1
      <3> QED
        BY <3>2, StackIs
    <2>2. Cfg!DeclaredTier = tier
      BY <1>6 DEF Cfg!DeclaredTier
    <2>3. Cfg!MemoryTier = Cfg!AsInt(tier)
      BY <2>1, <2>2 DEF Cfg!MemoryTier
    <2>4. Cfg!Rung = Cfg!AsInt(tier)
      BY <1>6, <2>1 DEF Cfg!Rung
    <2> QED
      BY <1>1, <1>6, <2>1, <2>3, <2>4
  <1>7. CASE Cfg!HasMemoryBlock /\ stack = Cfg!Mistyped
    <2>1. Cfg!MemoryStack = "unknown" /\ Cfg!DeclaredTier = Cfg!Absent
      BY <1>7, StackIs DEF Cfg!DeclaredTier
    <2>2. Cfg!MemoryTier = 0
      <3>1. Cfg!MemoryTier = Cfg!AsInt(Cfg!DeclaredTier)
        BY <1>2, <2>1 DEF Cfg!MemoryTier
      <3> QED
        BY <1>1, <2>1, <3>1
    <2>3. Cfg!Rung = 0
      BY <1>2, <1>7 DEF Cfg!Rung
    <2> QED
      BY <1>1, <1>2, <1>7, <2>1, <2>2, <2>3
  <1> QED
    BY <1>3, <1>4, <1>5, <1>6, <1>7

\* The version doctor fails.
LEMMA ContractTells ==
  ASSUME DescriptorGiven
  PROVE  /\ Cfg!CheckContract \in {"negative", "unreadable", "absent or 0"} <=> Cfg!Version < ContractVersion
         /\ Cfg!CheckContract = "unreadable" <=> Cfg!Malformed(Cfg!Parsed(contract, Cfg!Absent))
         /\ Cfg!ContractLabel = "bad" <=> Cfg!Malformed(Cfg!Parsed(contract, Cfg!Absent))
  <1>0. /\ ContractVersion \in Nat \ {0} /\ ContractVersionMax \in Nat /\ ContractVersion <= ContractVersionMax
        /\ Cfg!Version \in Int
    BY JudgementsAssumption, VersionIs DEF JudgementsAssumption, Cfg!DescriptorAssumption
  <1>1. Cfg!Malformed(Cfg!Parsed(contract, Cfg!Absent)) => Cfg!Version = 0
    BY VersionIs
  <1>2. Cfg!ContractLabel = "bad" <=> Cfg!Malformed(Cfg!Parsed(contract, Cfg!Absent))
    <2>1. CASE Cfg!Malformed(Cfg!Parsed(contract, Cfg!Absent))
      BY <2>1 DEF Cfg!ContractLabel
    <2>2. CASE ~Cfg!Malformed(Cfg!Parsed(contract, Cfg!Absent))
      <3>1. Cfg!ContractLabel = IF Cfg!Version = 0 THEN "none" ELSE "version"
        BY <2>2 DEF Cfg!ContractLabel
      <3> QED
        BY <2>2, <3>1
    <2> QED
      BY <2>1, <2>2
  <1>3. CASE Cfg!Version < 0
    <2>1. /\ ~(Cfg!Version >= 0) /\ ~(Cfg!Version > ContractVersionMax)
          /\ Cfg!Version < ContractVersion /\ Cfg!Version # 0
      BY <1>0, <1>3
    <2>2. Cfg!CheckContract = "negative"
      BY <1>3, <2>1 DEF Cfg!CheckContract
    <2> QED
      BY <1>1, <1>2, <2>1, <2>2
  <1>4. CASE Cfg!Version >= 0 /\ Cfg!Version < ContractVersion
    <2>1. ~(Cfg!Version < 0) /\ ~(Cfg!Version > ContractVersionMax)
      BY <1>0, <1>4
    <2>2. Cfg!CheckContract = IF Cfg!Malformed(Cfg!Parsed(contract, Cfg!Absent)) THEN "unreadable" ELSE "absent or 0"
      BY <1>4, <2>1 DEF Cfg!CheckContract
    <2> QED
      BY <1>2, <1>4, <2>2
  <1>5. CASE Cfg!Version >= ContractVersion
    <2>1. ~(Cfg!Version < 0) /\ ~(Cfg!Version < ContractVersion) /\ Cfg!Version # 0
      BY <1>0, <1>5
    <2>2. Cfg!CheckContract \in {"newer", "ok"}
      <3>1. CASE Cfg!Version > ContractVersionMax
        BY <2>1, <3>1 DEF Cfg!CheckContract
      <3>2. CASE ~(Cfg!Version > ContractVersionMax)
        BY <2>1, <3>2 DEF Cfg!CheckContract
      <3> QED
        BY <3>1, <3>2
    <2> QED
      BY <1>1, <1>2, <2>1, <2>2
  <1>6. Cfg!Version < 0 \/ (Cfg!Version >= 0 /\ Cfg!Version < ContractVersion) \/ Cfg!Version >= ContractVersion
    BY <1>0
  <1> QED
    BY <1>3, <1>4, <1>5, <1>6

\* What each warning says is ignored.
LEMMA WarningsAre ==
  Cfg!Warnings = {} <=>
    /\ ~(yaml # "mapping")
    /\ ~Cfg!Malformed(Cfg!Parsed(contract, Cfg!Absent))
    /\ ~Cfg!Malformed(Cfg!DeclaredTier) /\ ~Cfg!TierDisagrees
    /\ ~(Cfg!Declared(memoryPath) # "" /\ ~Cfg!Contained(memoryPath))
    /\ ~Cfg!PathWarns(vault, 1) /\ ~Cfg!PathWarns(graph, 2)
    /\ ~(Cfg!Surface(rag) # "" /\ Cfg!MemoryTier < 3)
    /\ ~(Cfg!Parsed(scope, "") # "" /\ Cfg!Scope = "")
    /\ ~(Cfg!Parsed(context, "") # "" /\ Cfg!Legacy = "")
    /\ ~(Cfg!Text(Cfg!Parsed(heal, "")) # "" /\ Cfg!HealMode = "")
    /\ ~(Cfg!IsV2 /\ Cfg!Text(Cfg!Parsed(observability, "")) \notin {"", "inside"})
  <1>1. "yaml" \in Cfg!Warnings <=> yaml # "mapping"
    BY DEF Cfg!Warnings
  <1>2. "contract" \in Cfg!Warnings <=> Cfg!Malformed(Cfg!Parsed(contract, Cfg!Absent))
    BY DEF Cfg!Warnings
  <1>3. "tier" \in Cfg!Warnings <=> Cfg!Malformed(Cfg!DeclaredTier)
    BY DEF Cfg!Warnings
  <1>4. "disagrees" \in Cfg!Warnings <=> Cfg!TierDisagrees
    BY DEF Cfg!Warnings
  <1>5. "memory_path" \in Cfg!Warnings <=> Cfg!Declared(memoryPath) # "" /\ ~Cfg!Contained(memoryPath)
    BY DEF Cfg!Warnings
  <1>6. "vault_path" \in Cfg!Warnings <=> Cfg!PathWarns(vault, 1)
    BY DEF Cfg!Warnings
  <1>7. "graph_path" \in Cfg!Warnings <=> Cfg!PathWarns(graph, 2)
    BY DEF Cfg!Warnings
  <1>8. "rag_endpoint" \in Cfg!Warnings <=> Cfg!Surface(rag) # "" /\ Cfg!MemoryTier < 3
    BY DEF Cfg!Warnings
  <1>9. "scope" \in Cfg!Warnings <=> Cfg!Parsed(scope, "") # "" /\ Cfg!Scope = ""
    BY DEF Cfg!Warnings
  <1>10. "context" \in Cfg!Warnings <=> Cfg!Parsed(context, "") # "" /\ Cfg!Legacy = ""
    BY DEF Cfg!Warnings
  <1>11. "heal" \in Cfg!Warnings <=> Cfg!Text(Cfg!Parsed(heal, "")) # "" /\ Cfg!HealMode = ""
    BY DEF Cfg!Warnings
  <1>12. "observability" \in Cfg!Warnings <=> Cfg!IsV2 /\ Cfg!Text(Cfg!Parsed(observability, "")) \notin {"", "inside"}
    BY DEF Cfg!Warnings
  <1>13. Cfg!Warnings \subseteq {"yaml", "contract", "tier", "disagrees", "memory_path", "vault_path", "graph_path",
                                 "rag_endpoint", "scope", "context", "heal", "observability"}
    BY DEF Cfg!Warnings
  <1>14. Cfg!Warnings = {} <=>
           /\ "yaml" \notin Cfg!Warnings /\ "contract" \notin Cfg!Warnings /\ "tier" \notin Cfg!Warnings
           /\ "disagrees" \notin Cfg!Warnings /\ "memory_path" \notin Cfg!Warnings /\ "vault_path" \notin Cfg!Warnings
           /\ "graph_path" \notin Cfg!Warnings /\ "rag_endpoint" \notin Cfg!Warnings /\ "scope" \notin Cfg!Warnings
           /\ "context" \notin Cfg!Warnings /\ "heal" \notin Cfg!Warnings /\ "observability" \notin Cfg!Warnings
    BY <1>13
  <1> QED
    BY <1>1, <1>2, <1>3, <1>4, <1>5, <1>6, <1>7, <1>8, <1>9, <1>10, <1>11, <1>12, <1>14, Zenon

\* A path is read where it is declared, inside, of a tier that has it; any other is warned of.
LEMMA PathIs ==
  ASSUME DescriptorGiven, Cfg!HasMemoryBlock, stack # Cfg!Mistyped, NEW path \in Cfg!Paths, NEW minTier \in Nat
  PROVE  ~Cfg!PathWarns(path, minTier) <=> path \in {Cfg!Mistyped, Cfg!TierGatedPath(path, minTier)}
  <1>1. Cfg!Surface(path) = IF path = Cfg!Mistyped THEN "" ELSE path
    BY DEF Cfg!Surface, Cfg!Declared, Cfg!Text
  <1>2. Cfg!MemoryTier \in Nat
    BY TierIs
  <1>3. Cfg!MemoryTier >= minTier <=> ~(Cfg!MemoryTier < minTier)
    BY <1>2
  <1> QED
    BY <1>1, <1>3 DEF Cfg!PathWarns, Cfg!TierGatedPath, Cfg!Contained, Cfg!Mistyped

\* What of the memory block is honoured.
LEMMA MemoryIsHonoured ==
  ASSUME DescriptorGiven, yaml = "mapping"
  PROVE  (/\ ~Cfg!Malformed(Cfg!DeclaredTier) /\ ~Cfg!TierDisagrees
          /\ ~(Cfg!Declared(memoryPath) # "" /\ ~Cfg!Contained(memoryPath))
          /\ ~Cfg!PathWarns(vault, 1) /\ ~Cfg!PathWarns(graph, 2)
          /\ ~(Cfg!Surface(rag) # "" /\ Cfg!MemoryTier < 3))
         <=> (stack \notin {"no block", Cfg!Mistyped} =>
                /\ tier.is \in {"absent", "integer"} /\ memoryPath \in {"", Cfg!MemoryPath}
                /\ vault \in {Cfg!Mistyped, Cfg!TierGatedPath(vault, 1)}
                /\ graph \in {Cfg!Mistyped, Cfg!TierGatedPath(graph, 2)}
                /\ rag \in {Cfg!Mistyped, Cfg!TierGatedEndpoint}
                /\ stack \in DOMAIN Cfg!Ladder /\ tier.is = "integer" => tier.n = Cfg!Ladder[stack])
  <1>0. /\ vault \in Cfg!Paths /\ graph \in Cfg!Paths /\ memoryPath \in Cfg!Paths
        /\ tier.is \in {"absent", "integer", "word", "bool", "fraction"}
    BY DEF DescriptorGiven
  <1>1. CASE stack \in {"no block", Cfg!Mistyped}
    <2>1. ~Cfg!HasMemoryBlock \/ stack = Cfg!Mistyped
      BY <1>1, BlockIs
    <2>2. Cfg!DeclaredTier = Cfg!Absent /\ Cfg!Absent.is = "absent"
      BY <2>1 DEF Cfg!DeclaredTier, Cfg!Absent
    <2>3. ~Cfg!Malformed(Cfg!DeclaredTier) /\ ~Cfg!TierDisagrees
      BY <2>2 DEF Cfg!Malformed, Cfg!TierDisagrees
    <2>4. \A path : Cfg!Declared(path) = "" /\ Cfg!Surface(path) = ""
      BY <2>1 DEF Cfg!Surface, Cfg!Declared, Cfg!Text
    <2> QED
      BY <1>1, <2>3, <2>4 DEF Cfg!PathWarns
  <1>2. CASE stack \notin {"no block", Cfg!Mistyped}
    <2>1. Cfg!HasMemoryBlock /\ stack # Cfg!Mistyped
      BY <1>2, BlockIs
    <2>2. Cfg!DeclaredTier = tier /\ \A path : Cfg!Declared(path) = path
      BY <2>1 DEF Cfg!DeclaredTier, Cfg!Declared
    <2>3. Cfg!Malformed(tier) <=> tier.is \notin {"absent", "integer"}
      BY <1>0 DEF Cfg!Malformed, Cfg!IsIntegral
    <2>4. ~Cfg!Malformed(tier) =>
            (Cfg!TierDisagrees <=> stack \in DOMAIN Cfg!Ladder /\ tier.is = "integer" /\ tier.n # Cfg!Ladder[stack])
      <3> SUFFICES ASSUME tier.is \in {"absent", "integer"}
                   PROVE  Cfg!TierDisagrees <=>
                            stack \in DOMAIN Cfg!Ladder /\ tier.is = "integer" /\ tier.n # Cfg!Ladder[stack]
        BY <2>3
      <3>1. tier.is = "integer" => Cfg!AsInt(tier) = tier.n
        BY DEF Cfg!AsInt, Cfg!IsIntegral
      <3>2. Cfg!TierDisagrees <=> /\ Cfg!MemoryStack \in DOMAIN Cfg!Ladder /\ tier.is # "absent"
                                  /\ Cfg!AsInt(tier) # Cfg!MemoryTier
        BY <2>2, <2>3 DEF Cfg!TierDisagrees
      <3>3. Cfg!MemoryStack \in DOMAIN Cfg!Ladder <=> stack \in DOMAIN Cfg!Ladder
        BY <2>1, TierIs
      <3>4. stack \in DOMAIN Cfg!Ladder => Cfg!MemoryTier = Cfg!Ladder[stack]
        BY <2>1, TierIs
      <3> QED
        BY <3>1, <3>2, <3>3, <3>4
    <2>5. ~(Cfg!Declared(memoryPath) # "" /\ ~Cfg!Contained(memoryPath)) <=> memoryPath \in {"", Cfg!MemoryPath}
      BY <1>0, <2>2 DEF Cfg!Contained, Cfg!MemoryPath, Cfg!Paths, Cfg!Mistyped
    <2>6. ~Cfg!PathWarns(vault, 1) <=> vault \in {Cfg!Mistyped, Cfg!TierGatedPath(vault, 1)}
      <3>1. 1 \in Nat
        OBVIOUS
      <3> QED
        BY <1>0, <2>1, <3>1, PathIs
    <2>7. ~Cfg!PathWarns(graph, 2) <=> graph \in {Cfg!Mistyped, Cfg!TierGatedPath(graph, 2)}
      <3>1. 2 \in Nat
        OBVIOUS
      <3> QED
        BY <1>0, <2>1, <3>1, PathIs
    <2>8. ~(Cfg!Surface(rag) # "" /\ Cfg!MemoryTier < 3) <=> rag \in {Cfg!Mistyped, Cfg!TierGatedEndpoint}
      <3>1. Cfg!MemoryTier \in Nat
        BY TierIs
      <3>2. Cfg!MemoryTier >= 3 <=> ~(Cfg!MemoryTier < 3)
        BY <3>1
      <3>3. Cfg!Surface(rag) = IF rag = Cfg!Mistyped THEN "" ELSE rag
        BY <2>2 DEF Cfg!Surface, Cfg!Text
      <3> QED
        BY <3>2, <3>3 DEF Cfg!TierGatedEndpoint
    <2> QED
      BY <1>2, <2>2, <2>3, <2>4, <2>5, <2>6, <2>7, <2>8
  <1> QED
    BY <1>1, <1>2

\* Doctor fails who declares what is ignored, or a version that cannot be used.
LEMMA DoctorIs == ASSUME DescriptorGiven PROVE Cfg!DoctorStatus # "fail" <=> Cfg!Honoured
  <1>1. Cfg!DoctorStatus = "fail" <=> Cfg!Warnings # {} \/ Cfg!Version < ContractVersion
    <2>1. CASE Cfg!Warnings # {} \/ Cfg!Version < ContractVersion
      BY <2>1, ContractTells DEF Cfg!DoctorStatus
    <2>2. CASE ~(Cfg!Warnings # {} \/ Cfg!Version < ContractVersion)
      <3>1. Cfg!DoctorStatus = IF Cfg!Warns THEN "warn" ELSE "ok"
        BY <2>2, ContractTells DEF Cfg!DoctorStatus
      <3> QED
        BY <2>2, <3>1
    <2> QED
      BY <2>1, <2>2
  <1>2. CASE yaml # "mapping"
    <2>1. Cfg!Warnings # {} /\ ~Cfg!Honoured
      BY <1>2, WarningsAre DEF Cfg!Honoured
    <2> QED
      BY <1>1, <2>1
  <1>3. CASE yaml = "mapping"
    <2>0. /\ ContractVersion \in Nat \ {0} /\ Cfg!Version \in Int /\ contract.n \in Int
          /\ contract.is \in {"absent", "integer", "word", "bool", "fraction"}
      BY JudgementsAssumption, VersionIs DEF JudgementsAssumption, Cfg!DescriptorAssumption, DescriptorGiven
    <2>1. ~Cfg!Malformed(Cfg!Parsed(contract, Cfg!Absent)) /\ ~(Cfg!Version < ContractVersion)
            <=> contract.is = "integer" /\ contract.n >= ContractVersion
      <3>1. CASE contract.is = "integer"
        <4>1. Cfg!Version = contract.n /\ ~Cfg!Malformed(Cfg!Parsed(contract, Cfg!Absent))
          BY <1>3, <3>1, VersionIs
        <4> QED
          BY <2>0, <3>1, <4>1
      <3>2. CASE contract.is # "integer"
        <4>1. Cfg!Version = 0
          BY <3>2, VersionIs
        <4> QED
          BY <2>0, <3>2, <4>1
      <3> QED
        BY <3>1, <3>2
    <2>2. \A x : Cfg!Parsed(x, "") = x
      BY <1>3 DEF Cfg!Parsed
    <2>3. ~(scope # "" /\ Cfg!Scope = "") <=> scope \in {"", "project", "user"}
      BY <2>2 DEF Cfg!Scope, Cfg!ReadMarkerKey
    <2>4. ~(context # "" /\ Cfg!Legacy = "") <=> context \in {"", "repo", "ambient"}
      BY <2>2 DEF Cfg!Legacy, Cfg!ReadMarkerKey
    <2>5. ~(Cfg!Text(heal) # "" /\ Cfg!HealMode = "") <=> heal \in {Cfg!Mistyped, Cfg!HealMode}
      BY <2>2 DEF Cfg!HealMode, Cfg!Text, Cfg!Mistyped
    <2>6. contract.is = "integer" => (~(Cfg!IsV2 /\ Cfg!Text(observability) \notin {"", "inside"})
                                        <=> (contract.n >= 2 => observability \in {Cfg!Mistyped, Cfg!ObservabilityPath}))
      <3> SUFFICES ASSUME contract.is = "integer"
                   PROVE  ~(Cfg!IsV2 /\ Cfg!Text(observability) \notin {"", "inside"})
                            <=> (contract.n >= 2 => observability \in {Cfg!Mistyped, Cfg!ObservabilityPath})
        OBVIOUS
      <3>1. Cfg!IsV2 <=> contract.n >= 2
        BY <1>3, VersionIs DEF Cfg!IsV2
      <3>2. Cfg!IsV2 => Cfg!ObservabilityPath = IF observability = "inside" THEN observability ELSE ""
        BY <2>2 DEF Cfg!ObservabilityPath, Cfg!Contained, Cfg!Text, Cfg!Mistyped
      <3> QED
        BY <3>1, <3>2 DEF Cfg!Text
    <2>7. Cfg!Warnings = {} /\ ~(Cfg!Version < ContractVersion) => Cfg!Honoured
      <3> SUFFICES ASSUME Cfg!Warnings = {}, ~(Cfg!Version < ContractVersion) PROVE Cfg!Honoured
        OBVIOUS
      <3>1. contract.is = "integer" /\ contract.n >= ContractVersion
        BY <2>1, WarningsAre
      <3>2. stack \notin {"no block", Cfg!Mistyped} =>
              /\ tier.is \in {"absent", "integer"} /\ memoryPath \in {"", Cfg!MemoryPath}
              /\ vault \in {Cfg!Mistyped, Cfg!TierGatedPath(vault, 1)}
              /\ graph \in {Cfg!Mistyped, Cfg!TierGatedPath(graph, 2)}
              /\ rag \in {Cfg!Mistyped, Cfg!TierGatedEndpoint}
              /\ stack \in DOMAIN Cfg!Ladder /\ tier.is = "integer" => tier.n = Cfg!Ladder[stack]
        BY <1>3, MemoryIsHonoured, WarningsAre
      <3>3. /\ scope \in {"", "project", "user"} /\ context \in {"", "repo", "ambient"}
            /\ heal \in {Cfg!Mistyped, Cfg!HealMode}
            /\ contract.n >= 2 => observability \in {Cfg!Mistyped, Cfg!ObservabilityPath}
        BY <2>2, <2>3, <2>4, <2>5, <2>6, <3>1, WarningsAre
      <3> QED
        BY <1>3, <3>1, <3>2, <3>3 DEF Cfg!Honoured
    <2>8. Cfg!Honoured => Cfg!Warnings = {} /\ ~(Cfg!Version < ContractVersion)
      <3> SUFFICES ASSUME Cfg!Honoured PROVE Cfg!Warnings = {} /\ ~(Cfg!Version < ContractVersion)
        OBVIOUS
      <3>1. contract.is = "integer" /\ contract.n >= ContractVersion
        BY DEF Cfg!Honoured
      <3>2. ~Cfg!Malformed(Cfg!Parsed(contract, Cfg!Absent)) /\ ~(Cfg!Version < ContractVersion)
        BY <2>1, <3>1
      <3>3. /\ ~Cfg!Malformed(Cfg!DeclaredTier) /\ ~Cfg!TierDisagrees
            /\ ~(Cfg!Declared(memoryPath) # "" /\ ~Cfg!Contained(memoryPath))
            /\ ~Cfg!PathWarns(vault, 1) /\ ~Cfg!PathWarns(graph, 2)
            /\ ~(Cfg!Surface(rag) # "" /\ Cfg!MemoryTier < 3)
        BY <1>3, MemoryIsHonoured DEF Cfg!Honoured
      <3>4. /\ ~(scope # "" /\ Cfg!Scope = "") /\ ~(context # "" /\ Cfg!Legacy = "")
            /\ ~(Cfg!Text(heal) # "" /\ Cfg!HealMode = "") /\ ~(Cfg!IsV2 /\ Cfg!Text(observability) \notin {"", "inside"})
        BY <2>3, <2>4, <2>5, <2>6, <3>1 DEF Cfg!Honoured
      <3> QED
        BY <1>3, <2>2, <3>2, <3>3, <3>4, WarningsAre
    <2> QED
      BY <1>1, <2>7, <2>8
  <1> QED
    BY <1>2, <1>3

\* Either marker key opts out.
LEMMA ContextIs ==
  ASSUME DescriptorGiven
  PROVE  Cfg!Context = "ambient" <=> yaml = "mapping" /\ (scope = "user" \/ context = "ambient")
  <1>1. CASE yaml = "mapping"
    <2>1. \A x : Cfg!Parsed(x, "") = x
      BY <1>1 DEF Cfg!Parsed
    <2>2. Cfg!Scope = "user" <=> scope = "user"
      BY <2>1 DEF Cfg!Scope, Cfg!ReadMarkerKey
    <2>3. Cfg!Legacy = "ambient" <=> context = "ambient"
      BY <2>1 DEF Cfg!Legacy, Cfg!ReadMarkerKey
    <2>4. CASE Cfg!Legacy = "ambient" \/ Cfg!Scope = "user"
      BY <1>1, <2>2, <2>3, <2>4 DEF Cfg!Context
    <2>5. CASE ~(Cfg!Legacy = "ambient" \/ Cfg!Scope = "user")
      <3>1. Cfg!Context \in {"repo", ""}
        <4>1. CASE Cfg!Legacy = "repo" \/ Cfg!Scope = "project"
          BY <2>5, <4>1 DEF Cfg!Context
        <4>2. CASE ~(Cfg!Legacy = "repo" \/ Cfg!Scope = "project")
          BY <2>5, <4>2 DEF Cfg!Context
        <4> QED
          BY <4>1, <4>2
      <3> QED
        BY <2>2, <2>3, <2>5, <3>1
    <2> QED
      BY <2>4, <2>5
  <1>2. CASE yaml # "mapping"
    <2>1. \A x : Cfg!Parsed(x, "") = ""
      BY <1>2 DEF Cfg!Parsed
    <2>2. Cfg!Scope = "" /\ Cfg!Legacy = ""
      BY <2>1 DEF Cfg!Scope, Cfg!Legacy, Cfg!ReadMarkerKey
    <2>3. Cfg!Context = ""
      BY <2>2 DEF Cfg!Context
    <2> QED
      BY <1>2, <2>3
  <1> QED
    BY <1>1, <1>2

LEMMA DescriptorStands ==
  ASSUME UNCHANGED Cfg!given
  PROVE  /\ DescriptorGiven' = DescriptorGiven
         /\ UNCHANGED <<yaml, contract, stack, tier, scope, context, rag, graph, checkout>>
         /\ Cfg!Honoured' = Cfg!Honoured /\ Cfg!Declined' = Cfg!Declined /\ Cfg!Rung' = Cfg!Rung
  <1>1. UNCHANGED <<part, yaml, contract, stack, tier, memoryPath, vault, graph, rag, scope, context, heal,
                    observability, deploy, delivery, checkout>>
    BY DEF Cfg!given, Cfg!config
  <1>2. DescriptorGiven' = DescriptorGiven
    BY <1>1 DEF DescriptorGiven, Cfg!Stacks, Cfg!Ladder, Cfg!Paths, Cfg!Mistyped
  <1>3. Cfg!Version' = Cfg!Version
    BY <1>1 DEF Cfg!Version, Cfg!AsInt, Cfg!Parsed, Cfg!IsIntegral, Cfg!Absent
  <1>4. Cfg!HasMemoryBlock' = Cfg!HasMemoryBlock /\ Cfg!DeclaredTier' = Cfg!DeclaredTier
        /\ \A path : Cfg!Surface(path)' = Cfg!Surface(path) /\ Cfg!Declared(path)' = Cfg!Declared(path)
    BY <1>1 DEF Cfg!HasMemoryBlock, Cfg!Parsed, Cfg!DeclaredTier, Cfg!Absent, Cfg!Surface, Cfg!Declared, Cfg!Text,
                Cfg!Mistyped
  <1>5. Cfg!MemoryStack' = Cfg!MemoryStack /\ Cfg!Declined' = Cfg!Declined
    BY <1>1, <1>3, <1>4 DEF Cfg!MemoryStack, Cfg!Declined, Cfg!Mistyped
  <1>6. Cfg!MemoryTier' = Cfg!MemoryTier /\ Cfg!Rung' = Cfg!Rung
    BY <1>1, <1>4, <1>5 DEF Cfg!MemoryTier, Cfg!Rung, Cfg!AsInt, Cfg!IsIntegral, Cfg!Ladder, Cfg!Mistyped
  <1>7. Cfg!Honoured' = Cfg!Honoured
    <2>1. /\ Cfg!TierGatedPath(vault, 1)' = Cfg!TierGatedPath(vault, 1)
          /\ Cfg!TierGatedPath(graph, 2)' = Cfg!TierGatedPath(graph, 2)
          /\ Cfg!TierGatedEndpoint' = Cfg!TierGatedEndpoint /\ Cfg!MemoryPath' = Cfg!MemoryPath
      BY <1>1, <1>4, <1>6 DEF Cfg!TierGatedPath, Cfg!TierGatedEndpoint, Cfg!MemoryPath, Cfg!Surface,
                                  Cfg!Declared, Cfg!Text, Cfg!HasMemoryBlock, Cfg!Parsed, Cfg!Contained, Cfg!Mistyped
    <2>2. Cfg!HealMode' = Cfg!HealMode /\ Cfg!ObservabilityPath' = Cfg!ObservabilityPath
      BY <1>1, <1>3 DEF Cfg!HealMode, Cfg!ObservabilityPath, Cfg!IsV2, Cfg!Parsed, Cfg!Text, Cfg!Mistyped,
                            Cfg!Contained
    <2>3. Cfg!Ladder' = Cfg!Ladder /\ Cfg!Mistyped' = Cfg!Mistyped
      BY DEF Cfg!Ladder, Cfg!Mistyped
    <2> QED
      BY <1>1, <2>1, <2>2, <2>3 DEF Cfg!Honoured
  <1> QED
    BY <1>1, <1>2, <1>5, <1>6, <1>7

\* doctor passes who is honoured, and nobody else.
LEMMA DoctorTells == ASSUME DescriptorGiven, Cfg!Doctor PROVE Cfg!ReadingsAreTrue'
  <1>1. UNCHANGED Cfg!given
    BY DEF Cfg!Doctor, Cfg!Quiet
  <1>2. CASE shown' = [rc |-> 2]
    <2>1. DOMAIN shown' = {"rc"}
      BY <1>2
    <2> QED
      BY <2>1 DEF Cfg!ReadingsAreTrue, Cfg!Printed
  <1>3. CASE shown' = [rc |-> IF Cfg!DoctorStatus = "fail" THEN 1 ELSE 0, doctor |-> Cfg!DoctorStatus,
                       contract |-> Cfg!CheckContract, label |-> Cfg!ContractLabel, context |-> Cfg!Context]
    <2>1. /\ DOMAIN shown' = {"rc", "doctor", "contract", "label", "context"}
          /\ shown'.doctor = Cfg!DoctorStatus /\ shown'.rc = (IF Cfg!DoctorStatus = "fail" THEN 1 ELSE 0)
          /\ shown'.contract = Cfg!CheckContract /\ shown'.label = Cfg!ContractLabel /\ shown'.context = Cfg!Context
      BY <1>3
    <2>2. shown'.doctor # "fail" <=> Cfg!Honoured'
      BY <1>1, <2>1, DoctorIs, DescriptorStands
    <2>3. shown'.rc = 1 <=> shown'.doctor = "fail"
      <3>1. CASE Cfg!DoctorStatus = "fail"
        BY <2>1, <3>1
      <3>2. CASE Cfg!DoctorStatus # "fail"
        BY <2>1, <3>2
      <3> QED
        BY <3>1, <3>2
    <2>4. /\ shown'.label = "bad" <=> yaml' = "mapping" /\ contract'.is \notin {"absent", "integer"}
          /\ shown'.label = "bad" <=> shown'.contract = "unreadable"
      BY <1>1, <2>1, ContractTells, VersionIs, DescriptorStands
    <2>5. shown'.context = "ambient" <=> yaml' = "mapping" /\ (scope' = "user" \/ context' = "ambient")
      BY <1>1, <2>1, ContextIs, DescriptorStands
    <2>6. ~Cfg!Printed("items")' /\ ~Cfg!Printed("mode")'
      BY <2>1 DEF Cfg!Printed
    <2> QED
      BY <2>2, <2>3, <2>4, <2>5, <2>6 DEF Cfg!ReadingsAreTrue
  <1> QED
    BY <1>2, <1>3 DEF Cfg!Doctor

\* hardening asks for a memory of who has none and did not decline one.
LEMMA HardeningTells == ASSUME DescriptorGiven, Cfg!Hardening PROVE Cfg!ReadingsAreTrue'
  <1>1. UNCHANGED Cfg!given /\ shown' = [rc |-> IF Cfg!Items # {} THEN 1 ELSE 0, items |-> Cfg!Items]
    BY DEF Cfg!Hardening, Cfg!Quiet
  <1>2. DOMAIN shown' = {"rc", "items"} /\ shown'.items = Cfg!Items /\ shown'.rc = (IF Cfg!Items # {} THEN 1 ELSE 0)
    BY <1>1
  <1>3. "memory" \in Cfg!Items <=> ~Cfg!Declined /\ checkout.memory # "indexed"
    <2>1. "memory" \in Cfg!Items <=> "memory" \in Cfg!MemoryItems
      BY DEF Cfg!Items
    <2>2. "memory" \in Cfg!MemoryItems <=> Cfg!MemoryStack # "none" /\ checkout.memory # "indexed"
      BY DEF Cfg!MemoryItems
    <2> QED
      BY <2>1, <2>2, StackIs
  <1>4. shown'.rc = 0 <=> shown'.items = {}
    <2>1. CASE Cfg!Items = {}
      BY <1>2, <2>1
    <2>2. CASE Cfg!Items # {}
      BY <1>2, <2>2
    <2> QED
      BY <2>1, <2>2
  <1>5. "memory" \in shown'.items <=> ~Cfg!Declined' /\ checkout'.memory # "indexed"
    BY <1>1, <1>2, <1>3, DescriptorStands
  <1>6. ~Cfg!Printed("doctor")' /\ ~Cfg!Printed("mode")'
    BY <1>2 DEF Cfg!Printed
  <1> QED
    BY <1>4, <1>5, <1>6 DEF Cfg!ReadingsAreTrue

\* A search reads what is declared, inside the project and of the memory's tier.
LEMMA MemoryTells == ASSUME DescriptorGiven, Cfg!Memory PROVE Cfg!ReadingsAreTrue'
  <1>1. UNCHANGED Cfg!given
        /\ shown' = [mode |-> Cfg!RetrievalMode, read |-> Cfg!Notes \cup Cfg!Sources,
                     skipped |-> checkout.source = "unlistable"]
    BY DEF Cfg!Memory, Cfg!Quiet
  <1>2. DOMAIN shown' = {"mode", "read", "skipped"}
    BY <1>1
  <1>3. shown'.mode = Cfg!RetrievalMode /\ shown'.read = Cfg!Notes \cup Cfg!Sources
    BY <1>1
  <1>0. Cfg!MemoryTier \in Nat
    BY TierIs
  <1>4. ASSUME Cfg!RetrievalMode = "rag" PROVE rag = "endpoint" /\ Cfg!Rung >= 3
    <2>1. Cfg!MemoryTier >= 3 /\ Cfg!TierGatedEndpoint # ""
      <3> SUFFICES ASSUME ~(Cfg!MemoryTier >= 3 /\ Cfg!TierGatedEndpoint # "") PROVE FALSE
        OBVIOUS
      <3>1. CASE (Cfg!MemoryTier < 3 \/ Cfg!TierGatedEndpoint = "") /\ Cfg!MemoryTier >= 2 /\ Cfg!TierGatedPath(graph, 2) # ""
        BY <1>4, <3>1 DEF Cfg!RetrievalMode
      <3>2. CASE ~((Cfg!MemoryTier < 3 \/ Cfg!TierGatedEndpoint = "") /\ Cfg!MemoryTier >= 2 /\ Cfg!TierGatedPath(graph, 2) # "")
        BY <1>4, <3>2 DEF Cfg!RetrievalMode
      <3> QED
        BY <3>1, <3>2
    <2>2. Cfg!Surface(rag) # ""
      BY <2>1 DEF Cfg!TierGatedEndpoint
    <2>3. Cfg!HasMemoryBlock /\ rag = "endpoint"
      BY <2>2 DEF DescriptorGiven, Cfg!Surface, Cfg!Declared, Cfg!Text
    <2>4. Cfg!MemoryTier = Cfg!Rung
      BY <2>3, TierIs
    <2> QED
      BY <2>1, <2>3, <2>4
  <1>5. ASSUME "graph" \in Cfg!Notes \cup Cfg!Sources
        PROVE  /\ graph = "inside" /\ Cfg!Rung >= 2
               /\ stack \notin {"no block", Cfg!Mistyped}
    <2>1. Cfg!MemoryTier >= 2 /\ Cfg!TierGatedPath(graph, 2) # ""
      BY <1>5 DEF Cfg!Notes, Cfg!Sources
    <2>2. Cfg!Surface(graph) # "" /\ graph = "inside"
      BY <2>1 DEF Cfg!TierGatedPath, Cfg!Contained, Cfg!Surface, Cfg!Declared, Cfg!Text
    <2>3. Cfg!HasMemoryBlock /\ stack # Cfg!Mistyped
      BY <2>2 DEF Cfg!Surface, Cfg!Declared, Cfg!Text
    <2>4. Cfg!MemoryTier = Cfg!Rung /\ stack \notin {"no block", Cfg!Mistyped}
      BY <2>3, TierIs, BlockIs
    <2> QED
      BY <2>1, <2>2, <2>4
  <1>6. /\ checkout.memory # "missing" => "notes" \in Cfg!Notes \cup Cfg!Sources
        /\ "source" \in Cfg!Notes \cup Cfg!Sources <=> checkout.source = "listed"
    BY DEF Cfg!Notes, Cfg!Sources
  <1>7. ~Cfg!Printed("doctor")' /\ ~Cfg!Printed("items")'
    BY <1>2 DEF Cfg!Printed
  <1>8. /\ shown'.mode = "rag" => rag' = "endpoint" /\ Cfg!Rung' >= 3
        /\ "graph" \in shown'.read => /\ graph' = "inside" /\ Cfg!Rung' >= 2
                                       /\ stack' \notin {"no block", Cfg!Mistyped}
        /\ checkout'.memory # "missing" => "notes" \in shown'.read
        /\ "source" \in shown'.read <=> checkout'.source = "listed"
    BY <1>1, <1>3, <1>4, <1>5, <1>6, DescriptorStands
  <1> QED
    BY <1>7, <1>8 DEF Cfg!ReadingsAreTrue

LEMMA DescriptorInit == Cfg!Init => DescriptorInv
  <1> SUFFICES ASSUME Cfg!Init PROVE DescriptorInv
    OBVIOUS
  <1>1. Cfg!ReadingsAreTrue
    <2>1. DOMAIN shown = {}
      BY DEF Cfg!Init
    <2> QED
      BY <2>1 DEF Cfg!ReadingsAreTrue, Cfg!Printed
  <1>2. part \in {"memory", "markers", "repository"}
    BY DEF Cfg!Init
  <1>3. yaml \in {"mapping", "bad", "empty"} /\ (yaml # "mapping" => part = "markers")
    <2>1. yaml \in IF part = "markers" THEN {"mapping", "bad", "empty"} ELSE {"mapping"}
      BY DEF Cfg!Init
    <2> QED
      BY <2>1
  <1>4. \A x \in Cfg!Numbers : x.is \in {"absent", "word", "bool", "fraction"} /\ x.n \in {0, 1}
    BY DEF Cfg!Numbers, Cfg!Absent, Cfg!Broken
  <1>5. \A n : Cfg!Number(n).is = "integer" /\ Cfg!Number(n).n = n
    BY DEF Cfg!Number
  <1>6. 0 \in Nat /\ 1 \in Nat /\ 0 \in Int /\ 1 \in Int /\ 2 \in Int /\ 3 \in Int
    OBVIOUS
  <1>7. contract.is \in {"absent", "integer", "word", "bool", "fraction"} /\ contract.n \in Int
    <2>1. contract \in IF part = "markers" THEN Cfg!Numbers \cup {Cfg!Number(n) : n \in (-1)..(ContractVersionMax + 1)}
                       ELSE IF part = "memory" THEN {Cfg!Absent, Cfg!Number(1)}
                            ELSE {Cfg!Number(1), Cfg!Number(2), Cfg!Number(3)}
      BY DEF Cfg!Init
    <2>2. Cfg!Absent \in Cfg!Numbers
      BY DEF Cfg!Numbers
    <2>3. PICK n \in Int : contract \in Cfg!Numbers \cup {Cfg!Number(n)}
      <3>1. (-1)..(ContractVersionMax + 1) \subseteq Int
        OBVIOUS
      <3>2. CASE part = "markers"
        <4>1. contract \in Cfg!Numbers \cup {Cfg!Number(n) : n \in (-1)..(ContractVersionMax + 1)}
          BY <2>1, <3>2
        <4> QED
          BY <1>6, <3>1, <4>1
      <3>3. CASE part # "markers"
        <4>1. contract \in {Cfg!Absent, Cfg!Number(1), Cfg!Number(2), Cfg!Number(3)}
          BY <2>1, <3>3
        <4> QED
          BY <1>6, <2>2, <4>1
      <3> QED
        BY <3>2, <3>3
    <2> QED
      BY <1>4, <1>5, <1>6, <2>3
  <1>8. tier.is \in {"absent", "integer", "word", "bool", "fraction"} /\ tier.n \in Nat
    <2>1. tier \in IF part = "memory" THEN {Cfg!Absent, [is |-> "bool", n |-> 1]} \cup {Cfg!Number(n) : n \in 0..3}
                   ELSE {Cfg!Absent}
      BY DEF Cfg!Init
    <2>2. Cfg!Absent \in Cfg!Numbers /\ [is |-> "bool", n |-> 1] \in Cfg!Numbers
      BY DEF Cfg!Numbers, Cfg!Broken
    <2>3. PICK n \in Nat : tier \in Cfg!Numbers \cup {Cfg!Number(n)}
      <3>1. 0..3 \subseteq Nat
        OBVIOUS
      <3>2. tier \in Cfg!Numbers \cup {Cfg!Number(n) : n \in 0..3}
        BY <2>1, <2>2
      <3> QED
        BY <1>6, <3>1, <3>2
    <2> QED
      BY <1>4, <1>5, <1>6, <2>3
  <1>9. stack \in Cfg!Stacks /\ (part = "markers" => stack = "auto")
    <2>1. stack \in IF part = "memory" THEN Cfg!Stacks ELSE {"auto"}
      BY DEF Cfg!Init
    <2>2. "auto" \in Cfg!Stacks
      BY LadderIs DEF Cfg!Stacks
    <2> QED
      BY <2>1, <2>2
  <1>10. memoryPath \in Cfg!Paths /\ vault \in Cfg!Paths /\ graph \in Cfg!Paths /\ observability \in Cfg!Paths
    <2>1. /\ memoryPath \in IF part = "memory" THEN {"", "unresolvable", Cfg!Mistyped} ELSE {""}
          /\ vault \in IF part = "memory" THEN Cfg!Paths \ {"unresolvable"} ELSE {""}
          /\ graph \in IF part = "memory" THEN Cfg!Paths \ {"unresolvable", "escapes"} ELSE {""}
          /\ observability \in IF part = "markers" THEN Cfg!Paths ELSE {""}
      BY DEF Cfg!Init
    <2> QED
      BY <2>1 DEF Cfg!Paths
  <1>11. /\ rag \in {"", "endpoint", Cfg!Mistyped} /\ scope \in {"", "project", "user", "other", Cfg!Mistyped}
         /\ context \in {"", "repo", "ambient", "other", Cfg!Mistyped} /\ heal \in {"", "fix", "notify", "other", Cfg!Mistyped}
    <2>1. /\ rag \in IF part = "memory" THEN {"", "endpoint", Cfg!Mistyped} ELSE {""}
          /\ scope \in IF part = "markers" THEN {"", "project", "user", "other", Cfg!Mistyped} ELSE {""}
          /\ context \in IF part = "markers" THEN {"", "repo", "ambient", "other", Cfg!Mistyped} ELSE {""}
          /\ heal \in IF part = "markers" THEN {"", "fix", "notify", "other", Cfg!Mistyped} ELSE {""}
      BY DEF Cfg!Init
    <2> QED
      BY <2>1
  <1> QED
    BY <1>1, <1>3, <1>7, <1>8, <1>9, <1>10, <1>11 DEF DescriptorInv, DescriptorGiven

LEMMA DescriptorStep ==
  ASSUME DescriptorInv, [Cfg!Next]_(Cfg!vars)
  PROVE  DescriptorInv'
  <1>1. UNCHANGED Cfg!given
    BY DEF Cfg!Next, Cfg!Doctor, Cfg!Hardening, Cfg!Memory, Cfg!Quiet, Cfg!vars
  <1>2. DescriptorGiven'
    BY <1>1, DescriptorStands DEF DescriptorInv
  <1>3. CASE UNCHANGED Cfg!vars
    <2>1. shown' = shown
      BY <1>3 DEF Cfg!vars
    <2>2. /\ UNCHANGED <<yaml, contract, stack, tier, scope, context, rag, graph, checkout>>
          /\ Cfg!Honoured' = Cfg!Honoured /\ Cfg!Declined' = Cfg!Declined /\ Cfg!Rung' = Cfg!Rung
      BY <1>1, DescriptorStands
    <2>3. Cfg!ReadingsAreTrue'
      BY <2>1, <2>2 DEF DescriptorInv, Cfg!ReadingsAreTrue, Cfg!Printed
    <2> QED
      BY <1>2, <2>3 DEF DescriptorInv
  <1> QED
    BY <1>2, <1>3, DoctorTells, HardeningTells, MemoryTells DEF DescriptorInv, Cfg!Next

-----------------------------------------------------------------------------
(* The questions together: a step is a step of the module asked, and what  *)
(* the others left undecided is asked nothing.                             *)

JudgeInv ==
  /\ question = "discovery"  => DiscoveryInv
  /\ question = "probes"     => ProbesInv
  /\ question = "view"       => ViewInv
  /\ question = "origins"    => OriginsInv
  /\ question = "descriptor" => DescriptorInv
  /\ question = "tests"      => TestsInv
  /\ question = "estate"     => EstateInv
  /\ question = "meter"      => MeterInv

\* JudgeInit: the module asked starts in its own initial states.
LEMMA JudgeInitInv == JudgeInit => JudgeInv
  <1> SUFFICES ASSUME JudgeInit PROVE JudgeInv
    OBVIOUS
  <1>1. question = "discovery" => DiscoveryInv
    BY DiscoveryInit DEF JudgeInit
  <1>2. question = "probes" => ProbesInv
    BY ProbesInit DEF JudgeInit
  <1>3. question = "view" => ViewInv
    BY ViewInit DEF JudgeInit
  <1>4. question = "origins" => OriginsInv
    BY OriginsInit DEF JudgeInit
  <1>5. question = "descriptor" => DescriptorInv
    BY DescriptorInit DEF JudgeInit
  <1>6. question = "tests" => TestsInv
    BY TestsInit DEF JudgeInit
  <1>7. question = "estate" => EstateInv
    BY EstateInit DEF JudgeInit
  <1>8. question = "meter" => MeterInv
    BY MeterInit DEF JudgeInit
  <1> QED
    BY <1>1, <1>2, <1>3, <1>4, <1>5, <1>6, <1>7, <1>8 DEF JudgeInv

\* A step is one of the module asked, or leaves its state alone.
LEMMA JudgeStepsApart ==
  ASSUME [JudgeNext]_judgedVars
  PROVE  /\ question' = question
         /\ question = "discovery"  => [Dsc!Next]_(Dsc!vars)
         /\ question = "probes"     => [Prb!Next]_(Prb!vars)
         /\ question = "view"       => [Viw!Next]_(Viw!vars)
         /\ question = "origins"    => [Org!Next]_(Org!vars)
         /\ question = "descriptor" => [Cfg!Next]_(Cfg!vars)
         /\ question = "tests"      => [Tst!Next]_(Tst!vars)
         /\ question = "estate"     => [Est!Next]_(Est!vars)
         /\ question = "meter"      => [Mtr!Next]_(Mtr!vars)
  <1>1. CASE JudgeNext
    BY <1>1 DEF JudgeNext
  <1>2. CASE UNCHANGED judgedVars
    <2>1. /\ UNCHANGED question /\ UNCHANGED dscVars /\ UNCHANGED prbVars /\ UNCHANGED viwVars
          /\ UNCHANGED orgVars /\ UNCHANGED cfgVars /\ UNCHANGED tstVars /\ UNCHANGED estVars
          /\ UNCHANGED mtrVars
      BY <1>2 DEF judgedVars
    <2>2. UNCHANGED Dsc!vars
      BY <2>1 DEF dscVars, Dsc!vars
    <2>3. UNCHANGED Prb!vars
      BY <2>1 DEF prbVars, Prb!vars, Prb!given
    <2>4. UNCHANGED Viw!vars
      BY <2>1 DEF viwVars, Viw!vars, Viw!given
    <2>5. UNCHANGED Org!vars
      BY <2>1 DEF orgVars, Org!vars, Org!given, Org!schemas
    <2>6. UNCHANGED Cfg!vars
      BY <2>1 DEF cfgVars, Cfg!vars, Cfg!given, Cfg!config
    <2>7. UNCHANGED Tst!vars
      BY <2>1 DEF tstVars, Tst!vars, Tst!given
    <2>8. UNCHANGED Est!vars
      BY <2>1 DEF estVars, Est!vars, Est!situation
    <2>9. UNCHANGED Mtr!vars
      BY <2>1 DEF mtrVars, Mtr!vars, Mtr!given
    <2> QED
      BY <2>1, <2>2, <2>3, <2>4, <2>5, <2>6, <2>7, <2>8, <2>9
  <1> QED
    BY <1>1, <1>2

\* A step of any module keeps its invariant.
LEMMA JudgeStepInv ==
  ASSUME JudgeInv, [JudgeNext]_judgedVars
  PROVE  JudgeInv'
  <1>0. question' = question
    BY JudgeStepsApart
  <1>1. question = "discovery" => DiscoveryInv'
    BY JudgeStepsApart, DiscoveryStep DEF JudgeInv
  <1>2. question = "probes" => ProbesInv'
    BY JudgeStepsApart, ProbesStep DEF JudgeInv
  <1>3. question = "view" => ViewInv'
    BY JudgeStepsApart, ViewStep DEF JudgeInv
  <1>4. question = "origins" => OriginsInv'
    BY JudgeStepsApart, OriginsStep DEF JudgeInv
  <1>5. question = "descriptor" => DescriptorInv'
    BY JudgeStepsApart, DescriptorStep DEF JudgeInv
  <1>6. question = "tests" => TestsInv'
    BY JudgeStepsApart, TestsStep DEF JudgeInv
  <1>7. question = "estate" => EstateInv'
    BY JudgeStepsApart, EstateStep DEF JudgeInv
  <1>8. question = "meter" => MeterInv'
    BY JudgeStepsApart, MeterStep DEF JudgeInv
  <1> QED
    BY <1>0, <1>1, <1>2, <1>3, <1>4, <1>5, <1>6, <1>7, <1>8 DEF JudgeInv

\* Every reachable state of every question satisfies the invariant of its module.
THEOREM JudgeInvariance == JudgeSpec => []JudgeInv
  <1>1. JudgeInv /\ [JudgeNext]_judgedVars => JudgeInv'
    BY JudgeStepInv
  <1> QED
    BY JudgeInitInv, <1>1, PTL DEF JudgeSpec

\* Discovery and orphans (registry.py, orphans.py): one checkout of each repository unless
\* the operator listed the second, a word for everything governed, listed or broken that is
\* left out, and no word of "orphan" missing where the whole estate was read.
THEOREM FleetIsTrueHolds == JudgeSpec => []FleetIsTrue
  <1>1. JudgeInv => FleetIsTrue
    BY DiscoveryTells DEF JudgeInv, EstateInv, FleetIsTrue
  <1> QED
    BY <1>1, JudgeInvariance, PTL

\* ci and cloud-status (adapters/): a platform's word is passed on for what it is, whatever
\* the platform, and "unknown" is only said of what nobody knows.
THEOREM ProbesAreTrueHolds == JudgeSpec => []ProbesAreTrue
  <1>1. JudgeInv => ProbesAreTrue
    BY DEF JudgeInv, ProbesInv, ProbesAreTrue
  <1> QED
    BY <1>1, JudgeInvariance, PTL

\* fleet.py, notify.py, upgrade.py and cost.py: no table, filter, alert, plan or total takes
\* an unknown for a known, for any fleet of versions, hooks and logs.
THEOREM ViewIsTrueHolds == JudgeSpec => []ViewIsTrue
  <1>1. JudgeInv => ViewIsTrue
    BY DEF JudgeInv, ViewInv, MeterInv, ViewIsTrue
  <1> QED
    BY <1>1, JudgeInvariance, PTL

\* freshness.py, seams.py and the version checks: green only when every copy compared is as
\* its origin, and when it could be compared at all.
THEOREM OriginsAreTrueHolds == JudgeSpec => []OriginsAreTrue
  <1>1. JudgeInv => OriginsAreTrue
    BY DEF JudgeInv, OriginsInv, OriginsAreTrue
  <1> QED
    BY <1>1, JudgeInvariance, PTL

\* descriptor.py and its readers: what a config.yaml declares is honoured or warned of, never
\* taken for absent.
THEOREM ReadingsAreTrueHolds == JudgeSpec => []ReadingsAreTrue
  <1>1. JudgeInv => ReadingsAreTrue
    BY DEF JudgeInv, DescriptorInv, ReadingsAreTrue
  <1> QED
    BY <1>1, JudgeInvariance, PTL

\* test-fleet (testfleet.py): it exits 0 only when every repository that was asked for has a
\* row, the rows are of its tests, and none is red.
THEOREM RedIsNeverGreenHolds == JudgeSpec => []RedIsNeverGreen
  <1>1. JudgeInv => RedIsNeverGreen
    BY DEF JudgeInv, TestsInv, RedIsNeverGreen
  <1> QED
    BY <1>1, JudgeInvariance, PTL
=============================================================================
