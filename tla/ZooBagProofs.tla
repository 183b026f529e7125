-------------------------- MODULE ZooBagProofs -----------------------------
(***************************************************************************)
(* Proofs about the number of entries in the file of Zoo, for any set of   *)
(* drivers, ltp-bumps and pids: the file stays compact, and its lines      *)
(* implement the bag of ZooBag.  They rest on the invariant of ZooProofs:  *)
(* a write appends an entry to a file without blanks, fills a blank, or    *)
(* blanks one line.                                                        *)
(***************************************************************************)
EXTENDS ZooProofs, FiniteSetTheorems

\* Leaves are for Zenon, unless they name another prover.
USE ZenonT(30)

CInv == peak \in Nat /\ Compact

USE DEF Procs, Lines

LEMMA PeakCounts ==
  ASSUME IInv, CInv, NEW p \in Procs, Write(p)
  PROVE  CInv'
<1>1. /\ DOMAIN file' = 1..Len(file') /\ Len(file') \in Nat /\ peak \in Nat
      /\ DOMAIN file = 1..Len(file) /\ Len(file) \in Nat /\ arg[p] \in Pids
      /\ Appends(p) \/ Fills(p) \/ Blanks(p)
  BY WriteLine DEF CInv
<1>2. IsFiniteSet(Entries') /\ Cardinality(Entries') \in Nat
  <2>1. IsFiniteSet(1..Len(file'))
    BY <1>1, FS_Interval, SMTT(30)
  <2>2. Entries' \subseteq 1..Len(file')
    BY <1>1 DEF Entries
  <2> QED
    BY <2>1, <2>2, FS_Subset, FS_CardinalityType
<1>3. peak' \in Nat /\ peak <= peak' /\ Cardinality(Entries') <= peak'
  BY <1>1, <1>2, SMTT(30) DEF Write
<1>4. CASE Appends(p)
  <2>1. Entries' = 1..Len(file')
    <3>1. \A i \in 1..Len(file') : file'[i] # Blank
      BY <1>1, <1>4, NamesAssumption, SMTT(30) DEF Appends, LinesOf
    <3> QED
      BY <1>1, <3>1 DEF Entries
  <2>2. Len(file') = Len(file) + 1
    BY <1>4 DEF Appends
  <2>3. Cardinality(1..Len(file')) = Len(file')
    BY <1>1, <2>2, FS_Interval, SMTT(30)
  <2> QED
    BY <1>1, <1>3, <2>1, <2>3 DEF Compact, CInv
<1>5. CASE Fills(p) \/ Blanks(p)
  <2>1. Len(file') = Len(file)
    BY <1>5 DEF Fills, Blanks
  <2> QED
    BY <1>1, <1>3, <2>1, BoundsAssumption, SMTT(30) DEF Compact, CInv
<1> QED
  BY <1>1, <1>3, <1>4, <1>5

LEMMA Counted == Spec => []CInv
<1>1. Init => CInv
  BY BoundsAssumption, SMTT(30) DEF Init, CInv, Compact
<1>2. ASSUME IInv, CInv, [Next]_vars
      PROVE  CInv'
  <2>1. CASE UNCHANGED <<file, peak>>
    BY <1>2, <2>1 DEF CInv, Compact
  <2> QED
    BY <1>2, <2>1, OnlyWrites, PeakCounts
<1> QED
  BY Invariance, <1>1, <1>2, PTL DEF Spec

(* Every variable keeps its type: no search of a blank or of a pid yields  *)
(* a line outside the file, however the file has changed since.            *)
THEOREM TypeCorrect == Spec => []TypeOK
<1>1. IInv /\ CInv => TypeOK
  BY DEF IInv, CInv, TypeOK
<1> QED
  BY Invariance, Counted, <1>1, PTL

(* The file does not grow beyond the most entries it ever had to hold.     *)
THEOREM StaysCompact == Spec => []Compact
<1>1. CInv => Compact
  BY DEF CInv
<1> QED
  BY Counted, <1>1, PTL

Count(q) == Cardinality(LinesOf(file, q))

LEMMA CountType ==
  ASSUME IInv, NEW q
  PROVE  IsFiniteSet(LinesOf(file, q)) /\ Count(q) \in Nat
<1>1. DOMAIN file = 1..Len(file) /\ Len(file) \in Nat
  BY LenProperties DEF IInv, Types
<1>2. IsFiniteSet(1..Len(file))
  BY <1>1, FS_Interval, SMTT(30)
<1>3. LinesOf(file, q) \subseteq 1..Len(file)
  BY <1>1 DEF LinesOf
<1> QED
  BY <1>2, <1>3, FS_Subset, FS_CardinalityType DEF Count

(* A write adds an entry, takes one away, or leaves the bag alone.         *)
LEMMA WriteCounts ==
  ASSUME IInv, NEW p \in Procs, Write(p)
  PROVE  \/ \A r \in Pids : Count(r)' = Count(r)
         \/ \E q \in Pids : /\ Count(q)' = Count(q) + 1
                            /\ \A r \in Pids : r # q => Count(r)' = Count(r)
         \/ \E q \in Pids : /\ Count(q) > 0 /\ Count(q)' = Count(q) - 1
                            /\ \A r \in Pids : r # q => Count(r)' = Count(r)
<1> USE NamesAssumption
<1>1. /\ arg[p] \in Pids /\ (Appends(p) \/ Fills(p) \/ Blanks(p))
      /\ DOMAIN file = 1..Len(file) /\ Len(file) \in Nat
      /\ DOMAIN file' = 1..Len(file')
      /\ Len(file') \in Nat
  BY WriteLine
<1>0. \A r \in Pids : /\ Count(r) = Cardinality(LinesOf(file, r)) /\ Count(r) \in Nat
                      /\ Count(r)' = Cardinality(LinesOf(file', r))
                      /\ IsFiniteSet(LinesOf(file, r))
  BY CountType DEF Count, LinesOf
<1>2. CASE Appends(p) \/ Fills(p)
  <2>0. arg[p] \in Pids
    BY <1>1
  <2>1. PICK q \in Pids : q = arg[p]
    BY <2>0
  <2>2. /\ LinesOf(file', q) = LinesOf(file, q) \cup {pos[p]}
        /\ pos[p] \notin LinesOf(file, q)
        /\ \A r \in Pids : r # q => LinesOf(file', r) = LinesOf(file, r)
    <3>1. CASE Appends(p)
      <4>1. /\ pos[p] = Len(file) + 1 /\ Len(file') = Len(file) + 1
            /\ file'[pos[p]] = q
            /\ \A i \in DOMAIN file : file'[i] = file[i]
        BY <2>1, <3>1 DEF Appends
      <4>2. DOMAIN file' = DOMAIN file \cup {pos[p]} /\ pos[p] \notin DOMAIN file
        BY <1>1, <4>1, SMTT(30)
      <4> QED
        BY <4>1, <4>2 DEF LinesOf
    <3>2. CASE Fills(p)
      <4>1. /\ pos[p] \in DOMAIN file /\ file[pos[p]] = Blank /\ DOMAIN file' = DOMAIN file
            /\ \A i \in DOMAIN file : file'[i] = IF i = pos[p] THEN q ELSE file[i]
        BY <1>1, <2>1, <3>2 DEF Fills
      <4>2. ASSUME NEW r \in Pids, r # q
            PROVE  LinesOf(file', r) = LinesOf(file, r)
        BY <4>1, <4>2 DEF LinesOf
      <4> QED
        BY <4>1, <4>2 DEF LinesOf
    <3> QED
      BY <1>2, <3>1, <3>2
  <2>3. Count(q)' = Count(q) + 1
    <3>1. IsFiniteSet(LinesOf(file, q))
      BY <1>0
    <3>2. Cardinality(LinesOf(file, q) \cup {pos[p]}) = Cardinality(LinesOf(file, q)) + 1
      BY <2>2, <3>1, FS_AddElement
    <3> QED
      BY <1>0, <2>2, <3>2
  <2>4. \A r \in Pids : r # q => Count(r)' = Count(r)
    BY <1>0, <2>2
  <2> QED
    BY <2>3, <2>4
<1>3. CASE Blanks(p)
  <2>1. /\ pos[p] \in DOMAIN file /\ DOMAIN file' = DOMAIN file
        /\ \A i \in DOMAIN file : file'[i] = IF i = pos[p] THEN Blank ELSE file[i]
    BY <1>1, <1>3 DEF Blanks
  <2>2. CASE file[pos[p]] \notin Pids
    <3>1. ASSUME NEW r \in Pids
          PROVE  LinesOf(file', r) = LinesOf(file, r)
      BY <2>1, <2>2 DEF LinesOf
    <3> QED
      BY <1>0, <3>1
  <2>3. ASSUME NEW q \in Pids, file[pos[p]] = q
        PROVE  /\ Count(q) > 0 /\ Count(q)' = Count(q) - 1
               /\ \A r \in Pids : r # q => Count(r)' = Count(r)
    <3>1. /\ LinesOf(file', q) = LinesOf(file, q) \ {pos[p]} /\ pos[p] \in LinesOf(file, q)
          /\ \A r \in Pids : r # q => LinesOf(file', r) = LinesOf(file, r)
      BY <2>1, <2>3, SMTT(30) DEF LinesOf
    <3>2. /\ Cardinality(LinesOf(file, q) \ {pos[p]}) = Count(q) - 1
          /\ Cardinality(LinesOf(file, q) \ {pos[p]}) \in Nat
      BY <1>0, <3>1, FS_RemoveElement, FS_CardinalityType
    <3>3. Count(q)' = Count(q) - 1 /\ Count(q) > 0
      BY <1>0, <3>1, <3>2, SMTT(30)
    <3> QED
      BY <1>0, <3>1, <3>3
  <2> QED
    BY <2>2, <2>3
<1> QED
  BY <1>1, <1>2, <1>3

(* The locked searches and writes of any number of processes implement a   *)
(* bag of pids: at most one entry comes or goes in a step.                 *)
THEOREM ImplementsBag == Spec => BagSpec
<1> DEFINE bag == [q \in Pids |-> Cardinality(LinesOf(file, q))]
<1>1. Init => Bag!Init
  <2> SUFFICES ASSUME Init, NEW q \in Pids PROVE LinesOf(file, q) = {}
    BY FS_EmptySet DEF Bag!Init
  <2> QED
    BY NamesAssumption DEF Init, LinesOf
<1>2. ASSUME IInv, [Next]_vars
      PROVE  Bag!Next \/ bag' = bag
  <2>1. CASE file' = file
    BY <2>1 DEF LinesOf
  <2>2. ASSUME NEW p \in Procs, Write(p)
        PROVE  Bag!Next \/ bag' = bag
    <3>1. bag = [r \in Pids |-> Count(r)] /\ bag' = [r \in Pids |-> Count(r)']
      BY DEF Count
    <3> HIDE DEF bag
    <3>2. ASSUME \A r \in Pids : Count(r)' = Count(r)
          PROVE  bag' = bag
      BY <3>1, <3>2
    <3>3. ASSUME NEW q \in Pids, Count(q)' = Count(q) + 1,
                 \A r \in Pids : r # q => Count(r)' = Count(r)
          PROVE  bag' = [bag EXCEPT ![q] = @ + 1]
      BY <3>1, <3>3
    <3>4. ASSUME NEW q \in Pids, Count(q) > 0, Count(q)' = Count(q) - 1,
                 \A r \in Pids : r # q => Count(r)' = Count(r)
          PROVE  bag[q] > 0 /\ bag' = [bag EXCEPT ![q] = @ - 1]
      BY <3>1, <3>4
    <3>5. \/ bag' = bag
          \/ \E q \in Pids : \/ bag' = [bag EXCEPT ![q] = @ + 1]
                             \/ bag[q] > 0 /\ bag' = [bag EXCEPT ![q] = @ - 1]
      <4>1. \/ \A r \in Pids : Count(r)' = Count(r)
            \/ \E q \in Pids : /\ Count(q)' = Count(q) + 1
                               /\ \A r \in Pids : r # q => Count(r)' = Count(r)
            \/ \E q \in Pids : /\ Count(q) > 0 /\ Count(q)' = Count(q) - 1
                               /\ \A r \in Pids : r # q => Count(r)' = Count(r)
        BY <1>2, <2>2, WriteCounts
      <4> QED
        BY <3>2, <3>3, <3>4, <4>1
    <3> QED
      BY <3>5 DEF bag, Bag!Next, Bag!Mark, Bag!Clear
  <2> QED
    BY <1>2, <2>1, <2>2, OnlyWrites
<1>3. IInv /\ [Next]_vars => [Bag!Next]_bag
  BY <1>2
<1> QED
  BY Invariance, <1>1, <1>3, PTL DEF Spec, BagSpec, Bag!Spec
============================================================================
