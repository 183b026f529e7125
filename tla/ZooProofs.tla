----------------------------- MODULE ZooProofs -----------------------------
(***************************************************************************)
(* Proofs about Zoo for any set of drivers, ltp-bumps and pids.            *)
(*                                                                         *)
(* Whoever holds the lock knows the line it is going to write (PosInv): a  *)
(* driver because it has just read the file, an ltp-bump only as long as   *)
(* nobody wrote after its zoo_getpid() (BufInv).  From that follow which   *)
(* entries are in the file (ListInv), and when an entry that ltp-bump      *)
(* takes away was that of a dead process (DeadInv).                        *)
(***************************************************************************)
EXTENDS Zoo, TLAPS

\* Leaves are for Zenon, unless they name another prover.
USE ZenonT(30)

Working == {"lock", "search", "write", "unlock"}

LockInv == \A p \in Procs : stage[p] \in {"search", "write", "unlock"} => lock = p

(* Which operations a program calls, and with what.                        *)
OpInv == /\ \A p \in Pans : /\ stage[p] # "kill" /\ op[p] # "getpid"
                            /\ buffer[p] = None /\ p \notin fresh
         /\ \A b \in Bumps : /\ stage[b] \notin {"idle", "gone"} => op[b] # "mark"
                             /\ stage[b] = "kill" => op[b] = "getpid" /\ arg[b] \in Pids
         /\ \A p \in Procs : stage[p] \in Working /\ op[p] # "getpid" => arg[p] \in Pids

(* A driver works on its own pids, and clears those of dead processes.     *)
OwnInv == \A p \in Pans : stage[p] \in Working =>
             owner[arg[p]] = p /\ (op[p] = "clear" => arg[p] \notin proc)

PosAt(p) ==
    /\ op[p] = "mark" => \/ pos[p] \in DOMAIN file /\ file[pos[p]] = Blank
                         \/ pos[p] = Len(file) + 1 /\ LinesOf(file, Blank) = {}
    /\ op[p] # "mark" => op[p] = "clear" /\ pos[p] \in DOMAIN file
    /\ op[p] = "clear" /\ p \in Pans \cup fresh => file[pos[p]] = arg[p]

PosInv == \A p \in Procs : stage[p] = "write" => PosAt(p)

BufInv == \A b \in Bumps : buffer[b] # None =>
             Len(buffer[b]) <= Len(file) /\ (b \in fresh => buffer[b] = file)

(* The entry of a pid is in the file from the fflush() of its zoo_mark()   *)
(* until that of its zoo_clear().                                          *)
Written(q) == \/ Recorded(q)
              \/ /\ owner[q] # None
                 /\ \/ op[owner[q]] = "clear" /\ stage[owner[q]] \in {"lock", "search", "write"}
                    \/ op[owner[q]] = "mark" /\ stage[owner[q]] = "unlock"

ListInv == ~ bumped =>
              /\ \A q \in Pids : Written(q) => Listed(q)
              /\ \A p \in Pans : stage[p] = "unlock" /\ op[p] = "clear" => pos[p] # 0

(* An ltp-bump clears a pid it found dead; if the pid is in use again, its *)
(* new entry is not written yet.                                           *)
DeadInv == \A b \in Bumps \cap fresh :
              stage[b] \in Working /\ op[b] = "clear" /\ arg[b] \in proc =>
                \/ owner[arg[b]] = None
                \/ LET p == owner[arg[b]]
                   IN  /\ arg[p] = arg[b] /\ op[p] = "mark"
                       /\ stage[p] \in {"lock", "search", "write"}

IInv == Types /\ LockInv /\ OpInv /\ OwnInv /\ PosInv /\ BufInv /\ ListInv /\ DeadInv

----------------------------------------------------------------------------
USE DEF Procs, Lines

LEMMA LenProperties ==
  ASSUME NEW S, NEW s \in Seq(S)
  PROVE  Len(s) \in Nat /\ s \in [1..Len(s) -> S] /\ DOMAIN s = 1..Len(s)
  BY SMTT(30)

LEMMA ElementOfSeq ==
  ASSUME NEW S, NEW s \in Seq(S), NEW i \in 1..Len(s)
  PROVE  s[i] \in S
  BY SMTT(30)

LEMMA AppendProperties ==
  ASSUME NEW S, NEW s \in Seq(S), NEW e \in S
  PROVE  /\ Append(s, e) \in Seq(S) /\ Len(Append(s, e)) = Len(s) + 1
         /\ \A i \in 1..Len(s) : Append(s, e)[i] = s[i]
         /\ Append(s, e)[Len(s) + 1] = e
  BY SMTT(30)

LEMMA InitIInv == Init => IInv
<1> SUFFICES ASSUME Init PROVE IInv
  OBVIOUS
<1> USE NamesAssumption, BoundsAssumption DEF Init
<1>1. file \in Seq(Lines) /\ Len(file) = Reserved
  BY SMTT(30) DEF Init
<1>2. Types
  <2>1. /\ file \in Seq(Lines) /\ lock \in Procs \cup {None}
        /\ stage \in [Procs -> Stages] /\ op \in [Procs -> Ops]
        /\ arg \in [Procs -> Pids \cup {None}] /\ pos \in [Procs -> Nat]
        /\ owner \in [Pids -> Pans \cup {None}]
        /\ orphans \subseteq Pids /\ proc \subseteq Pids
        /\ fresh \subseteq Procs /\ bumped \in BOOLEAN 
    BY <1>1 DEF Stages, Ops
  <2>2. buffer \in [Procs -> Seq(Lines) \cup {None}]
    OBVIOUS
  <2>3. /\ starts \in 0..MaxStarts /\ lookups \in 0..MaxLookups
        /\ crashes \in 0..MaxCrashes /\ errors \in 0..MaxErrors
    BY SMTT(30)
  <2> QED
    BY <2>1, <2>2, <2>3 DEF Types
<1>3. LockInv /\ OpInv /\ OwnInv /\ PosInv /\ BufInv
  BY DEF LockInv, OpInv, OwnInv, PosInv, PosAt, BufInv, Working
<1>4. ListInv /\ DeadInv
  BY DEF ListInv, DeadInv, Written, Recorded
<1> QED
  BY <1>1, <1>2, <1>3, <1>4 DEF IInv

(* What has been read from the start on has the length of the file, and is *)
(* the file for a driver and for an ltp-bump nobody has written after.     *)
LEMMA ViewReads ==
  ASSUME IInv, NEW p \in Procs
  PROVE  /\ DOMAIN View(p) = DOMAIN file /\ DOMAIN file = 1..Len(file) /\ Len(file) \in Nat
         /\ Kept(p) \in Seq(Lines)
         /\ \A i \in DOMAIN file : View(p)[i] \in Lines
         /\ p \in Pans \cup fresh => View(p) = file
<1>1. file \in Seq(Lines) /\ Kept(p) \in Seq(Lines)
  BY DEF IInv, Types, Kept
<1>2. \A i \in DOMAIN file : file[i] \in Lines
  BY <1>1, ElementOfSeq, LenProperties
<1>3. \A i \in DOMAIN Kept(p) : Kept(p)[i] \in Lines
  BY <1>1, ElementOfSeq, LenProperties
<1>4. DOMAIN file = 1..Len(file) /\ Len(file) \in Nat
  BY <1>1, LenProperties
<1>5. \A i \in DOMAIN file : View(p)[i] \in Lines
  BY <1>2, <1>3 DEF View
<1>6. ASSUME p \in Pans \cup fresh PROVE View(p) = file
  <2>1. Kept(p) = file
    BY <1>6 DEF IInv, OpInv, BufInv, Kept, Types
  <2> QED
    BY <1>1, <2>1, SMTT(30) DEF View
<1> QED
  BY <1>1, <1>4, <1>5, <1>6 DEF View

LEMMA LockStep ==
  ASSUME IInv, NEW p \in Procs, Lock(p)
  PROVE  IInv'
<1> USE NamesAssumption DEF IInv, Lock, cmds, bounds, history
<1>1. Types' /\ LockInv'
  <2>1. stage' \in [Procs -> Stages] /\ \A r \in Procs : r # p => stage'[r] = stage[r]
    BY DEF Types, Stages
  <2>2. Types'
    BY <2>1 DEF Types
  <2>3. ASSUME NEW r \in Procs, r # p PROVE lock # r
    BY <2>3
  <2>4. lock' = p /\ LockInv
    OBVIOUS
  <2>5. LockInv'
    BY <2>1, <2>3, <2>4 DEF LockInv
  <2> QED
    BY <2>2, <2>5
<1>2. OpInv' /\ OwnInv' /\ PosInv' /\ BufInv'
  BY SMTT(30) DEF Types, OpInv, OwnInv, PosInv, PosAt, BufInv, Working, LinesOf
<1>3. ListInv'
  BY SMTT(30) DEF Types, ListInv, Written, Recorded, Listed, LinesOf
<1>4. DeadInv'
  BY SMTT(30) DEF Types, DeadInv, Working
<1> QED
  BY <1>1, <1>2, <1>3, <1>4

LEMMA SearchMarkStep ==
  ASSUME IInv, NEW p \in Pans, SearchMark(p)
  PROVE  IInv'
<1> USE NamesAssumption DEF IInv, SearchMark, disk, cmds, bounds, history
<1>1. /\ DOMAIN file = 1..Len(file) /\ Len(file) \in Nat /\ View(p) = file
      /\ pos'[p] \in Nat /\ \A r \in Procs : r # p => pos'[r] = pos[r]
      /\ \/ pos'[p] \in DOMAIN file /\ file[pos'[p]] = Blank
         \/ pos'[p] = Len(file) + 1 /\ LinesOf(file, Blank) = {}
      /\ pos' \in [Procs -> Nat]
  <2>1. DOMAIN file = 1..Len(file) /\ Len(file) \in Nat /\ View(p) = file /\ pos \in [Procs -> Nat]
    BY ViewReads DEF Types
  <2>2. CASE LinesOf(file, Blank) = {} /\ pos' = [pos EXCEPT ![p] = Len(file) + 1]
    BY <2>1, <2>2, SMTT(30)
  <2>3. ASSUME NEW i \in DOMAIN file, IsFirst(i, file, Blank), pos' = [pos EXCEPT ![p] = i]
        PROVE  <1>1!:
    BY <2>1, <2>3, SMTT(30) DEF IsFirst, LinesOf
  <2> QED
    BY <2>1, <2>2, <2>3
<1>2. Types' /\ LockInv'
  BY <1>1 DEF Types, LockInv, Stages
<1>3. OpInv' /\ OwnInv' /\ BufInv'
  BY DEF Types, OpInv, OwnInv, BufInv, Working
<1>4. PosInv'
  BY <1>1, SMTT(30) DEF Types, PosInv, PosAt, OpInv, LinesOf
<1>5. ListInv'
  BY <1>1, SMTT(30) DEF Types, ListInv, Written, Recorded, Listed, LinesOf
<1>6. DeadInv'
  BY SMTT(30) DEF Types, DeadInv, Working
<1> QED
  BY <1>2, <1>3, <1>4, <1>5, <1>6

LEMMA SearchClearStep ==
  ASSUME IInv, NEW p \in Procs, SearchClear(p)
  PROVE  IInv'
<1> USE NamesAssumption DEF IInv, SearchClear, disk, cmds, bounds, history
<1>1. /\ DOMAIN file = 1..Len(file) /\ Len(file) \in Nat
      /\ pos' \in [Procs -> Nat] /\ \A r \in Procs : r # p => pos'[r] = pos[r]
      /\ stage'[p] \in {"write", "unlock"} /\ arg[p] \in Pids
      /\ stage'[p] = "write" => pos'[p] \in DOMAIN file
      /\ stage'[p] = "write" /\ p \in Pans \cup fresh => file[pos'[p]] = arg[p]
  <2>1. /\ DOMAIN file = 1..Len(file) /\ Len(file) \in Nat /\ DOMAIN View(p) = DOMAIN file
        /\ pos \in [Procs -> Nat] /\ arg[p] \in Pids /\ stage \in [Procs -> Stages]
        /\ p \in Pans \cup fresh => View(p) = file
    BY ViewReads DEF Types, OpInv, Working
  <2>2. CASE pos' = [pos EXCEPT ![p] = 0] /\ stage' = [stage EXCEPT ![p] = "unlock"]
    BY <2>1, <2>2
  <2>3. ASSUME NEW i \in DOMAIN View(p), IsFirst(i, View(p), arg[p]),
               pos' = [pos EXCEPT ![p] = i], stage' = [stage EXCEPT ![p] = "write"]
        PROVE  <1>1!:
    BY <2>1, <2>3, SMTT(30) DEF IsFirst, LinesOf
  <2> QED
    BY <2>2, <2>3
<1>2. Types' /\ LockInv'
  <2>1. stage' \in [Procs -> Stages] /\ \A r \in Procs : r # p => stage'[r] = stage[r]
    <3>1. stage' = [stage EXCEPT ![p] = "write"] \/ stage' = [stage EXCEPT ![p] = "unlock"]
      OBVIOUS
    <3>2. stage \in [Procs -> Stages] /\ {"write", "unlock"} \subseteq Stages
      BY DEF Types, Stages
    <3> HIDE DEF IInv, SearchClear
    <3> QED
      BY <3>1, <3>2
  <2>2. Types'
    BY <1>1, <2>1 DEF Types
  <2>3. LockInv'
    BY <1>1, <2>1 DEF LockInv
  <2> QED
    BY <2>2, <2>3
<1>3. OpInv' /\ OwnInv' /\ BufInv'
  <2>1. /\ \A r \in Procs : r # p => stage'[r] = stage[r]
        /\ stage'[p] \in {"write", "unlock"} /\ stage[p] = "search" /\ op[p] = "clear"
        /\ UNCHANGED <<file, op, arg, owner, proc, fresh>>
    BY <1>1 DEF Types
  <2>2. \A r \in Procs : buffer'[r] \in {buffer[r], None}
    BY DEF Types
  <2>3. OpInv /\ OwnInv /\ BufInv
    OBVIOUS
  <2> HIDE DEF IInv, SearchClear
  <2>4. OpInv'
    BY <2>1, <2>2, <2>3 DEF OpInv, Working
  <2>5. OwnInv'
    BY <2>1, <2>3 DEF OwnInv, Working
  <2>6. BufInv'
    BY <2>1, <2>2, <2>3 DEF BufInv
  <2> QED
    BY <2>4, <2>5, <2>6
<1>4. PosInv'
  BY <1>1, SMTT(30) DEF Types, PosInv, PosAt, LinesOf
<1>5. ListInv'
  <2> SUFFICES ASSUME ~ bumped PROVE ListInv'
    BY DEF ListInv
  <2>1. \A q \in Pids : Written(q)' => Listed(q)'
    BY <1>1, SMTT(30) DEF Types, ListInv, Written, Recorded, Listed, LinesOf
  <2>2. ASSUME p \in Pans PROVE Listed(arg[p])
    BY <1>1, <2>2, SMTT(30) DEF Types, ListInv, OwnInv, Working, Written
  <2>3. ASSUME p \in Pans PROVE stage'[p] = "write"
    <3>1. LinesOf(View(p), arg[p]) # {}
      BY <2>2, <2>3, ViewReads DEF Listed
    <3> QED
      BY <3>1 DEF Types
  <2> QED
    BY <2>1, <2>3 DEF ListInv, Types
<1>6. DeadInv'
  <2> SUFFICES ASSUME NEW b \in Bumps \cap fresh, stage'[b] \in Working, op[b] = "clear",
                      arg[b] \in proc, owner[arg[b]] # None
               PROVE  LET r == owner[arg[b]]
                      IN  /\ arg[r] = arg[b] /\ op[r] = "mark"
                          /\ stage'[r] \in {"lock", "search", "write"}
    BY DEF DeadInv
  <2>1. stage[b] \in Working
    BY DEF Types, Working
  <2>2. PICK r \in Pans : r = owner[arg[b]]
    BY DEF Types
  <2>3. arg[r] = arg[b] /\ op[r] = "mark" /\ stage[r] \in {"lock", "search", "write"}
    BY <2>1, <2>2 DEF DeadInv
  <2>4. stage'[r] = stage[r]
    BY <2>3 DEF Types
  <2> QED
    BY <2>2, <2>3, <2>4
<1> QED
  BY <1>2, <1>3, <1>4, <1>5, <1>6

LEMMA SearchGetpidStep ==
  ASSUME IInv, NEW p \in Bumps, SearchGetpid(p)
  PROVE  IInv'
<1> USE NamesAssumption DEF IInv, SearchGetpid, disk, cmds, bounds, history
<1>1. /\ DOMAIN View(p) = DOMAIN file /\ DOMAIN file = 1..Len(file) /\ Len(file) \in Nat
      /\ Kept(p) \in Seq(Lines)
      /\ \A i \in DOMAIN file : View(p)[i] \in Lines
  BY ViewReads
<1>2. /\ arg'[p] \in Pids \cup {None} /\ arg' \in [Procs -> Pids \cup {None}]
      /\ buffer' \in [Procs -> Seq(Lines) \cup {None}]
      /\ fresh' \subseteq Procs /\ fresh \subseteq fresh' \cup {p} /\ fresh' \subseteq fresh \cup {p}
  <2>1. /\ arg \in [Procs -> Pids \cup {None}] /\ fresh \subseteq Procs
        /\ buffer \in [Procs -> Seq(Lines) \cup {None}]
    BY DEF Types
  <2>2. CASE /\ arg' = [arg EXCEPT ![p] = None]
             /\ buffer' = [buffer EXCEPT ![p] = None]
             /\ fresh' = fresh \ {p}
    <3> HIDE DEF IInv, SearchGetpid
    <3> QED
      BY <2>1, <2>2
  <2>3. ASSUME NEW i \in DOMAIN file, View(p)[i] # Blank,
               arg' = [arg EXCEPT ![p] = View(p)[i]],
               buffer' = [buffer EXCEPT ![p] = IF i \in DOMAIN Kept(p) THEN Kept(p) ELSE None],
               fresh' = IF buffer[p] = None \/ i \notin DOMAIN Kept(p)
                        THEN fresh \cup {p} ELSE fresh
        PROVE  <1>2!:
    <3> HIDE DEF IInv, SearchGetpid
    <3>1. View(p)[i] \in Pids
      BY <1>1, <2>3
    <3> QED
      BY <1>1, <2>1, <2>3, <3>1
  <2> QED
    BY <1>1, <2>2, <2>3
<1>3. Types' /\ LockInv'
  BY <1>2 DEF Types, LockInv, Stages
<1>4. OpInv'
  BY <1>2, SMTT(30) DEF Types, OpInv, Working
<1> OwnInv' /\ PosInv'
  BY <1>2, SMTT(30) DEF Types, OwnInv, PosInv, PosAt, Working, LinesOf
<1>5. BufInv'
  <2> SUFFICES ASSUME NEW b \in Bumps, buffer'[b] # None
               PROVE  Len(buffer'[b]) <= Len(file) /\ (b \in fresh' => buffer'[b] = file)
    BY DEF BufInv
  <2>1. CASE b # p
    BY <2>1, <1>2 DEF BufInv, Types
  <2>2. CASE b = p /\ buffer[p] = None
    BY <2>2, <1>1, SMTT(30) DEF Kept, Types
  <2>3. CASE b = p /\ buffer[p] # None
    BY <2>3, <1>1 DEF Kept, Types, BufInv
  <2> QED
    BY <2>1, <2>2, <2>3
<1>6. ListInv'
  BY SMTT(30) DEF Types, ListInv, Written, Recorded, Listed, LinesOf
<1>7. DeadInv'
  BY <1>2, SMTT(30) DEF Types, DeadInv, Working
<1> QED
  BY <1>3, <1>4, <1>5, <1>6, <1>7

(* The three things a fflush() may do to the file.                         *)
Appends(p) == /\ op[p] = "mark" /\ pos[p] = Len(file) + 1 /\ LinesOf(file, Blank) = {}
              /\ Len(file') = Len(file) + 1 /\ file'[Len(file) + 1] = arg[p]
              /\ \A i \in DOMAIN file : file'[i] = file[i]
Fills(p) == /\ op[p] = "mark" /\ pos[p] \in DOMAIN file /\ file[pos[p]] = Blank
            /\ Len(file') = Len(file)
            /\ \A i \in DOMAIN file : file'[i] = IF i = pos[p] THEN arg[p] ELSE file[i]
Blanks(p) == /\ op[p] = "clear" /\ pos[p] \in DOMAIN file
             /\ p \in Pans \cup fresh => file[pos[p]] = arg[p]
             /\ Len(file') = Len(file)
             /\ \A i \in DOMAIN file : file'[i] = IF i = pos[p] THEN Blank ELSE file[i]

LEMMA SeqPut ==
  ASSUME NEW S, NEW s \in Seq(S), NEW i \in DOMAIN s, NEW e \in S,
         NEW t, t = [s EXCEPT ![i] = e]
  PROVE  /\ t \in Seq(S) /\ Len(t) = Len(s)
         /\ \A j \in DOMAIN s : t[j] = IF j = i THEN e ELSE s[j]
<1>1. s \in [1..Len(s) -> S] /\ DOMAIN s = 1..Len(s) /\ Len(s) \in Nat
  BY LenProperties
<1>2. t \in [1..Len(s) -> S]
  BY <1>1
<1> QED
  BY <1>1, <1>2, SMTT(30)

LEMMA WriteLine ==
  ASSUME IInv, NEW p \in Procs, Write(p)
  PROVE  /\ arg[p] \in Pids /\ file' \in Seq(Lines)
         /\ DOMAIN file = 1..Len(file) /\ Len(file) \in Nat
         /\ DOMAIN file' = 1..Len(file')
         /\ Len(file') \in Nat /\ Len(file) <= Len(file')
         /\ Appends(p) \/ Fills(p) \/ Blanks(p)
<1>1. /\ file \in Seq(Lines) /\ pos[p] \in Nat /\ stage[p] = "write"
      /\ file' = IF pos[p] > Len(file) THEN Append(file, NewLine(p))
                 ELSE [file EXCEPT ![pos[p]] = NewLine(p)]
  BY DEF IInv, Types, Write
<1>2. DOMAIN file = 1..Len(file) /\ Len(file) \in Nat
  BY <1>1, LenProperties
<1>3. /\ op[p] = "mark" => \/ pos[p] \in DOMAIN file /\ file[pos[p]] = Blank
                           \/ pos[p] = Len(file) + 1 /\ LinesOf(file, Blank) = {}
      /\ op[p] # "mark" => op[p] = "clear" /\ pos[p] \in DOMAIN file
      /\ op[p] = "clear" /\ p \in Pans \cup fresh => file[pos[p]] = arg[p]
  BY <1>1 DEF IInv, PosInv, PosAt
<1>4. arg[p] \in Pids
  BY <1>1, <1>3 DEF IInv, OpInv, Working
<1>5. NewLine(p) = (IF op[p] = "mark" THEN arg[p] ELSE Blank) /\ NewLine(p) \in Lines
  BY <1>4 DEF NewLine
<1>6. CASE op[p] = "mark" /\ pos[p] = Len(file) + 1 /\ LinesOf(file, Blank) = {}
  <2>1. file' = Append(file, arg[p])
    BY <1>1, <1>2, <1>5, <1>6, SMTT(30)
  <2>2. file' \in Seq(Lines) /\ Appends(p)
    <3>1. arg[p] \in Lines
      BY <1>4
    <3>2. /\ file' \in Seq(Lines) /\ Len(file') = Len(file) + 1
          /\ \A i \in 1..Len(file) : file'[i] = file[i]
          /\ file'[Len(file) + 1] = arg[p]
      BY <1>1, <2>1, <3>1, AppendProperties, SMTT(30)
    <3> QED
      BY <1>2, <1>6, <3>2 DEF Appends
  <2>3. Len(file') = Len(file) + 1
    BY <2>2 DEF Appends
  <2>4. DOMAIN file' = 1..Len(file') /\ Len(file') \in Nat
    BY <2>2, LenProperties
  <2> QED
    BY <1>2, <1>4, <2>2, <2>3, <2>4, SMTT(30)
<1>7. CASE pos[p] \in DOMAIN file
  <2>1. file' = [file EXCEPT ![pos[p]] = NewLine(p)]
    <3>1. ~ (pos[p] > Len(file))
      BY <1>2, <1>7, SMTT(30)
    <3> QED
      BY <1>1, <3>1
  <2>2. /\ file' \in Seq(Lines) /\ Len(file') = Len(file)
        /\ \A j \in DOMAIN file : file'[j] = IF j = pos[p] THEN NewLine(p) ELSE file[j]
    <3> HIDE DEF Lines
    <3>1. file \in Seq(Lines) /\ NewLine(p) \in Lines
      BY <1>1, <1>5
    <3> QED
      BY <1>7, <2>1, <3>1, SeqPut, SMTT(30)
  <2>3. Fills(p) \/ Blanks(p)
    <3>1. CASE op[p] = "mark"
      BY <1>2, <1>3, <1>5, <1>7, <2>1, <2>2, <3>1, SMTT(30) DEF Fills
    <3>2. CASE op[p] # "mark"
      BY <1>2, <1>3, <1>5, <1>7, <2>1, <2>2, <3>2 DEF Blanks
    <3> QED
      BY <3>1, <3>2
  <2>4. DOMAIN file' = 1..Len(file')
    BY <2>2, LenProperties
  <2> QED
    BY <1>2, <1>4, <2>2, <2>3, <2>4, SMTT(30)
<1> QED
  BY <1>3, <1>6, <1>7

LEMMA WriteStep ==
  ASSUME IInv, NEW p \in Procs, Write(p)
  PROVE  IInv'
<1> USE NamesAssumption
<1>1. /\ arg[p] \in Pids /\ file' \in Seq(Lines)
      /\ DOMAIN file = 1..Len(file) /\ Len(file) \in Nat
      /\ DOMAIN file' = 1..Len(file')
      /\ Len(file') \in Nat /\ Len(file) <= Len(file')
      /\ Appends(p) \/ Fills(p) \/ Blanks(p)
  BY WriteLine
<1>2. /\ Types /\ LockInv /\ OpInv /\ OwnInv /\ PosInv /\ BufInv /\ ListInv
      /\ stage[p] = "write" /\ stage' = [stage EXCEPT ![p] = "unlock"]
      /\ fresh' = {} /\ bumped' = (bumped \/ p \in Bumps)
      /\ UNCHANGED <<lock, buffer, op, arg, pos, owner, orphans, proc>>
      /\ UNCHANGED <<starts, lookups, crashes, errors>>
  BY DEF IInv, Write, cmds, bounds
<1>3. Types'
  <2>1. bumped' \in BOOLEAN
    BY <1>2
  <2> QED
    BY <1>1, <1>2, <2>1 DEF Types, Stages
<1>4. LockInv' /\ OpInv' /\ OwnInv' /\ DeadInv'
  BY <1>2 DEF Types, LockInv, OpInv, OwnInv, DeadInv, Working
<1>5. PosInv'
  BY <1>2 DEF PosInv, PosAt, LockInv, Types
<1>6. BufInv'
  <2> SUFFICES ASSUME NEW b \in Bumps, buffer[b] # None
               PROVE  Len(buffer[b]) <= Len(file')
    BY <1>2 DEF BufInv
  <2>1. Len(buffer[b]) \in Nat /\ Len(buffer[b]) <= Len(file)
    BY <1>2, LenProperties DEF BufInv, Types
  <2> QED
    BY <1>1, <2>1, SMTT(30)
<1>7. ListInv'
  <2> SUFFICES ASSUME ~ bumped, p \in Pans
               PROVE  /\ \A q \in Pids : Written(q)' => Listed(q)'
                      /\ \A r \in Pans : stage'[r] = "unlock" /\ op[r] = "clear" => pos[r] # 0
    BY <1>2 DEF ListInv
  <2>1. ASSUME NEW q \in Pids, Written(q)'
        PROVE  Listed(q)'
    <3>1. CASE q = arg[p]
      <4>1. op[p] = "mark"
        BY <1>1, <1>2, <2>1, <3>1 DEF OwnInv, Working, Written, Recorded, Types, OpInv, Ops
      <4>2. pos[p] \in DOMAIN file' /\ file'[pos[p]] = q
        <5>1. CASE Appends(p)
          <6>1. pos[p] = Len(file) + 1 /\ Len(file') = Len(file) + 1
                /\ file'[Len(file) + 1] = arg[p]
            BY <5>1 DEF Appends
          <6> QED
            BY <1>1, <3>1, <6>1, SMTT(30)
        <5>2. CASE Fills(p)
          <6>1. /\ pos[p] \in DOMAIN file /\ Len(file') = Len(file)
                /\ file'[pos[p]] = arg[p]
            BY <5>2 DEF Fills
          <6> QED
            BY <1>1, <3>1, <6>1
        <5> QED
          BY <1>1, <4>1, <5>1, <5>2 DEF Blanks
      <4> QED
        BY <4>2 DEF Listed, LinesOf
    <3>2. CASE q # arg[p]
      <4>1. Written(q)
        BY <1>2, <2>1, <3>2 DEF Written, Recorded, Types
      <4>2. PICK i \in DOMAIN file : file[i] = q
        BY <1>2, <4>1 DEF ListInv, Listed, LinesOf
      <4>3. i \in DOMAIN file' /\ file'[i] = q
        <5>1. i \in DOMAIN file'
          BY <1>1, SMTT(30)
        <5>2. CASE Appends(p)
          BY <4>2, <5>1, <5>2 DEF Appends
        <5>3. CASE Fills(p)
          BY <4>2, <5>1, <5>3 DEF Fills
        <5>4. CASE Blanks(p)
          BY <3>2, <4>2, <5>1, <5>4 DEF Blanks
        <5> QED
          BY <1>1, <5>1, <5>2, <5>3, <5>4
      <4> QED
        BY <4>3 DEF Listed, LinesOf
    <3> QED
      BY <3>1, <3>2
  <2>2. ASSUME NEW r \in Pans, stage'[r] = "unlock", op[r] = "clear"
        PROVE  pos[r] # 0
    <3>1. CASE r = p
      <4>1. pos[r] \in DOMAIN file
        BY <1>1, <2>2, <3>1 DEF Appends, Fills, Blanks
      <4> QED
        BY <1>1, <4>1, SMTT(30)
    <3>2. CASE r # p
      BY <1>2, <2>2, <3>2 DEF ListInv, Types
    <3> QED
      BY <3>1, <3>2
  <2> QED
    BY <2>1, <2>2
<1> QED
  BY <1>3, <1>4, <1>5, <1>6, <1>7 DEF IInv

(* A step that leaves the file alone, taken by p on its own variables: it   *)
(* goes to st with the operation o on q.                                   *)
Local(p, st, o, q) ==
    /\ UNCHANGED <<file, fresh, bumped, peak>>
    /\ buffer' \in [Procs -> Seq(Lines) \cup {None}]
    /\ \A r \in Procs : buffer'[r] \in {buffer[r], None}
    /\ stage' \in [Procs -> Stages] /\ op' \in [Procs -> Ops]
    /\ arg' \in [Procs -> Pids \cup {None}] /\ pos' \in [Procs -> Nat]
    /\ stage'[p] = st /\ op'[p] = o /\ arg'[p] = q
    /\ \A r \in Procs : r # p => /\ stage'[r] = stage[r] /\ op'[r] = op[r]
                                 /\ arg'[r] = arg[r] /\ pos'[r] = pos[r]
    /\ lock' \in Procs \cup {None}
    /\ \A r \in Procs : r # p /\ lock = r => lock' = r

(* What it may do to the commands: p gives its own up, or owns a new one   *)
(* that it is about to mark.                                               *)
CmdStep(p, st, o, q) ==
    /\ owner' \in [Pids -> Pans \cup {None}] /\ orphans' \subseteq Pids /\ proc' \subseteq Pids
    /\ starts' \in 0..MaxStarts /\ lookups' \in 0..MaxLookups
    /\ crashes' \in 0..MaxCrashes /\ errors' \in 0..MaxErrors
    /\ \A x \in Pids : owner'[x] # owner[x] =>
          \/ owner[x] = p /\ owner'[x] = None
          \/ owner[x] = None /\ owner'[x] = p /\ x = q /\ st = "lock" /\ o = "mark"
    /\ \A x \in proc' \ proc : owner[x] = None /\ owner'[x] = p /\ x = q
    /\ stage[p] \in {"lock", "search", "write"} /\ op[p] = "mark" =>
          \A x \in Pids : owner'[x] # p

(* What it has to bring about: the invariants about p itself.              *)
OpFor(p, st, o, q) ==
    /\ p \in Pans => st # "kill" /\ o # "getpid"
    /\ p \in Bumps => /\ (st \notin {"idle", "gone"} => o # "mark")
                      /\ (st = "kill" => o = "getpid" /\ q \in Pids)
    /\ st = "lock" /\ o # "getpid" => q \in Pids
    /\ p \in Pans /\ st = "lock" => owner'[q] = p
    /\ st = "lock" /\ o = "clear" => q \notin proc'

ListFor(p, st, o, q) ==
    ~ bumped => \A x \in Pids : owner'[x] = p /\ (x # q \/ st = "idle" \/ o = "clear") => Listed(x)

LEMMA LocalStep ==
  ASSUME IInv, NEW p \in Procs, NEW st \in {"idle", "lock", "kill", "gone"}, NEW o, NEW q,
         Local(p, st, o, q), CmdStep(p, st, o, q), OpFor(p, st, o, q), ListFor(p, st, o, q)
  PROVE  IInv'
<1> USE NamesAssumption
<1>1. Types'
  <2>1. lock' \in Procs \cup {None}
    BY DEF IInv, Types, Local
  <2> QED
    BY <2>1 DEF IInv, Types, Local, CmdStep
<1>2. LockInv'
  BY DEF IInv, Types, LockInv, Local
<1>3. OpInv'
  <2>1. /\ UNCHANGED fresh /\ \A r \in Procs : buffer'[r] \in {buffer[r], None}
        /\ stage'[p] = st /\ op'[p] = o /\ arg'[p] = q
        /\ \A r \in Procs : r # p => stage'[r] = stage[r] /\ op'[r] = op[r] /\ arg'[r] = arg[r]
    BY DEF Local
  <2>2. OpInv
    BY DEF IInv
  <2> QED
    BY <2>1, <2>2 DEF OpInv, OpFor, Working
<1>4. OwnInv'
  <2> SUFFICES ASSUME NEW r \in Pans, stage'[r] \in Working
               PROVE  owner'[arg'[r]] = r /\ (op'[r] = "clear" => arg'[r] \notin proc')
    BY DEF OwnInv
  <2>1. CASE r = p
    BY <2>1 DEF Local, OpFor, Working
  <2>2. CASE r # p
    <3>1. stage'[r] = stage[r] /\ op'[r] = op[r] /\ arg'[r] = arg[r]
      BY <2>2 DEF Local
    <3>2. /\ owner[arg[r]] = r /\ (op[r] = "clear" => arg[r] \notin proc)
          /\ arg[r] \in Pids
      BY <3>1 DEF IInv, OwnInv, OpInv, Working
    <3>3. owner'[arg[r]] = r
      <4>1. \A x \in Pids : owner'[x] # owner[x] => owner[x] = p \/ owner[x] = None
        BY DEF CmdStep
      <4>2. r # None
        OBVIOUS
      <4> QED
        BY <2>2, <3>2, <4>1, <4>2
    <3>4. op[r] = "clear" => arg[r] \notin proc'
      BY <3>2, SMTT(30) DEF CmdStep
    <3> QED
      BY <3>1, <3>3, <3>4
  <2> QED
    BY <2>1, <2>2
<1>5. PosInv'
  <2> SUFFICES ASSUME NEW r \in Procs, stage'[r] = "write"
               PROVE  PosAt(r)'
    BY DEF PosInv, PosAt
  <2>1. r # p /\ stage[r] = "write"
    BY DEF Local
  <2>2. UNCHANGED <<file, fresh>> /\ op'[r] = op[r] /\ arg'[r] = arg[r] /\ pos'[r] = pos[r]
    BY <2>1 DEF Local
  <2> QED
    BY <2>1, <2>2 DEF IInv, PosInv, PosAt, LinesOf
<1>6. BufInv' /\ \A x \in Pids : Listed(x)' = Listed(x)
  BY DEF IInv, Local, BufInv, Listed, LinesOf
<1>7. ListInv'
  <2> SUFFICES ASSUME ~ bumped PROVE ListInv'
    BY DEF ListInv, Local
  <2>1. ASSUME NEW x \in Pids, Written(x)'
        PROVE  Listed(x)
    <3>1. owner'[x] \in Pans
      BY <1>1, <2>1 DEF Written, Recorded, Types
    <3>2. CASE owner'[x] = p
      BY <2>1, <3>2 DEF Written, Recorded, Local, ListFor
    <3>3. CASE owner'[x] # p
      <4>1. owner'[x] = owner[x]
        BY <3>1, <3>3 DEF CmdStep
      <4>2. /\ stage'[owner[x]] = stage[owner[x]] /\ op'[owner[x]] = op[owner[x]]
            /\ arg'[owner[x]] = arg[owner[x]]
        BY <3>1, <3>3, <4>1 DEF Local
      <4>3. Written(x)
        BY <2>1, <4>1, <4>2 DEF Written, Recorded
      <4> QED
        BY <4>3 DEF IInv, ListInv
    <3> QED
      BY <3>2, <3>3
  <2>2. ASSUME NEW r \in Pans, stage'[r] = "unlock", op'[r] = "clear"
        PROVE  pos'[r] # 0
    BY <2>2 DEF Local, IInv, ListInv
  <2> QED
    BY <1>6, <2>1, <2>2 DEF ListInv
<1>8. DeadInv'
  <2> SUFFICES ASSUME NEW b \in Bumps, b \in fresh', stage'[b] \in Working, op'[b] = "clear",
                      arg'[b] \in proc', owner'[arg'[b]] # None
               PROVE  LET r == owner'[arg'[b]]
                      IN  /\ arg'[r] = arg'[b] /\ op'[r] = "mark"
                          /\ stage'[r] \in {"lock", "search", "write"}
    BY DEF DeadInv
  <2>1. b # p
    BY DEF Local, OpFor, Working
  <2>2. /\ b \in fresh /\ stage[b] \in Working /\ op[b] = "clear" /\ arg'[b] = arg[b]
        /\ arg[b] \in Pids /\ owner'[arg[b]] \in Pans
    <3>1. b \in fresh /\ stage'[b] = stage[b] /\ op'[b] = op[b] /\ arg'[b] = arg[b]
      BY <2>1 DEF Local
    <3>2. arg'[b] \in Pids /\ owner'[arg'[b]] \in Pans
      BY <1>1 DEF Types
    <3> QED
      BY <3>1, <3>2
  <2>3. CASE owner'[arg[b]] = owner[arg[b]]
    <3>1. arg[b] \in proc
      BY <2>2, <2>3 DEF CmdStep
    <3>2. LET r == owner[arg[b]]
          IN  /\ arg[r] = arg[b] /\ op[r] = "mark"
              /\ stage[r] \in {"lock", "search", "write"}
      BY <2>2, <2>3, <3>1 DEF IInv, DeadInv
    <3>3. owner[arg[b]] # p
      BY <2>2, <2>3, <3>2 DEF CmdStep
    <3>4. PICK r \in Pans : r = owner[arg[b]]
      BY <2>2, <2>3
    <3>5. stage'[r] = stage[r] /\ op'[r] = op[r] /\ arg'[r] = arg[r]
      BY <3>3, <3>4 DEF Local
    <3> QED
      BY <2>2, <2>3, <3>2, <3>4, <3>5
  <2>4. CASE owner'[arg[b]] # owner[arg[b]]
    <3>1. owner'[arg[b]] = p /\ arg[b] = q /\ st = "lock" /\ o = "mark"
      BY <2>2, <2>4 DEF CmdStep
    <3> QED
      BY <2>2, <3>1 DEF Local
  <2> QED
    BY <2>3, <2>4
<1> QED
  BY <1>1, <1>2, <1>3, <1>4, <1>5, <1>6, <1>7, <1>8 DEF IInv

LEMMA BeginLocal ==
  ASSUME IInv, NEW p \in Procs, NEW o \in Ops, NEW q \in Pids \cup {None}, Begin(p, o, q),
         UNCHANGED <<file, history>>, lock' \in {lock, IF lock = p THEN None ELSE lock}
  PROVE  Local(p, "lock", o, q)
  BY DEF IInv, Types, Begin, Local, Stages, history

LEMMA FinishLocal ==
  ASSUME IInv, NEW p \in Procs, NEW st \in Stages, Finish(p, st),
         UNCHANGED <<file, history>>, lock' \in {lock, IF lock = p THEN None ELSE lock},
         UNCHANGED buffer \/ buffer' = [buffer EXCEPT ![p] = None]
  PROVE  Local(p, st, "mark", None)
  BY DEF IInv, Types, Finish, Local, Ops, history

(* The steps of a driver that are no file accesses.                        *)
LEMMA PanOtherStep ==
  ASSUME IInv, NEW p \in Pans,
         \/ PanMarked(p) \/ PanCleared(p) \/ PanOrphan(p) \/ PanFails(p) \/ Crash(p)
         \/ PanSeekFails(p) \/ PanKeepsLock(p)
         \/ \E q \in Pids : Start(p, q) \/ End(p, q)
  PROVE  IInv'
<1> USE NamesAssumption, BoundsAssumption
<1>1. /\ Types /\ OwnInv /\ OpInv /\ ListInv
      /\ \A r \in Procs : stage[r] \in {"search", "write", "unlock"} => lock = r
  BY DEF IInv, LockInv
<1>2. CASE PanMarked(p)
  <2>1. /\ stage[p] = "unlock" /\ op[p] = "mark" /\ lock = p /\ lock' = None
        /\ Finish(p, "idle") /\ UNCHANGED <<file, buffer, cmds, bounds, history>>
    BY <1>1, <1>2 DEF PanMarked, Unlock
  <2>2. Local(p, "idle", "mark", None)
    BY <2>1, FinishLocal DEF Stages
  <2>3. CmdStep(p, "idle", "mark", None) /\ OpFor(p, "idle", "mark", None)
    BY <1>1, <2>1 DEF Types, CmdStep, OpFor, cmds, bounds
  <2>4. ListFor(p, "idle", "mark", None)
    BY <1>1, <2>1 DEF ListFor, ListInv, Written, Recorded, Types, OwnInv, cmds
  <2> QED
    BY <2>2, <2>3, <2>4, LocalStep
<1>3. CASE PanCleared(p)
  <2>1. /\ stage[p] = "unlock" /\ op[p] = "clear" /\ lock = p /\ lock' = None
        /\ Finish(p, "idle") /\ UNCHANGED <<file, buffer, proc, bounds, history>>
        /\ owner' = [owner EXCEPT ![arg[p]] = None] /\ orphans' \subseteq orphans
        /\ arg[p] \in Pids /\ owner[arg[p]] = p
    BY <1>1, <1>3 DEF PanCleared, Unlock, OpInv, OwnInv, Working
  <2>2. Local(p, "idle", "mark", None)
    BY <2>1, FinishLocal DEF Stages
  <2>3. CmdStep(p, "idle", "mark", None) /\ OpFor(p, "idle", "mark", None)
    BY <1>1, <2>1 DEF Types, CmdStep, OpFor, bounds
  <2>4. ListFor(p, "idle", "mark", None)
    BY <1>1, <2>1 DEF ListFor, ListInv, Written, Recorded, Types
  <2> QED
    BY <2>2, <2>3, <2>4, LocalStep
<1>4. CASE PanOrphan(p)
  <2>1. /\ stage[p] = "unlock" /\ op[p] = "clear" /\ lock = p /\ lock' = None
        /\ Begin(p, "mark", arg[p]) /\ UNCHANGED <<file, owner, proc, bounds, history>>
        /\ orphans' = orphans \cup {arg[p]} /\ arg[p] \in Pids /\ owner[arg[p]] = p
    BY <1>1, <1>4 DEF PanOrphan, Unlock, OpInv, OwnInv, Working
  <2>2. Local(p, "lock", "mark", arg[p])
    BY <2>1, BeginLocal DEF Ops
  <2>3. CmdStep(p, "lock", "mark", arg[p]) /\ OpFor(p, "lock", "mark", arg[p])
    BY <1>1, <2>1 DEF Types, CmdStep, OpFor, bounds
  <2>4. ListFor(p, "lock", "mark", arg[p])
    BY <1>1, <2>1 DEF ListFor, ListInv, Written, Recorded, Types
  <2> QED
    BY <2>2, <2>3, <2>4, LocalStep
<1>5. CASE PanFails(p) \/ Crash(p) \/ PanSeekFails(p)
  <2>1. /\ Gone(p) /\ UNCHANGED <<starts, lookups, history>>
        /\ crashes' \in 0..MaxCrashes /\ errors' \in 0..MaxErrors
        /\ lock' = IF lock = p THEN None ELSE lock
    <3>1. CASE PanFails(p)
      BY <1>1, <3>1 DEF PanFails, Unlock, Types, bounds
    <3>2. CASE Crash(p)
      BY <1>1, <3>2, SMTT(30) DEF Crash, Types
    <3>3. CASE PanSeekFails(p)
      BY <1>1, <3>3, SMTT(30) DEF PanSeekFails, SeekError, Types
    <3> QED
      BY <1>5, <3>1, <3>2, <3>3
  <2>2. Local(p, "gone", "mark", None)
    BY <2>1, FinishLocal DEF Stages, Gone
  <2>3. CmdStep(p, "gone", "mark", None) /\ OpFor(p, "gone", "mark", None)
    BY <1>1, <2>1 DEF Types, CmdStep, OpFor, Gone
  <2>4. ListFor(p, "gone", "mark", None)
    BY <1>1, <2>1 DEF ListFor, Types, Gone
  <2> QED
    BY <2>2, <2>3, <2>4, LocalStep
<1>6. ASSUME NEW q \in Pids, Start(p, q)
      PROVE  IInv'
  <2>1. /\ stage[p] = "idle" /\ lock' = lock
        /\ owner[q] = None /\ owner' = [owner EXCEPT ![q] = p] /\ proc' = proc \cup {q}
        /\ starts' \in 0..MaxStarts
        /\ Begin(p, "mark", q) /\ UNCHANGED <<file, orphans, lookups, crashes, errors, history>>
    <3>1. starts' \in 0..MaxStarts
      <4>1. starts \in 0..MaxStarts /\ starts < MaxStarts /\ starts' = starts + 1
        BY <1>1, <1>6 DEF Start, Types
      <4> QED
        BY <4>1, SMTT(30)
    <3>2. stage[p] = "idle" /\ lock' = lock
      BY <1>1, <1>6 DEF Start, disk
    <3> QED
      BY <1>6, <3>1, <3>2 DEF Start, disk
  <2>2. Local(p, "lock", "mark", q)
    BY <2>1, BeginLocal DEF Ops
  <2>3. CmdStep(p, "lock", "mark", q) /\ OpFor(p, "lock", "mark", q)
    <3>1. /\ owner \in [Pids -> Pans \cup {None}] /\ orphans \subseteq Pids /\ proc \subseteq Pids
          /\ lookups \in 0..MaxLookups /\ crashes \in 0..MaxCrashes
          /\ errors \in 0..MaxErrors
      BY <1>1 DEF Types
    <3>2. CmdStep(p, "lock", "mark", q)
      BY <2>1, <3>1, SMTT(30) DEF CmdStep
    <3>3. OpFor(p, "lock", "mark", q)
      BY <2>1, <3>1 DEF OpFor
    <3> QED
      BY <3>2, <3>3
  <2>4. ListFor(p, "lock", "mark", q)
    BY <1>1, <2>1 DEF ListFor, ListInv, Written, Recorded, Types
  <2> QED
    BY <2>2, <2>3, <2>4, LocalStep
<1>7. ASSUME NEW q \in Pids, End(p, q)
      PROVE  IInv'
  <2>1. /\ stage[p] = "idle" /\ lock' = lock
        /\ owner[q] = p /\ proc' = proc \ {q}
        /\ Begin(p, "clear", q) /\ UNCHANGED <<file, owner, orphans, bounds, history>>
    BY <1>1, <1>7 DEF End, disk
  <2>2. Local(p, "lock", "clear", q)
    BY <2>1, BeginLocal DEF Ops
  <2>3. CmdStep(p, "lock", "clear", q) /\ OpFor(p, "lock", "clear", q)
    BY <1>1, <2>1 DEF Types, CmdStep, OpFor, bounds
  <2>4. ListFor(p, "lock", "clear", q)
    BY <1>1, <2>1 DEF ListFor, ListInv, Written, Recorded, Types
  <2> QED
    BY <2>2, <2>3, <2>4, LocalStep
<1>8. CASE PanKeepsLock(p)
  <2>1. /\ stage[p] = "search" /\ op[p] = "clear" /\ lock' = lock
        /\ Finish(p, "idle") /\ UNCHANGED <<file, buffer, proc, history>>
        /\ UNCHANGED <<starts, lookups, crashes>>
        /\ owner' = [owner EXCEPT ![arg[p]] = None] /\ orphans' \subseteq orphans
        /\ arg[p] \in Pids /\ owner[arg[p]] = p
    BY <1>1, <1>8 DEF PanKeepsLock, SeekError, disk, OpInv, OwnInv, Working
  <2>2. errors' \in 0..MaxErrors
    BY <1>1, <1>8, SMTT(30) DEF PanKeepsLock, SeekError, Types
  <2>3. Local(p, "idle", "mark", None)
    BY <2>1, FinishLocal DEF Stages
  <2>4. CmdStep(p, "idle", "mark", None) /\ OpFor(p, "idle", "mark", None)
    BY <1>1, <2>1, <2>2 DEF Types, CmdStep, OpFor
  <2>5. ListFor(p, "idle", "mark", None)
    BY <1>1, <2>1 DEF ListFor, ListInv, Written, Recorded, Types
  <2> QED
    BY <2>3, <2>4, <2>5, LocalStep
<1> QED
  BY <1>2, <1>3, <1>4, <1>5, <1>6, <1>7, <1>8

(* A step of ltp-bump on its own variables does nothing to the commands.   *)
LEMMA BumpLocal ==
  ASSUME IInv, NEW b \in Bumps, NEW st \in {"idle", "lock", "kill", "gone"}, NEW o, NEW q,
         Local(b, st, o, q), UNCHANGED <<cmds, starts, crashes>>,
         lookups' \in 0..MaxLookups, errors' \in 0..MaxErrors, OpFor(b, st, o, q)
  PROVE  IInv'
<1> USE NamesAssumption
<1>1. Types /\ \A x \in Pids : owner[x] # b
  BY DEF IInv, Types
<1>2. CmdStep(b, st, o, q) /\ ListFor(b, st, o, q)
  BY <1>1 DEF CmdStep, ListFor, Types, cmds
<1> QED
  BY <1>2, LocalStep

LEMMA BumpOtherStep ==
  ASSUME IInv, NEW b \in Bumps,
         BumpUnlock(b) \/ BumpKill(b) \/ Bump(b) \/ BumpSeekFails(b) \/ BumpExit(b)
  PROVE  IInv'
<1> USE NamesAssumption, BoundsAssumption
<1>1. /\ Types /\ OpInv
      /\ \A r \in Procs : stage[r] \in {"search", "write", "unlock"} => lock = r
  BY DEF IInv, LockInv
<1>2. CASE BumpUnlock(b)
  <2>1. /\ stage[b] = "unlock" /\ lock = b /\ lock' = None
        /\ UNCHANGED <<file, buffer, cmds, bounds, history>>
    BY <1>1, <1>2 DEF BumpUnlock, Unlock
  <2>2. CASE op[b] = "getpid" /\ arg[b] # None
    <3>1. stage' = [stage EXCEPT ![b] = "kill"] /\ UNCHANGED <<op, arg, pos>>
      BY <1>2, <2>2 DEF BumpUnlock
    <3>2. Local(b, "kill", "getpid", arg[b])
      BY <1>1, <2>1, <2>2, <3>1 DEF Local, Types, Stages, history
    <3>3. b \notin Pans /\ arg[b] \in Pids /\ lookups' \in 0..MaxLookups /\ errors' \in 0..MaxErrors
      BY <1>1, <2>1, <2>2 DEF Types, bounds
    <3>4. OpFor(b, "kill", "getpid", arg[b])
      BY <3>3 DEF OpFor
    <3> QED
      BY <2>1, <3>2, <3>3, <3>4, BumpLocal DEF bounds
  <2>3. CASE ~ (op[b] = "getpid" /\ arg[b] # None)
    <3>1. Finish(b, "idle")
      BY <1>2, <2>3 DEF BumpUnlock
    <3>2. Local(b, "idle", "mark", None)
      BY <2>1, <3>1, FinishLocal DEF Stages
    <3>3. OpFor(b, "idle", "mark", None) /\ lookups' \in 0..MaxLookups /\ errors' \in 0..MaxErrors
      BY <1>1, <2>1 DEF OpFor, Types, bounds
    <3> QED
      BY <2>1, <3>2, <3>3, BumpLocal DEF bounds
  <2> QED
    BY <2>2, <2>3
<1>3. CASE BumpKill(b)
  <2>1. /\ stage[b] = "kill" /\ lock' = lock /\ arg[b] \in Pids
        /\ UNCHANGED <<file, cmds, bounds, history>>
    BY <1>1, <1>3 DEF BumpKill, OpInv, disk
  <2>2. CASE arg[b] \in proc
    <3>1. Finish(b, "idle") /\ UNCHANGED buffer
      BY <1>3, <2>2 DEF BumpKill
    <3>2. Local(b, "idle", "mark", None)
      BY <2>1, <3>1, FinishLocal DEF Stages
    <3>3. OpFor(b, "idle", "mark", None) /\ lookups' \in 0..MaxLookups /\ errors' \in 0..MaxErrors
      BY <1>1, <2>1 DEF OpFor, Types, bounds
    <3> QED
      BY <2>1, <3>2, <3>3, BumpLocal DEF bounds
  <2>3. CASE arg[b] \notin proc
    <3>1. Begin(b, "clear", arg[b])
      BY <1>3, <2>3 DEF BumpKill
    <3>2. Local(b, "lock", "clear", arg[b])
      BY <2>1, <3>1, BeginLocal DEF Ops
    <3>3. OpFor(b, "lock", "clear", arg[b]) /\ lookups' \in 0..MaxLookups /\ errors' \in 0..MaxErrors
      BY <1>1, <2>1, <2>3 DEF OpFor, Types, bounds, cmds
    <3> QED
      BY <2>1, <3>2, <3>3, BumpLocal DEF bounds
  <2> QED
    BY <2>2, <2>3
<1>4. CASE Bump(b)
  <2>1. /\ stage[b] = "idle" /\ lock' = lock /\ lookups' \in 0..MaxLookups
        /\ errors' \in 0..MaxErrors
        /\ Begin(b, "getpid", None) /\ UNCHANGED <<file, cmds, starts, crashes, history>>
    BY <1>1, <1>4, SMTT(30) DEF Bump, Types, disk
  <2>2. Local(b, "lock", "getpid", None)
    BY <2>1, BeginLocal DEF Ops
  <2>3. OpFor(b, "lock", "getpid", None)
    BY DEF OpFor
  <2> QED
    BY <2>1, <2>2, <2>3, BumpLocal
<1>5. CASE BumpSeekFails(b)
  <2>1. /\ Finish(b, "idle") /\ lock' = lock
        /\ UNCHANGED buffer \/ buffer' = [buffer EXCEPT ![b] = None]
        /\ UNCHANGED <<file, cmds, starts, lookups, crashes, history>>
    BY <1>5 DEF BumpSeekFails, disk
  <2>2. lookups' \in 0..MaxLookups /\ errors' \in 0..MaxErrors
    BY <1>1, <1>5, SMTT(30) DEF BumpSeekFails, SeekError, Types
  <2>3. Local(b, "idle", "mark", None) /\ OpFor(b, "idle", "mark", None)
    BY <2>1, FinishLocal DEF Stages, OpFor
  <2> QED
    BY <2>1, <2>2, <2>3, BumpLocal
<1>6. CASE BumpExit(b)
  <2>1. /\ Finish(b, "gone") /\ lock' = IF lock = b THEN None ELSE lock
        /\ UNCHANGED <<file, buffer, cmds, bounds, history>>
    BY <1>6 DEF BumpExit
  <2>2. lookups' \in 0..MaxLookups /\ errors' \in 0..MaxErrors
    BY <1>1, <2>1 DEF Types, bounds
  <2>3. Local(b, "gone", "mark", None) /\ OpFor(b, "gone", "mark", None)
    BY <2>1, FinishLocal DEF Stages, OpFor
  <2> QED
    BY <2>1, <2>2, <2>3, BumpLocal DEF bounds
<1> QED
  BY <1>2, <1>3, <1>4, <1>5, <1>6

LEMMA DieStep ==
  ASSUME IInv, UNCHANGED vars \/ \E q \in Pids : Die(q)
  PROVE  IInv'
<1>1. /\ UNCHANGED <<disk, step, owner, orphans, bounds, history>>
      /\ proc' \subseteq proc
  BY DEF Die, vars, cmds
<1> USE <1>1 DEF IInv, disk, step, bounds, history
<1>2. Types' /\ LockInv' /\ OpInv' /\ OwnInv'
  BY DEF Types, LockInv, OpInv, OwnInv
<1>3. PosInv'
  <2>1. \A r \in Procs : PosAt(r)' = PosAt(r)
    BY DEF PosAt, LinesOf
  <2> QED
    BY <2>1 DEF PosInv
<1>4. BufInv'
  BY DEF BufInv
<1>5. ListInv'
  <2>1. \A q \in Pids : Written(q)' = Written(q) /\ Listed(q)' = Listed(q)
    BY DEF Written, Recorded, Listed, LinesOf
  <2> QED
    BY <2>1 DEF ListInv
<1>6. DeadInv'
  <2> SUFFICES ASSUME NEW b \in Bumps \cap fresh, stage[b] \in Working, op[b] = "clear",
                      arg[b] \in proc', owner[arg[b]] # None
               PROVE  LET p == owner[arg[b]]
                      IN  /\ arg[p] = arg[b] /\ op[p] = "mark"
                          /\ stage[p] \in {"lock", "search", "write"}
    BY DEF DeadInv
  <2> QED
    BY DEF DeadInv
<1> QED
  BY <1>2, <1>3, <1>4, <1>5, <1>6

(* The strengthened invariant, from which the properties of the file follow:  *)
(* it is kept by every step of a driver and of ltp-bump.                      *)
THEOREM Invariance == Spec => []IInv
<1>1. ASSUME IInv, [Next]_vars
      PROVE  IInv'
  <2>1. ASSUME NEW p \in Pans, PanStep(p) \/ Crash(p) \/ \E q \in Pids : Start(p, q) \/ End(p, q)
        PROVE  IInv'
    BY <1>1, <2>1, LockStep, SearchMarkStep, SearchClearStep, WriteStep, PanOtherStep DEF PanStep
  <2>2. ASSUME NEW b \in Bumps, BumpStep(b) \/ Bump(b)
        PROVE  IInv'
    BY <1>1, <2>2, LockStep, SearchGetpidStep, SearchClearStep, WriteStep, BumpOtherStep
    DEF BumpStep
  <2> QED
    BY <1>1, <2>1, <2>2, DieStep DEF Next
<1> QED
  BY InitIInv, <1>1, PTL DEF Spec

(* Every command a driver has recorded is in the file as long as no        *)
(* ltp-bump has cleared anything.                                          *)
THEOREM Records == Spec => []RecordedListed
<1>1. IInv => RecordedListed
  BY DEF IInv, ListInv, Written, RecordedListed
<1> QED
  BY Invariance, <1>1, PTL

(* Only a write changes the file and the count of its entries.             *)
LEMMA OnlyWrites ==
  ASSUME [Next]_vars
  PROVE  UNCHANGED <<file, peak>> \/ \E p \in Procs : Write(p)
<1>1. ASSUME NEW p \in Pans, PanStep(p) \/ Crash(p) \/ \E q \in Pids : Start(p, q) \/ End(p, q)
      PROVE  UNCHANGED <<file, peak>> \/ Write(p)
  BY <1>1 DEF PanStep, Lock, SearchMark, SearchClear, PanMarked, PanCleared, PanOrphan,
              PanFails, PanSeekFails, PanKeepsLock, Gone, Crash, Start, End, disk, history
<1>2. ASSUME NEW b \in Bumps, BumpStep(b) \/ Bump(b)
      PROVE  UNCHANGED <<file, peak>> \/ Write(b)
  BY <1>2 DEF BumpStep, Lock, SearchGetpid, SearchClear, BumpUnlock, BumpKill, Bump,
              BumpSeekFails, BumpExit, disk, history
<1>3. ASSUME UNCHANGED vars \/ \E q \in Pids : Die(q)
      PROVE  UNCHANGED <<file, peak>>
  BY <1>3 DEF vars, disk, history, Die
<1> QED
  BY <1>1, <1>2, <1>3 DEF Next

(* ltp-bump takes the entry of a process that exists only if the file was  *)
(* written since it read it.                                               *)
THEOREM StaleBumps == Spec => OnlyStaleBumps
<1> USE NamesAssumption
<1>1. ASSUME IInv, [Next]_vars, NEW q \in proc, Recorded(q), Listed(q), ~ Listed(q)'
      PROVE  \E b \in Bumps \ fresh : stage[b] = "write"
  <2>1. PICK p \in Procs : Write(p)
    BY <1>1, OnlyWrites DEF Listed, LinesOf
  <2>2. /\ arg[p] \in Pids /\ (Appends(p) \/ Fills(p) \/ Blanks(p))
        /\ DOMAIN file = 1..Len(file) /\ Len(file) \in Nat
        /\ DOMAIN file' = 1..Len(file')
        /\ Len(file') \in Nat /\ Len(file) <= Len(file')
    BY <1>1, <2>1, WriteLine
  <2>3. PICK i \in DOMAIN file : file[i] = q
    BY <1>1 DEF Listed, LinesOf
  <2>4. i \in DOMAIN file' /\ file'[i] # q /\ q \in Pids
    <3>1. i \in DOMAIN file'
      BY <2>2, SMTT(30)
    <3> QED
      BY <1>1, <3>1 DEF Listed, LinesOf, IInv, Types
  <2>5. Blanks(p) /\ i = pos[p]
    BY <2>2, <2>3, <2>4 DEF Appends, Fills, Blanks
  <2>6. stage[p] = "write" /\ op[p] = "clear" /\ (p \in Pans \cup fresh => arg[p] = q)
    BY <2>1, <2>3, <2>5 DEF Write, Blanks
  <2>7. p \notin Pans
    BY <1>1, <2>6 DEF IInv, OwnInv, Working, Recorded
  <2>8. p \notin fresh
    <3> SUFFICES ASSUME p \in fresh PROVE FALSE
      OBVIOUS
    <3>1. owner[q] # None /\ (arg[owner[q]] # q \/ stage[owner[q]] = "idle")
      BY <1>1 DEF Recorded
    <3> QED
      BY <1>1, <2>6, <2>7, <3>1 DEF IInv, DeadInv, Working
  <2> QED
    BY <2>6, <2>7, <2>8
<1>2. IInv /\ [Next]_vars =>
        [\A q \in proc : Recorded(q) /\ Listed(q) /\ ~ Listed(q)' =>
            \E b \in Bumps \ fresh : stage[b] = "write"]_vars
  BY <1>1
<1> QED
  BY Invariance, <1>2, PTL DEF Spec, OnlyStaleBumps
============================================================================
