---------------------------- MODULE LoggerProofs ----------------------------
(***************************************************************************)
(* Proofs about module Logger.                                             *)
(*                                                                         *)
(* Typing adds to TypeOK what each step of a rotation finds.  OrderInv     *)
(* adds that every file holds its lines in order and that the follower is  *)
(* behind nothing it has seen; it needs no condition on the processes or   *)
(* the faults.                                                             *)
(*                                                                         *)
(* The other two results are for one process per path.  LogInv adds that   *)
(* open writers are on the log file (PathInv) and that the log file and    *)
(* its dated backups hold a suffix of what was accepted (LogOK).  SizeInv  *)
(* bounds the counter of bytes by the copiers that are about to add to it  *)
(* or to take the limit off (CounterInv): Low and High bound the counter,  *)
(* Drift bounds the size of the file by the counter.                       *)
(***************************************************************************)
EXTENDS Logger, TLAPS, FiniteSetTheorems, SequenceTheorems

Line == 1 .. MaxLines
CopierRecord == [pc : {"none", "copy", "add", "sub", "broken", "unlogged", "done"},
                 w : 0 .. Len(writers), n : {0, 1}]

(* Types, and what each step of an operation finds. *)
Typing ==
    /\ TypeOK
    /\ \A c \in Copiers : copier[c].pc \in {"copy", "add", "sub"} => copier[c].w # 0
    /\ rot.pc = "close" => stream[rot.p] # 0
    /\ rot.pc \in {"close", "rename"} => path # 0
    /\ rot.pc \in {"compress", "remove"} => \E b \in backups : b.ts = rotations /\ ~b.gz
    /\ follower.pc # "away" => follower.ino # 0

-----------------------------------------------------------------------------
(* Sequences *)

LEMMA Appended ==
    ASSUME NEW S, NEW s \in Seq(S), NEW e \in S
    PROVE  /\ Append(s, e) \in Seq(S) /\ Len(Append(s, e)) = Len(s) + 1
           /\ Len(s) \in Nat
           /\ DOMAIN s = 1 .. Len(s) /\ DOMAIN Append(s, e) = 1 .. Len(s) + 1
           /\ \A i \in 1 .. Len(s) : Append(s, e)[i] = s[i]
           /\ Append(s, e)[Len(s) + 1] = e
  OBVIOUS

LEMMA Replaced ==
    ASSUME NEW S, NEW s \in Seq(S), NEW k \in 1 .. Len(s), NEW e \in S
    PROVE  /\ [s EXCEPT ![k] = e] \in Seq(S) /\ Len([s EXCEPT ![k] = e]) = Len(s)
           /\ Len(s) \in Nat
           /\ DOMAIN s = 1 .. Len(s) /\ DOMAIN [s EXCEPT ![k] = e] = 1 .. Len(s)
           /\ \A i \in 1 .. Len(s) : [s EXCEPT ![k] = e][i] = IF i = k THEN e ELSE s[i]
  BY ExceptSeq, LenProperties

LEMMA WidthType == ASSUME TypeOK PROVE Len(files) \in Nat /\ Len(writers) \in Nat
  BY DEF TypeOK

Wrecord(n) == [ino : 0 .. n, bytesWritten : Int]

LEMMA Wider ==
    ASSUME NEW m \in Nat, NEW n \in Nat, m <= n, NEW s \in Seq(Wrecord(m))
    PROVE  s \in Seq(Wrecord(n))
<1>1. Wrecord(m) \subseteq Wrecord(n)
  BY DEF Wrecord
<1>2. QED
  BY <1>1, SeqMonotonic

LEMMA ClosedType ==
    ASSUME TypeOK
    PROVE  /\ AllClosed \in Seq(Wrecord(Len(files))) /\ Len(AllClosed) = Len(writers)
           /\ \A i \in 1 .. Len(writers) : AllClosed[i].ino = 0
<1> DEFINE n == Len(writers)
           R == Wrecord(Len(files))
<1>1. n \in Nat /\ DOMAIN writers = 1 .. n /\ writers \in Seq(R) /\ Len(files) \in Nat
  BY DEF TypeOK, Wrecord
<1>2. ASSUME NEW i \in 1 .. n
      PROVE  [writers[i] EXCEPT !.ino = 0] \in R /\ [writers[i] EXCEPT !.ino = 0].ino = 0
  <2>1. writers[i] \in R
    BY <1>1, ElementOfSeq
  <2>2. QED
    BY <1>1, <2>1 DEF Wrecord
<1>3. AllClosed \in [1 .. n -> R]
  BY <1>1, <1>2 DEF AllClosed
<1>4. AllClosed \in Seq(R)
  BY <1>1, <1>3, SeqDef
<1>5. Len(AllClosed) = n
  BY <1>1, <1>3, <1>4, LenProperties
<1>6. QED
  BY <1>1, <1>2, <1>4, <1>5 DEF AllClosed

-----------------------------------------------------------------------------
(* Types *)

LEMMA FilesType ==
    ASSUME TypeOK
    PROVE  /\ files \in Seq(Seq(Line)) /\ Len(files) \in Nat /\ DOMAIN files = 1 .. Len(files)
           /\ \A f \in 1 .. Len(files) : files[f] \in Seq(Line)
           /\ path \in 0 .. Len(files)
<1>1. files \in Seq(Seq(Line)) /\ path \in 0 .. Len(files)
  BY DEF TypeOK, Line
<1>2. QED
  BY <1>1, LenProperties, ElementOfSeq

LEMMA WritersType ==
    ASSUME TypeOK
    PROVE  /\ writers \in Seq(Wrecord(Len(files))) /\ Len(writers) \in Nat
           /\ DOMAIN writers = 1 .. Len(writers)
           /\ \A w \in 1 .. Len(writers) : writers[w] \in Wrecord(Len(files))
           /\ stream \in [Processes -> 0 .. Len(writers)]
<1>1. writers \in Seq(Wrecord(Len(files))) /\ stream \in [Processes -> 0 .. Len(writers)]
  BY DEF TypeOK, Wrecord
<1>2. QED
  BY <1>1, LenProperties, ElementOfSeq

LEMMA CopierType ==
    ASSUME Typing
    PROVE  /\ copier \in [Copiers -> CopierRecord] /\ Len(writers) \in Nat
           /\ \A c \in Copiers : copier[c] \in CopierRecord
           /\ \A c \in Copiers : copier[c].pc \in {"copy", "add", "sub"} =>
                 copier[c].w \in 1 .. Len(writers)
<1>1. copier \in [Copiers -> CopierRecord] /\ Len(writers) \in Nat
  BY WritersType DEF Typing, TypeOK, CopierRecord
<1>2. \A c \in Copiers : copier[c].pc \in {"copy", "add", "sub"} => copier[c].w # 0
  BY DEF Typing
<1>3. ASSUME NEW c \in Copiers PROVE copier[c] \in CopierRecord
  BY <1>1
<1>4. QED
  BY <1>1, <1>2, <1>3 DEF CopierRecord

LEMMA AcceptedType == ASSUME TypeOK
                      PROVE  accepted \in Nat /\ accepted <= MaxLines /\ MaxLines \in Nat
  BY LoggerAssumption DEF TypeOK

(* what is known of the copiers once c has another record *)
CopiersOK ==
    /\ copier \in [Copiers -> CopierRecord]
    /\ \A c \in Copiers : copier[c].pc \in {"copy", "add", "sub"} => copier[c].w # 0

LEMMA CopierSet ==
    ASSUME Typing, NEW c \in Copiers, NEW r \in CopierRecord,
           r.pc \in {"copy", "add", "sub"} => r.w # 0,
           copier' = [copier EXCEPT ![c] = r], Len(writers') = Len(writers)
    PROVE  CopiersOK'
<1>1. copier \in [Copiers -> CopierRecord]
  BY CopierType
<1>2. copier' \in [Copiers -> CopierRecord]
  BY <1>1
<1>3. ASSUME NEW d \in Copiers, copier'[d].pc \in {"copy", "add", "sub"} PROVE copier'[d].w # 0
  BY <1>1, <1>3 DEF Typing
<1>4. CopierRecord' = CopierRecord
  BY DEF CopierRecord
<1>5. QED
  BY <1>2, <1>3, <1>4 DEF CopiersOK

LEMMA AddRecord ==
    ASSUME NEW r \in CopierRecord, NEW n \in {0, 1}
    PROVE  /\ [r EXCEPT !.pc = "add", !.n = n] \in CopierRecord
           /\ [r EXCEPT !.pc = "add", !.n = n].w = r.w
  BY DEF CopierRecord

LEMMA TypingInit == Init => Typing
<1> SUFFICES ASSUME Init PROVE Typing
  OBVIOUS
<1>0. \E p \in Processes : TRUE
  BY LoggerAssumption
<1>1. Idle \in [pc : {"idle", "close", "rename", "compress", "remove", "clean", "open"},
                p : Processes, by : 0 .. Starts]
  BY <1>0, LoggerAssumption DEF Idle
<1>2. files \in Seq(Seq(1 .. MaxLines)) /\ Len(files) = 0 /\ writers = <<>> /\ Len(writers) = 0
  BY DEF Init
<1>2a. <<>> \in Seq([ino : 0 .. Len(files), bytesWritten : Int])
  BY EmptySeq
<1>3. TypeOK
  BY <1>1, <1>2, <1>2a, LoggerAssumption DEF Init, TypeOK, Away
<1>4. QED
  BY <1>3 DEF Init, Typing, Idle, Away

LEMMA TypingWrite ==
    ASSUME Typing, NEW c \in Copiers, Write(c)
    PROVE  Typing'
<1> DEFINE ino == writers[copier[c].w].ino
           n == IF ino = 0 THEN 0 ELSE 1
<1>0. TypeOK /\ copier[c].pc = "copy" /\ accepted < MaxLines
  BY DEF Typing, Write
<1>1. copier[c].w \in 1 .. Len(writers) /\ copier[c] \in CopierRecord
  BY <1>0, CopierType
<1>2. ino \in 0 .. Len(files)
  BY <1>0, <1>1, WritersType DEF Wrecord
<1>3. CopiersOK'
  <2>1. copier' = [copier EXCEPT ![c] = [copier[c] EXCEPT !.pc = "add", !.n = n]]
    BY <1>1, CopierType DEF Write, CopierRecord
  <2>0. n \in {0, 1} /\ Len(writers) \in Nat
    BY CopierType
  <2> HIDE DEF n
  <2>2. [copier[c] EXCEPT !.pc = "add", !.n = n] \in CopierRecord
        /\ [copier[c] EXCEPT !.pc = "add", !.n = n].w = copier[c].w
    BY <1>1, <2>0, AddRecord
  <2>2a. copier[c].w # 0
    BY <1>1, <2>0
  <2>3. QED
    BY <2>1, <2>2, <2>2a, CopierSet DEF Write
<1>4. accepted' \in 0 .. MaxLines
  BY <1>0, AcceptedType DEF Write
<1>5. files' \in Seq(Seq(1 .. MaxLines)) /\ Len(files') = Len(files)
  <2>1. CASE ino = 0
    BY <2>1 DEF Typing, TypeOK, Write
  <2>2. CASE ino # 0
    <3>1. ino \in 1 .. Len(files) /\ files[ino] \in Seq(1 .. MaxLines)
      BY <1>0, <1>2, <2>2, FilesType DEF Line
    <3>2. accepted + 1 \in 1 .. MaxLines
      BY <1>0, AcceptedType
    <3>3. Append(files[ino], accepted + 1) \in Seq(1 .. MaxLines)
      BY <3>1, <3>2, Appended
    <3>4. files' = [files EXCEPT ![ino] = Append(files[ino], accepted + 1)]
      BY <2>2 DEF Write
    <3>5. files \in Seq(Seq(1 .. MaxLines))
      BY DEF Typing, TypeOK
    <3>6. QED
      BY <3>1, <3>3, <3>4, <3>5, ExceptSeq, SMTT(30)
  <2>3. QED
    BY <2>1, <2>2
<1>6. DOMAIN files' = DOMAIN files
  BY <1>5 DEF Typing, TypeOK
<1>7. TypeOK'
  BY <1>3, <1>4, <1>5, <1>6 DEF Typing, TypeOK, Write, CopierRecord, CopiersOK
<1>8. QED
  BY <1>3, <1>7 DEF Typing, Write, CopiersOK

LEMMA TypingCount ==
    ASSUME Typing, NEW c \in Copiers, Count(c) \/ Exceed(c)
    PROVE  Typing'
<1> DEFINE w == copier[c].w
           n == IF copier[c].pc = "add" THEN writers[w].bytesWritten + copier[c].n
                ELSE writers[w].bytesWritten - MaxSize
<1>0. TypeOK /\ copier[c].pc \in {"add", "sub"}
  BY DEF Typing, Count, Exceed
<1>1. w \in 1 .. Len(writers) /\ copier[c] \in CopierRecord
  BY <1>0, CopierType
<1>2. writers[w] \in [ino : 0 .. Len(files), bytesWritten : Int]
  BY <1>0, <1>1, WritersType DEF Wrecord
<1>3. n \in Int
  BY <1>1, <1>2, LoggerAssumption DEF CopierRecord
<1>4. writers' = [writers EXCEPT ![w] = [writers[w] EXCEPT !.bytesWritten = n]]
  BY DEF Count, Exceed
<1>5. [writers[w] EXCEPT !.bytesWritten = n] \in [ino : 0 .. Len(files), bytesWritten : Int]
  BY <1>2, <1>3
<1>6. writers' \in Seq([ino : 0 .. Len(files), bytesWritten : Int]) /\ Len(writers') = Len(writers)
  <2>1. writers \in Seq([ino : 0 .. Len(files), bytesWritten : Int])
    BY DEF Typing, TypeOK
  <2>2. QED
    BY <1>1, <1>4, <1>5, <2>1, ExceptSeq
<1>7. CopiersOK'
  <2>1. PICK k \in {"sub", "copy", "broken"} :
            copier' = [copier EXCEPT ![c] = [copier[c] EXCEPT !.pc = k]]
    BY <1>1, CopierType DEF Count, Exceed, Returned, CopierRecord
  <2>2. [copier[c] EXCEPT !.pc = k] \in CopierRecord /\ [copier[c] EXCEPT !.pc = k].w # 0
    BY <1>1 DEF CopierRecord
  <2>3. QED
    BY <1>6, <2>1, <2>2, CopierSet
<1>8. pending' \in [Processes -> Nat]
  <2>1. pending \in [Processes -> Nat] /\ c[1] \in Processes
    BY DEF Typing, TypeOK, Copiers
  <2>2. QED
    BY <2>1 DEF Count, Exceed
<1>9. TypeOK'
  BY <1>6, <1>7, <1>8 DEF Typing, TypeOK, Count, Exceed, CopierRecord, CopiersOK
<1>10. QED
  BY <1>7, <1>9 DEF Typing, Count, Exceed, CopiersOK

LEMMA TypingExits ==
    ASSUME Typing, NEW c \in Copiers, ChildExits(c)
    PROVE  Typing'
<1>1. CopiersOK'
  <2>1. Done \in CopierRecord /\ Done.pc \notin {"copy", "add", "sub"}
    BY CopierType DEF CopierRecord, Done
  <2>2. QED
    BY <2>1, CopierSet DEF ChildExits
<1>2. TypeOK'
  BY <1>1 DEF Typing, TypeOK, ChildExits, CopierRecord, CopiersOK
<1>3. QED
  BY <1>1, <1>2 DEF Typing, ChildExits, CopiersOK

RotRecord == [pc : {"idle", "close", "rename", "compress", "remove", "clean", "open"},
              p : Processes, by : 0 .. Starts]

LEMMA RotType ==
    ASSUME Typing
    PROVE  /\ rot \in RotRecord /\ Idle \in RotRecord /\ Idle.pc = "idle"
           /\ rot.by # 0 => <<rot.p, rot.by>> \in Copiers
<1>0. \E p \in Processes : TRUE
  BY LoggerAssumption
<1>1. Idle \in RotRecord /\ Idle.pc = "idle"
  BY <1>0, LoggerAssumption DEF Idle, RotRecord
<1>2. rot \in RotRecord
  BY DEF Typing, TypeOK, RotRecord
<1>3. QED
  BY <1>1, <1>2, LoggerAssumption DEF RotRecord, Copiers

(* the two copiers' records that the logger hands out *)
LEMMA HandedOK ==
    ASSUME Typing, NEW c \in Copiers, NEW w \in Nat, w # 0, w <= Len(writers'),
           copier' = Handed(c, w), Len(writers') \in Nat, Len(writers) <= Len(writers')
    PROVE  CopiersOK'
<1> DEFINE r == [pc |-> "copy", w |-> w, n |-> 0]
           R == [pc : {"none", "copy", "add", "sub", "broken", "unlogged", "done"},
                 w : 0 .. Len(writers'), n : {0, 1}]
<1>1. copier \in [Copiers -> CopierRecord] /\ Len(writers) \in Nat
  BY CopierType
<1>2. CopierRecord \subseteq R /\ r \in R /\ r.w # 0
  BY <1>1 DEF CopierRecord
<1>3. copier' = [copier EXCEPT ![c] = r]
  BY DEF Handed
<1> HIDE DEF r, R
<1>4. copier \in [Copiers -> R]
  BY <1>1, <1>2
<1>5. copier' \in [Copiers -> R]
  BY <1>2, <1>3, <1>4
<1>6. ASSUME NEW d \in Copiers, copier'[d].pc \in {"copy", "add", "sub"} PROVE copier'[d].w # 0
  <2>1. copier'[d] = IF d = c THEN r ELSE copier[d]
    BY <1>1, <1>3
  <2>2. QED
    BY <1>2, <1>6, <2>1 DEF Typing
<1>7. QED
  BY <1>5, <1>6 DEF CopiersOK, CopierRecord, R

LEMMA GaveUp ==
    ASSUME Typing, GiveUp, writers' = writers
    PROVE  CopiersOK' /\ rot' \in RotRecord /\ rot'.pc = "idle"
<1>1. rot' = Idle
  BY DEF GiveUp
<1>2. CASE rot.by = 0
  <2>1. copier' = copier
    BY <1>2 DEF GiveUp
  <2>2. QED
    BY <1>1, <2>1, RotType, CopierType DEF Typing, CopiersOK, CopierRecord
<1>3. CASE rot.by # 0
  <2> DEFINE c == <<rot.p, rot.by>>
             r == [copier[c] EXCEPT !.pc = "unlogged"]
  <2>1. c \in Copiers /\ rot' \in RotRecord /\ rot'.pc = "idle"
    BY <1>1, <1>3, RotType
  <2>2. copier[c] \in CopierRecord /\ copier \in [Copiers -> CopierRecord]
    BY <2>1, CopierType
  <2>3. r \in CopierRecord /\ r.pc = "unlogged"
    BY <2>2 DEF CopierRecord
  <2>4. copier' = [copier EXCEPT ![c] = r]
    BY <1>3, <2>2 DEF GiveUp
  <2> HIDE DEF r, c
  <2>5. CopiersOK'
    BY <2>1, <2>3, <2>4, CopierSet
  <2>6. QED
    BY <2>1, <2>5
<1>4. QED
  BY <1>2, <1>3

LEMMA TypingGetWriter ==
    ASSUME Typing, NEW p \in Processes, NEW i \in 1 .. Starts, GetWriter(p, i)
    PROVE  Typing'
<1>0. <<p, i>> \in Copiers /\ Starts \in Nat
  BY LoggerAssumption DEF Copiers
<1>1. stream[p] \in 0 .. Len(writers) /\ Len(writers) \in Nat
  BY WritersType DEF Typing
<1>2. CASE stream[p] # 0 /\ ~Oversize
  <2>1. copier' = Handed(<<p, i>>, stream[p]) /\ writers' = writers /\ rot' = rot
    BY <1>2 DEF GetWriter
  <2>2. CopiersOK'
    BY <1>0, <1>1, <1>2, <2>1, HandedOK
  <2>3. TypeOK'
    BY <2>1, <2>2 DEF Typing, TypeOK, GetWriter, CopiersOK, CopierRecord
  <2>4. QED
    BY <2>1, <2>2, <2>3 DEF Typing, GetWriter, CopiersOK
<1>3. CASE ~(stream[p] # 0 /\ ~Oversize)
  <2> DEFINE k == IF stream[p] # 0 THEN "close" ELSE IF Oversize THEN "rename" ELSE "open"
  <2>1. copier' = copier /\ writers' = writers /\ rot' = [pc |-> k, p |-> p, by |-> i]
    BY <1>3 DEF GetWriter
  <2>2. rot' \in RotRecord
    BY <1>0, <2>1 DEF RotRecord
  <2>3. TypeOK'
    BY <2>1, <2>2 DEF Typing, TypeOK, GetWriter, RotRecord
  <2>4. rot'.pc = k /\ rot'.p = p
    BY <2>1
  <2>5. QED
    BY <2>1, <2>3, <2>4 DEF Typing, GetWriter, Oversize
<1>4. QED
  BY <1>2, <1>3

LEMMA TypingRotateIfNeeded ==
    ASSUME Typing, NEW p \in Processes, RotateIfNeeded(p)
    PROVE  Typing'
<1>1. rot' \in RotRecord
  BY RotType, LoggerAssumption DEF RotateIfNeeded, RotRecord
<1>2. pending' \in [Processes -> Nat]
  <2>1. pending \in [Processes -> Nat]
    BY DEF Typing, TypeOK
  <2>2. QED
    BY <2>1 DEF RotateIfNeeded
<1>3. TypeOK'
  BY <1>1, <1>2 DEF Typing, TypeOK, RotateIfNeeded, RotRecord
<1>4. QED
  BY <1>3 DEF Typing, RotateIfNeeded, Oversize

LEMMA TypingRotateClose ==
    ASSUME Typing, RotateClose
    PROVE  Typing'
<1> DEFINE w == stream[rot.p]
<1>1. rot \in RotRecord /\ TypeOK /\ rot.pc = "close"
  BY RotType DEF Typing, RotateClose
<1>2. w \in 1 .. Len(writers)
  <2>1. w # 0 /\ rot.p \in Processes
    BY <1>1 DEF Typing, RotRecord
  <2>2. QED
    BY <1>1, <2>1, WritersType
<1>3. writers[w] \in Wrecord(Len(files)) /\ Len(files) \in Nat
  BY <1>1, <1>2, WritersType, FilesType
<1>4. [writers[w] EXCEPT !.ino = 0] \in Wrecord(Len(files))
  BY <1>3 DEF Wrecord
<1>5. writers' = [writers EXCEPT ![w] = [writers[w] EXCEPT !.ino = 0]]
  BY DEF RotateClose
<1>6. writers' \in Seq(Wrecord(Len(files))) /\ Len(writers') = Len(writers)
  BY <1>1, <1>2, <1>4, <1>5, WritersType, ExceptSeq
<1>7. rot' \in RotRecord /\ rot'.pc = "rename"
  BY <1>1 DEF RotateClose, RotRecord
<1>8. TypeOK'
  BY <1>6, <1>7 DEF Typing, TypeOK, RotateClose, RotRecord, Wrecord
<1>9. QED
  BY <1>7, <1>8 DEF Typing, RotateClose

LEMMA TypingRename ==
    ASSUME Typing, RotateRename
    PROVE  Typing'
<1>1. rot \in RotRecord /\ rot.pc = "rename" /\ TypeOK
  BY RotType DEF Typing, RotateRename
<1>2. path \in 1 .. Len(files) /\ DOMAIN files = 1 .. Len(files) /\ Len(files) \in Nat
  BY <1>1, FilesType DEF Typing
<1>3. CASE rotations' = rotations + 1
  <2> DEFINE b == [ts |-> rotations + 1, ino |-> path, gz |-> FALSE]
  <2>0. rotations \in Nat
    BY DEF Typing, TypeOK
  <2>1. /\ backups' = backups \cup {b} /\ path' = 0 /\ copier' = copier
        /\ rot' = [rot EXCEPT !.pc = "compress"]
    BY <1>3, <2>0 DEF RotateRename
  <2>2. rot' \in RotRecord /\ rot'.pc = "compress"
    BY <1>1, <2>1 DEF RotRecord
  <2>3. backups' \subseteq [ts : 1 .. rotations', ino : DOMAIN files, gz : BOOLEAN]
    <3>1. ASSUME NEW x \in backups
          PROVE  x \in [ts : 1 .. rotations + 1, ino : DOMAIN files, gz : BOOLEAN]
      <4>1. x \in [ts : 1 .. rotations, ino : DOMAIN files, gz : BOOLEAN]
        BY DEF Typing, TypeOK
      <4>2. 1 .. rotations \subseteq 1 .. rotations + 1
        BY <2>0
      <4>3. QED
        BY <4>1, <4>2
    <3>2. FALSE \in BOOLEAN
      OBVIOUS
    <3>3. rotations + 1 \in 1 .. rotations + 1
      BY <2>0
    <3>4. b \in [ts : 1 .. rotations + 1, ino : DOMAIN files, gz : BOOLEAN]
      BY <1>2, <3>2, <3>3
    <3> HIDE DEF b
    <3>5. QED
      BY <1>3, <2>1, <3>1, <3>4
  <2>4. \E x \in backups' : x.ts = rotations' /\ ~x.gz
    <3>1. b.ts = rotations + 1 /\ ~b.gz
      OBVIOUS
    <3> HIDE DEF b
    <3>2. QED
      BY <1>3, <2>1, <3>1
  <2>5. rotations' \in Nat /\ path' \in 0 .. Len(files)
    BY <1>2, <1>3, <2>0, <2>1
  <2> HIDE DEF b
  <2>6. TypeOK'
    BY <2>1, <2>2, <2>3, <2>5 DEF Typing, TypeOK, RotateRename, RotRecord
  <2>7. QED
    BY <2>1, <2>2, <2>4, <2>6 DEF Typing, RotateRename
<1>4. CASE rotations' # rotations + 1
  <2>1. /\ GiveUp /\ UNCHANGED <<path, backups, rotations>>
        /\ UNCHANGED <<files, writers, stream, pending, follower, accepted>>
    BY <1>4 DEF RotateRename
  <2>2. CopiersOK' /\ rot' \in RotRecord /\ rot'.pc = "idle"
    BY <2>1, GaveUp
  <2>3. TypeOK'
    BY <2>1, <2>2 DEF Typing, TypeOK, RotRecord, CopiersOK, CopierRecord
  <2>4. QED
    BY <2>1, <2>2, <2>3 DEF Typing, CopiersOK
<1>5. QED
  BY <1>3, <1>4

(* the files grow by one *)
LEMMA Wide ==
    ASSUME TypeOK, NEW s \in Seq(Line), files' = Append(files, s)
    PROVE  /\ files' \in Seq(Seq(1 .. MaxLines)) /\ Len(files') = Len(files) + 1
           /\ DOMAIN files' = 1 .. Len(files) + 1
           /\ 0 .. Len(files) \subseteq 0 .. Len(files')
           /\ writers \in Seq([ino : 0 .. Len(files'), bytesWritten : Int])
           /\ follower \in [pc : {"away", "stat", "tick", "reopen", "read"}, ino : 0 .. Len(files'),
                     off : Nat, last : 0 .. Len(files'), want : 0 .. Len(files'), seen : Nat]
           /\ backups \subseteq [ts : 1 .. rotations, ino : DOMAIN files', gz : BOOLEAN]
<1>1. files \in Seq(Seq(Line)) /\ Len(files) \in Nat /\ DOMAIN files = 1 .. Len(files)
  BY FilesType
<1>2. /\ files' \in Seq(Seq(1 .. MaxLines)) /\ Len(files') = Len(files) + 1
      /\ DOMAIN files' = 1 .. Len(files) + 1
  BY <1>1, Appended DEF Line
<1>3. 0 .. Len(files) \subseteq 0 .. Len(files') /\ DOMAIN files \subseteq DOMAIN files'
  BY <1>1, <1>2
<1>4. writers \in Seq([ino : 0 .. Len(files'), bytesWritten : Int])
  <2>1. writers \in Seq(Wrecord(Len(files))) /\ Len(files') \in Nat /\ Len(files) <= Len(files')
    BY <1>1, <1>2, WritersType
  <2>2. writers \in Seq(Wrecord(Len(files')))
    BY <1>1, <2>1, Wider
  <2>3. QED
    BY <2>2 DEF Wrecord
<1>5. follower \in [pc : {"away", "stat", "tick", "reopen", "read"}, ino : 0 .. Len(files),
                     off : Nat, last : 0 .. Len(files), want : 0 .. Len(files), seen : Nat]
  BY DEF TypeOK
<1>6. follower \in [pc : {"away", "stat", "tick", "reopen", "read"}, ino : 0 .. Len(files'),
                     off : Nat, last : 0 .. Len(files'), want : 0 .. Len(files'), seen : Nat]
  BY <1>3, <1>5
<1>7. ASSUME NEW x \in backups
      PROVE  x \in [ts : 1 .. rotations, ino : DOMAIN files', gz : BOOLEAN]
  <2>1. x \in [ts : 1 .. rotations, ino : DOMAIN files, gz : BOOLEAN]
    BY DEF TypeOK
  <2>2. QED
    BY <2>1, <1>3
<1>8. QED
  BY <1>2, <1>3, <1>4, <1>6, <1>7

LEMMA BackupType ==
    ASSUME Typing
    PROVE  /\ rotations \in Nat
           /\ \A x \in backups : x.ts \in 1 .. rotations /\ x.ino \in 1 .. Len(files)
           /\ \A x \in backups : x \in [ts : 1 .. rotations, ino : 1 .. Len(files), gz : BOOLEAN]
<1>1. TypeOK /\ rotations \in Nat
  BY DEF Typing, TypeOK
<1>2. ASSUME NEW x \in backups
      PROVE  x \in [ts : 1 .. rotations, ino : 1 .. Len(files), gz : BOOLEAN]
  BY <1>1, FilesType DEF TypeOK
<1>3. QED
  BY <1>1, <1>2

(* what compressLog works on *)
LEMMA LatestIs ==
    ASSUME Typing, rot.pc \in {"compress", "remove"}
    PROVE  /\ Latest \in backups /\ Latest.ts = rotations /\ ~Latest.gz
           /\ files[Latest.ino] \in Seq(Line)
<1>1. \E x \in backups : x.ts = rotations /\ ~x.gz
  BY DEF Typing
<1>2. Latest \in backups /\ Latest.ts = rotations /\ ~Latest.gz
  BY <1>1 DEF Latest
<1>3. QED
  BY <1>2, BackupType, FilesType DEF Typing

LEMMA CopyIs == Copy.ts = rotations /\ Copy.ino = Len(files) + 1 /\ Copy.gz = TRUE
  BY DEF Copy

(* and how its steps end *)
LEMMA CopyEffect ==
    ASSUME Typing, CompressCopy
    PROVE  /\ rot.pc = "compress"
           /\ \/ Leave(files[Latest.ino]) /\ rot' = [rot EXCEPT !.pc = "remove"]
              \/ UNCHANGED <<backups, files>> /\ rot' = [rot EXCEPT !.pc = "clean"]
              \/ /\ "torn" \in Faults
                 /\ Leave(<<>>) /\ rot' = [rot EXCEPT !.pc = "clean"]
  BY DEF CompressCopy, Fault

LEMMA RemoveEffect ==
    ASSUME Typing, CompressRemove
    PROVE  /\ rot.pc = "remove" /\ rot' = [rot EXCEPT !.pc = "clean"]
           /\ backups' = backups \ {Latest} \/ backups' = backups
           /\ UNCHANGED <<files, path, rotations, writers, stream, copier, pending, follower,
                          accepted>>
  BY DEF CompressRemove

(* a copy beside the backups *)
LEMMA TypingLeave ==
    ASSUME Typing, NEW s \in Seq(Line), Leave(s), rot.pc = "compress"
    PROVE  /\ backups' \subseteq [ts : 1 .. rotations, ino : DOMAIN files', gz : BOOLEAN]
           /\ path \in 0 .. Len(files') /\ files' = Append(files, s)
<1>1. TypeOK /\ files' = Append(files, s) /\ backups' = backups \cup {Copy}
  BY DEF Typing, Leave
<1>2. Copy \in [ts : 1 .. rotations, ino : DOMAIN files', gz : BOOLEAN]
  <2>1. rotations \in 1 .. rotations
    BY LatestIs, BackupType
  <2>2. Len(files) + 1 \in DOMAIN files'
    BY <1>1, Wide, FilesType
  <2>3. TRUE \in BOOLEAN
    OBVIOUS
  <2>4. QED
    BY <2>1, <2>2, <2>3 DEF Copy
<1>3. backups \subseteq [ts : 1 .. rotations, ino : DOMAIN files', gz : BOOLEAN]
  BY <1>1, Wide
<1>4. path \in 0 .. Len(files')
  BY <1>1, Wide, FilesType
<1>5. QED
  BY <1>1, <1>2, <1>3, <1>4

LEMMA TypingCopy ==
    ASSUME Typing, CompressCopy
    PROVE  Typing'
<1>0. TypeOK /\ <<>> \in Seq(Line) /\ files[Latest.ino] \in Seq(Line)
  BY LatestIs, CopyEffect DEF Typing
<1>1. rot' \in RotRecord /\ rot'.pc \in {"remove", "clean"}
  BY CopyEffect, RotType DEF RotRecord
<1>2. CASE UNCHANGED <<backups, files>>
  <2>1. TypeOK'
    BY <1>0, <1>1, <1>2 DEF TypeOK, CompressCopy, RotRecord
  <2>2. QED
    BY <1>1, <1>2, <2>1 DEF Typing, CompressCopy
<1>3. ASSUME NEW s \in Seq(Line), Leave(s) PROVE Typing'
  <2>1. /\ backups' \subseteq [ts : 1 .. rotations, ino : DOMAIN files', gz : BOOLEAN]
        /\ path \in 0 .. Len(files') /\ files' = Append(files, s)
    BY <1>3, CopyEffect, TypingLeave
  <2>2. TypeOK'
    BY <1>0, <1>1, <2>1, Wide DEF TypeOK, CompressCopy, RotRecord
  <2>3. backups \subseteq backups'
    BY <1>3 DEF Leave
  <2>4. \E b \in backups' : b.ts = rotations /\ ~b.gz
    BY <2>3, LatestIs, CopyEffect
  <2>5. QED
    BY <1>1, <2>2, <2>4 DEF Typing, CompressCopy
<1>4. QED
  BY <1>0, <1>2, <1>3, CopyEffect

LEMMA TypingRemove ==
    ASSUME Typing, CompressRemove
    PROVE  Typing'
<1>1. rot' \in RotRecord /\ rot'.pc = "clean"
  BY RemoveEffect, RotType DEF RotRecord
<1>2. TypeOK'
  BY <1>1, RemoveEffect DEF Typing, TypeOK, CompressRemove, RotRecord
<1>3. QED
  BY <1>1, <1>2, RemoveEffect DEF Typing

LEMMA TypingCleanup ==
    ASSUME Typing, CleanupBackups
    PROVE  Typing'
<1>1. rot' \in RotRecord /\ rot'.pc = "open"
  BY RotType DEF RotRecord, CleanupBackups
<1>2. backups' \subseteq backups
  BY DEF CleanupBackups
<1>3. TypeOK'
  BY <1>1, <1>2 DEF Typing, TypeOK, CleanupBackups, RotRecord
<1>4. QED
  BY <1>1, <1>3 DEF Typing, CleanupBackups

(* the inode and the writer of an OpenLog *)
NewIno == IF path = 0 THEN Len(files) + 1 ELSE path
NewWriter == IF stream[rot.p] = 0 THEN Len(writers) + 1 ELSE stream[rot.p]

Opens ==
    /\ files' = IF path = 0 THEN Append(files, <<>>) ELSE files
    /\ path' = NewIno
    /\ writers' = IF stream[rot.p] = 0
                  THEN Append(writers, [ino |-> NewIno, bytesWritten |-> 0])
                  ELSE [writers EXCEPT ![NewWriter].ino = NewIno]
    /\ stream' = [stream EXCEPT ![rot.p] = NewWriter]
    /\ copier' = IF rot.by = 0 THEN copier ELSE Handed(<<rot.p, rot.by>>, NewWriter)
    /\ rot' = Idle

LEMMA OpenEffect ==
    ASSUME OpenLog
    PROVE  /\ rot.pc = "open"
           /\ Opens \/ (GiveUp /\ UNCHANGED <<files, path, writers, stream>>)
           /\ UNCHANGED <<backups, rotations, pending, follower, accepted>>
  BY DEF OpenLog, Opens, NewIno, NewWriter

LEMMA OpensFiles ==
    ASSUME Typing, Opens
    PROVE  /\ files' \in Seq(Seq(1 .. MaxLines)) /\ Len(files') \in Nat
           /\ Len(files) <= Len(files') /\ Len(files) \in Nat
           /\ NewIno \in 1 .. Len(files') /\ DOMAIN files' = 1 .. Len(files')
<1>0. TypeOK /\ <<>> \in Seq(Line)
  BY DEF Typing
<1>1. CASE path = 0
  <2>1. files' = Append(files, <<>>) /\ NewIno = Len(files) + 1
    BY <1>1 DEF Opens, NewIno
  <2>2. /\ files' \in Seq(Seq(1 .. MaxLines)) /\ Len(files') = Len(files) + 1
        /\ DOMAIN files' = 1 .. Len(files) + 1
    BY <1>0, <2>1, Wide
  <2>3. QED
    BY <1>0, <2>1, <2>2, FilesType
<1>2. CASE path # 0
  BY <1>0, <1>2, FilesType DEF Opens, NewIno, Line
<1>3. QED
  BY <1>1, <1>2

LEMMA OpensWriters ==
    ASSUME Typing, Opens
    PROVE  /\ writers' \in Seq(Wrecord(Len(files'))) /\ Len(writers) <= Len(writers')
           /\ Len(writers') \in Nat /\ Len(writers) \in Nat /\ rot.p \in Processes
           /\ NewWriter \in 1 .. Len(writers')
           /\ stream' \in [Processes -> 0 .. Len(writers')]
           /\ \A w \in 1 .. Len(writers') :
                 writers'[w].ino = IF w = NewWriter THEN NewIno ELSE writers[w].ino
           /\ \A w \in 1 .. Len(writers') : w # NewWriter => w \in 1 .. Len(writers)
<1>0. TypeOK
  BY DEF Typing
<1>1. rot.p \in Processes
  BY RotType DEF RotRecord
<1>2. /\ writers \in Seq(Wrecord(Len(files'))) /\ Len(writers) \in Nat
      /\ \A w \in 1 .. Len(writers) : writers[w] \in Wrecord(Len(files'))
  BY <1>0, WritersType, OpensFiles, Wider, ElementOfSeq
<1>3. stream \in [Processes -> 0 .. Len(writers)] /\ stream[rot.p] \in 0 .. Len(writers)
  BY <1>0, <1>1, WritersType
<1>4. CASE stream[rot.p] = 0
  <2> DEFINE r == [ino |-> NewIno, bytesWritten |-> 0]
  <2>1. r \in Wrecord(Len(files')) /\ r.ino = NewIno
    BY OpensFiles DEF Wrecord
  <2>2. writers' = Append(writers, r) /\ NewWriter = Len(writers) + 1
    BY <1>4 DEF Opens, NewWriter
  <2> HIDE DEF r
  <2>3. /\ writers' \in Seq(Wrecord(Len(files'))) /\ Len(writers') = Len(writers) + 1
        /\ \A i \in 1 .. Len(writers) : writers'[i] = writers[i]
        /\ writers'[Len(writers) + 1] = r
    BY <1>2, <2>1, <2>2, Appended
  <2>4. stream' \in [Processes -> 0 .. Len(writers')]
    BY <1>1, <1>2, <1>3, <2>2, <2>3 DEF Opens
  <2>5. QED
    BY <1>1, <1>2, <2>1, <2>2, <2>3, <2>4
<1>5. CASE stream[rot.p] # 0
  <2> DEFINE r == [writers[NewWriter] EXCEPT !.ino = NewIno]
  <2>0. NewWriter \in 1 .. Len(writers)
    BY <1>2, <1>3, <1>5 DEF NewWriter
  <2>0a. writers[NewWriter] \in Wrecord(Len(files')) /\ NewIno \in 0 .. Len(files')
    BY <1>2, <2>0, OpensFiles
  <2>1. r \in Wrecord(Len(files')) /\ r.ino = NewIno
    BY <2>0a DEF Wrecord
  <2>2. writers' = [writers EXCEPT ![NewWriter] = r]
    BY <1>5 DEF Opens
  <2> HIDE DEF r
  <2>3. /\ writers' \in Seq(Wrecord(Len(files'))) /\ Len(writers') = Len(writers)
        /\ \A i \in 1 .. Len(writers) : writers'[i] = IF i = NewWriter THEN r ELSE writers[i]
    BY <1>2, <2>0, <2>1, <2>2, Replaced
  <2>4. stream' \in [Processes -> 0 .. Len(writers')]
    BY <1>1, <1>2, <1>3, <2>0, <2>3 DEF Opens
  <2>5. QED
    BY <1>1, <1>2, <2>0, <2>1, <2>3, <2>4
<1>6. QED
  BY <1>4, <1>5

LEMMA TypingOpen ==
    ASSUME Typing, OpenLog
    PROVE  Typing'
<1>0. TypeOK
  BY DEF Typing
<1>1. CASE Opens
  <2>1. rot' \in RotRecord /\ rot'.pc = "idle"
    BY <1>1, RotType DEF Opens
  <2>2. CopiersOK'
    <3>1. CASE rot.by = 0
      <4>1. copier' = copier /\ copier \in [Copiers -> CopierRecord]
        BY <1>1, <3>1, CopierType DEF Opens
      <4>2. CopierRecord \subseteq CopierRecord'
        BY <1>1, OpensWriters DEF CopierRecord
      <4>3. copier' \in [Copiers -> CopierRecord']
        BY <4>1, <4>2
      <4>4. QED
        BY <4>1, <4>3 DEF CopiersOK, Typing
    <3>2. CASE rot.by # 0
      <4>1. <<rot.p, rot.by>> \in Copiers /\ copier' = Handed(<<rot.p, rot.by>>, NewWriter)
        BY <1>1, <3>2, RotType DEF Opens
      <4>2. NewWriter \in Nat /\ NewWriter # 0 /\ NewWriter <= Len(writers')
        BY <1>1, OpensWriters
      <4>3. QED
        BY <1>1, <4>1, <4>2, OpensWriters, HandedOK
    <3>3. QED
      BY <3>1, <3>2
  <2>3. follower \in [pc : {"away", "stat", "tick", "reopen", "read"}, ino : 0 .. Len(files'),
                     off : Nat, last : 0 .. Len(files'), want : 0 .. Len(files'), seen : Nat]
        /\ backups \subseteq [ts : 1 .. rotations, ino : DOMAIN files', gz : BOOLEAN]
    <3>1. CASE path = 0
      <4>1. files' = Append(files, <<>>) /\ <<>> \in Seq(Line)
        BY <1>1, <3>1 DEF Opens
      <4>2. QED
        BY <1>0, <4>1, Wide
    <3>2. CASE path # 0
      BY <1>0, <1>1, <3>2 DEF Opens, TypeOK
    <3>3. QED
      BY <3>1, <3>2
  <2>4. path' \in 0 .. Len(files')
    BY <1>1, OpensFiles DEF Opens
  <2>5. TypeOK'
    BY <1>0, <1>1, <2>1, <2>2, <2>3, <2>4, OpensFiles, OpensWriters, OpenEffect
    DEF TypeOK, RotRecord, CopiersOK, CopierRecord, Wrecord
  <2>6. QED
    BY <2>1, <2>2, <2>5, OpenEffect DEF Typing, CopiersOK
<1>2. CASE GiveUp /\ UNCHANGED <<files, path, writers, stream>>
  <2>1. CopiersOK' /\ rot' \in RotRecord /\ rot'.pc = "idle"
    BY <1>2, GaveUp
  <2>2. TypeOK'
    BY <1>0, <1>2, <2>1, OpenEffect DEF TypeOK, RotRecord, CopiersOK, CopierRecord
  <2>3. QED
    BY <1>2, <2>1, <2>2, OpenEffect DEF Typing, CopiersOK
<1>3. QED
  BY <1>1, <1>2, OpenEffect

LEMMA TypingClose ==
    ASSUME Typing, Close
    PROVE  Typing'
<1>1. writers' \in Seq(Wrecord(Len(files))) /\ Len(writers') = Len(writers) /\ Len(writers) \in Nat
  BY ClosedType, WidthType DEF Close, Typing
<1>2. stream' \in [Processes -> 0 .. Len(writers')]
  BY <1>1 DEF Close
<1>3. rot'.pc = "idle"
  BY RotType DEF Close
<1>4. TypeOK'
  BY <1>1, <1>2 DEF Close, Typing, TypeOK, Wrecord
<1>5. QED
  BY <1>1, <1>3, <1>4 DEF Close, Typing

(* the files a crash finds, and a copy that is cut short *)
LEMMA CrashEffect ==
    ASSUME Typing, Crash
    PROVE  /\ UNCHANGED <<backups, files>> \/ (rot.pc = "compress" /\ Leave(<<>>))
           /\ <<>> \in Seq(Line)
           /\ UNCHANGED <<path, rotations, accepted>>
           /\ rot' = Idle /\ rot'.pc = "idle" /\ follower' = Away /\ writers' = AllClosed
           /\ files' = files \/ files' = Append(files, <<>>)
<1>1. <<>> \in Seq(Line)
  OBVIOUS
<1>2. QED
  BY <1>1 DEF Crash, Idle, Leave

LEMMA TypingCrash ==
    ASSUME Typing, Crash
    PROVE  Typing'
<1>0. /\ TypeOK /\ Len(files) \in Nat /\ Len(files') \in Nat /\ Len(files) <= Len(files')
      /\ files' \in Seq(Seq(1 .. MaxLines)) /\ path \in 0 .. Len(files')
      /\ backups' \subseteq [ts : 1 .. rotations, ino : DOMAIN files', gz : BOOLEAN]
  <2>1. TypeOK /\ Len(files) \in Nat
    BY WidthType DEF Typing
  <2>2. CASE UNCHANGED <<backups, files>>
    <3>1. files' = files /\ backups' = backups
      BY <2>2
    <3>2. /\ files' \in Seq(Seq(1 .. MaxLines)) /\ path \in 0 .. Len(files')
          /\ backups' \subseteq [ts : 1 .. rotations, ino : DOMAIN files', gz : BOOLEAN]
      BY <2>1, <3>1 DEF TypeOK
    <3>3. QED
      BY <2>1, <3>1, <3>2
  <2>3. CASE rot.pc = "compress" /\ Leave(<<>>)
    <3>1. <<>> \in Seq(Line)
      BY CrashEffect
    <3>2. files' = Append(files, <<>>)
      BY <2>3 DEF Leave
    <3>3. /\ files' \in Seq(Seq(1 .. MaxLines)) /\ Len(files') = Len(files) + 1
      BY <2>1, <3>1, <3>2, Wide
    <3>4. /\ path \in 0 .. Len(files')
          /\ backups' \subseteq [ts : 1 .. rotations, ino : DOMAIN files', gz : BOOLEAN]
      BY <2>3, <3>1, TypingLeave
    <3>5. QED
      BY <2>1, <3>3, <3>4
  <2>4. QED
    BY <2>1, <2>2, <2>3, CrashEffect
<1>1. writers' \in Seq(Wrecord(Len(files'))) /\ Len(writers') = Len(writers) /\ Len(writers) \in Nat
  BY <1>0, ClosedType, WidthType, Wider, CrashEffect
<1>2. stream' \in [Processes -> 0 .. Len(writers')] /\ pending' \in [Processes -> Nat]
  BY <1>1 DEF Crash
<1>3. rot' \in RotRecord /\ rot'.pc = "idle"
  BY RotType DEF Crash
<1>4. CopiersOK'
  <2>1. Done \in CopierRecord /\ Done.pc = "done"
    BY <1>1 DEF Done, CopierRecord
  <2>2. copier' \in [Copiers -> CopierRecord]
    BY <2>1, CopierType DEF Crash
  <2>3. ASSUME NEW c \in Copiers PROVE copier'[c].pc \notin {"copy", "add", "sub"}
    BY <2>1 DEF Crash
  <2>4. CopierRecord' = CopierRecord
    BY <1>1 DEF CopierRecord
  <2>5. QED
    BY <2>2, <2>3, <2>4 DEF CopiersOK
<1>5. follower' \in [pc : {"away", "stat", "tick", "reopen", "read"}, ino : 0 .. Len(files'),
                     off : Nat, last : 0 .. Len(files'), want : 0 .. Len(files'), seen : Nat]
      /\ follower'.pc = "away"
  BY <1>0, CrashEffect DEF Away
<1>6. TypeOK'
  BY <1>0, <1>1, <1>2, <1>3, <1>4, <1>5, CrashEffect
  DEF TypeOK, Wrecord, RotRecord, CopiersOK, CopierRecord
<1>7. QED
  BY <1>3, <1>4, <1>5, <1>6 DEF Typing, CopiersOK

FollowerRecord == [pc : {"away", "stat", "tick", "reopen", "read"}, ino : 0 .. Len(files),
                   off : Nat, last : 0 .. Len(files), want : 0 .. Len(files), seen : Nat]

Follow == FollowOpen \/ FollowStat \/ FollowTick \/ FollowReopen \/ FollowRead \/ FollowLeave

(* What a step of the client does to the file it has open, how far it is, and what it has
   been shown. *)
LEMMA FollowEffect ==
    ASSUME Typing, Follow
    PROVE  /\ FollowerOnly
           /\ follower' \in FollowerRecord
           /\ \/ follower' = Away
              \/ /\ follower.pc # "away" /\ follower'.ino = follower.ino
                 /\ follower'.off = follower.off /\ follower'.seen = follower.seen
              \/ /\ follower.pc # "away" /\ follower'.ino = follower.ino
                 /\ follower'.off \in follower.off + 1 .. Len(files[follower.ino])
                 /\ follower'.seen = files[follower.ino][follower'.off]
              \/ /\ path # 0 /\ follower'.ino = path /\ follower'.off = Len(files[path])
                 /\ \/ follower'.seen = 0
                    \/ follower.pc # "away" /\ follower'.seen = follower.seen
<1>0. /\ TypeOK /\ FollowerOnly /\ follower \in FollowerRecord /\ Len(files) \in Nat
      /\ path \in 0 .. Len(files)
  BY FilesType DEF Typing, TypeOK, FollowerRecord, Follow, FollowOpen, FollowStat, FollowTick,
        FollowReopen, FollowRead, FollowLeave
<1>1. Away \in FollowerRecord
  BY <1>0 DEF Away, FollowerRecord
<1>2. path # 0 => Len(files[path]) \in Nat
  BY <1>0, FilesType
<1>3. ASSUME Sent, follower.pc \in {"tick", "read"}
      PROVE  /\ follower' \in FollowerRecord /\ follower'.ino = follower.ino
             /\ \/ follower'.off = follower.off /\ follower'.seen = follower.seen
                \/ /\ follower'.off \in follower.off + 1 .. Len(files[follower.ino])
                   /\ follower'.seen = files[follower.ino][follower'.off]
  <2> DEFINE text == files[follower.ino]
  <2>1. follower.ino \in 1 .. Len(files)
    BY <1>0, <1>3 DEF Typing, FollowerRecord
  <2>2. text \in Seq(Line) /\ Len(text) \in Nat /\ \A i \in 1 .. Len(text) : text[i] \in Line
    BY <1>0, <2>1, FilesType
  <2>3. CASE follower.off = Len(text)
    <3>1. follower' = [follower EXCEPT !.pc = "tick"]
      BY <1>3, <2>3 DEF Sent
    <3>2. QED
      BY <1>0, <3>1 DEF FollowerRecord
  <2>4. CASE follower.off # Len(text)
    <3>1. PICK end \in follower.off + 1 .. Len(text) :
              follower' = [follower EXCEPT !.pc = "tick", !.off = end, !.seen = text[end]]
      BY <1>3, <2>4 DEF Sent
    <3>2. follower.off \in Nat
      BY <1>0 DEF FollowerRecord
    <3>3. end \in Nat /\ text[end] \in Nat
      BY <2>2, <3>2 DEF Line
    <3> DEFINE m == text[end]
    <3>4. /\ m \in Nat /\ m = text[end]
          /\ follower' = [follower EXCEPT !.pc = "tick", !.off = end, !.seen = m]
      BY <3>1, <3>3
    <3> HIDE DEF m
    <3>5. follower' \in FollowerRecord
      BY <1>0, <3>3, <3>4 DEF FollowerRecord
    <3>6. follower'.ino = follower.ino /\ follower'.off = end /\ follower'.seen = m
      BY <1>0, <3>4 DEF FollowerRecord
    <3>7. QED
      BY <3>4, <3>5, <3>6
  <2>5. QED
    BY <2>3, <2>4
<1>4. CASE FollowOpen
  <2>1. /\ path # 0
        /\ follower' = [Away EXCEPT !.pc = "stat", !.ino = path, !.off = Len(files[path])]
    BY <1>4 DEF FollowOpen, OpenedAt
  <2>2. Away.seen = 0
    BY DEF Away
  <2>3. QED
    BY <1>0, <1>1, <1>2, <2>1, <2>2 DEF FollowerRecord
<1>5. CASE FollowStat
  BY <1>0, <1>5 DEF FollowStat, FollowerRecord
<1>6. CASE FollowTick
  <2>1. CASE path # 0 /\ path # follower.last
    BY <1>0, <1>6, <2>1 DEF FollowTick, FollowerRecord
  <2>2. CASE ~(path # 0 /\ path # follower.last)
    BY <1>0, <1>3, <1>6, <2>2 DEF FollowTick
  <2>3. QED
    BY <2>1, <2>2
<1>7. CASE FollowReopen
  <2>1. CASE path = 0
    BY <1>0, <1>1, <1>7, <2>1 DEF FollowReopen
  <2>2. CASE path # 0
    <3>1. follower' = [follower EXCEPT !.pc = "read", !.ino = path, !.off = Len(files[path]),
                                       !.last = follower.want, !.want = 0]
      BY <1>7, <2>2 DEF FollowReopen, OpenedAt
    <3>2. follower.pc # "away"
      BY <1>7 DEF FollowReopen
    <3>3. follower.want \in 0 .. Len(files) /\ 0 \in 0 .. Len(files)
      BY <1>0 DEF FollowerRecord
    <3>4. follower' \in FollowerRecord
      BY <1>0, <1>2, <2>2, <3>1, <3>3 DEF FollowerRecord
    <3>5. /\ follower'.ino = path /\ follower'.off = Len(files[path])
          /\ follower'.seen = follower.seen
      BY <1>0, <3>1 DEF FollowerRecord
    <3>6. QED
      BY <1>0, <2>2, <3>2, <3>4, <3>5
  <2>3. QED
    BY <2>1, <2>2
<1>8. CASE FollowRead
  BY <1>0, <1>3, <1>8 DEF FollowRead
<1>9. CASE FollowLeave
  BY <1>0, <1>1, <1>9 DEF FollowLeave
<1>10. QED
  BY <1>4, <1>5, <1>6, <1>7, <1>8, <1>9 DEF Follow

LEMMA TypingFollow ==
    ASSUME Typing, Follow
    PROVE  Typing'
<1>1. follower' \in FollowerRecord /\ FollowerOnly
  BY FollowEffect
<1>2. follower'.pc # "away" => follower'.ino # 0
  BY FollowEffect DEF Typing, Away
<1>3. TypeOK'
  BY <1>1 DEF Typing, TypeOK, FollowerOnly, FollowerRecord
<1>4. QED
  BY <1>1, <1>2, <1>3 DEF Typing, FollowerOnly

LEMMA TypingStep == Typing /\ [Next]_vars => Typing'
<1> SUFFICES ASSUME Typing, [Next]_vars PROVE Typing'
  OBVIOUS
<1>1. ASSUME NEW c \in Copiers, Write(c) \/ Count(c) \/ Exceed(c) \/ ChildExits(c) PROVE Typing'
  BY <1>1, TypingWrite, TypingCount, TypingExits
<1>2. ASSUME NEW p \in Processes, NEW i \in 1 .. Starts, GetWriter(p, i) PROVE Typing'
  BY <1>2, TypingGetWriter
<1>3. ASSUME NEW p \in Processes, RotateIfNeeded(p) PROVE Typing'
  BY <1>3, TypingRotateIfNeeded
<1>4. CASE \/ RotateClose \/ RotateRename \/ CompressCopy \/ CompressRemove
         \/ CleanupBackups \/ OpenLog
  BY <1>4, TypingRotateClose, TypingRename, TypingCopy, TypingRemove, TypingCleanup, TypingOpen
<1>5. CASE Close \/ Crash
  BY <1>5, TypingClose, TypingCrash
<1>6. CASE Follow
  BY <1>6, TypingFollow
<1>7. CASE UNCHANGED vars
  BY <1>7 DEF vars, Typing, TypeOK
<1>8. QED
  BY <1>1, <1>2, <1>3, <1>4, <1>5, <1>6, <1>7 DEF Next, Follow

-----------------------------------------------------------------------------
(* The lines of a file, and the client that follows *)

(* A file holds lines in the order in which they were accepted. *)
Ordered(s) == \A i, j \in 1 .. Len(s) : i < j => s[i] < s[j]
Upto(s, n) == \A i \in 1 .. Len(s) : s[i] <= n

FilesInOrder == \A f \in 1 .. Len(files) : Ordered(files[f]) /\ Upto(files[f], accepted)

(* The client is inside its file, and has seen what was accepted. *)
Following ==
    follower.pc # "away" =>
        /\ follower.off <= Len(files[follower.ino]) /\ follower.seen <= accepted
        /\ \A i \in 1 .. Len(files[follower.ino]) :
              i > follower.off => files[follower.ino][i] > follower.seen

OrderInv == Typing /\ FilesInOrder /\ Following

LEMMA WriteEffect ==
    ASSUME Typing, NEW c \in Copiers, Write(c)
    PROVE  /\ copier[c].w \in 1 .. Len(writers)
           /\ \/ files' = files /\ accepted' = accepted
              \/ LET f == writers[copier[c].w].ino IN
                 /\ f \in 1 .. Len(files) /\ accepted + 1 \in Line
                 /\ accepted' = accepted + 1
                 /\ files' = [files EXCEPT ![f] = Append(files[f], accepted + 1)]
<1>1. TypeOK /\ copier[c].pc = "copy" /\ accepted < MaxLines
  BY DEF Write, Typing
<1>2. copier[c].w \in 1 .. Len(writers)
  BY <1>1, CopierType
<1>3. writers[copier[c].w].ino \in 0 .. Len(files)
  BY <1>1, <1>2, WritersType DEF Wrecord
<1>4. accepted + 1 \in Line
  BY <1>1, AcceptedType DEF Line
<1>5. CASE writers[copier[c].w].ino = 0
  BY <1>2, <1>5 DEF Write
<1>6. CASE writers[copier[c].w].ino # 0
  <2>1. writers[copier[c].w].ino \in 1 .. Len(files)
    BY <1>1, <1>3, <1>6, FilesType
  <2>2. QED
    BY <1>2, <1>4, <1>6, <2>1 DEF Write
<1>7. QED
  BY <1>5, <1>6

(* a line is added to a file *)
LEMMA LineAdded ==
    ASSUME Typing, NEW f \in 1 .. Len(files), accepted + 1 \in Line,
           files' = [files EXCEPT ![f] = Append(files[f], accepted + 1)]
    PROVE  /\ Len(files') = Len(files) /\ Len(files[f]) \in Nat
           /\ Len(files'[f]) = Len(files[f]) + 1
           /\ \A i \in 1 .. Len(files[f]) : files'[f][i] = files[f][i]
           /\ files'[f][Len(files[f]) + 1] = accepted + 1
           /\ \A g \in 1 .. Len(files) : g # f => files'[g] = files[g]
<1>1. files \in Seq(Seq(Line)) /\ files[f] \in Seq(Line)
  BY FilesType DEF Typing
<1>2. Append(files[f], accepted + 1) \in Seq(Line)
  BY <1>1, Appended
<1>3. Len(files') = Len(files) /\ files'[f] = Append(files[f], accepted + 1)
      /\ \A g \in 1 .. Len(files) : g # f => files'[g] = files[g]
  BY <1>1, <1>2, Replaced
<1>4. QED
  BY <1>1, <1>3, Appended

(* a file is added *)
LEMMA FileAdded ==
    ASSUME Typing, NEW s \in Seq(Line), files' = Append(files, s)
    PROVE  /\ Len(files') = Len(files) + 1 /\ Len(files) \in Nat
           /\ files'[Len(files) + 1] = s
           /\ \A g \in 1 .. Len(files) : files'[g] = files[g]
<1>1. files \in Seq(Seq(Line))
  BY FilesType DEF Typing
<1>2. QED
  BY <1>1, Appended

LEMMA Lines ==
    ASSUME Typing, NEW f \in 1 .. Len(files)
    PROVE  /\ files[f] \in Seq(Line) /\ Len(files[f]) \in Nat
           /\ DOMAIN files[f] = 1 .. Len(files[f])
           /\ \A i \in 1 .. Len(files[f]) : files[f][i] \in Nat /\ files[f][i] >= 1
<1>1. files[f] \in Seq(Line)
  BY FilesType DEF Typing
<1>2. \A i \in 1 .. Len(files[f]) : files[f][i] \in Line
  BY <1>1
<1>3. QED
  BY <1>1, <1>2, AcceptedType DEF Line, Typing

LEMMA OrderWrite ==
    ASSUME OrderInv, NEW f \in 1 .. Len(files), accepted + 1 \in Line,
           files' = [files EXCEPT ![f] = Append(files[f], accepted + 1)],
           accepted' = accepted + 1, follower' = follower
    PROVE  FilesInOrder' /\ Following'
<1>0. Typing /\ accepted \in Nat
  BY AcceptedType DEF OrderInv, Typing
<1>1. ASSUME NEW g \in 1 .. Len(files') PROVE Ordered(files'[g]) /\ Upto(files'[g], accepted')
  <2>0. g \in 1 .. Len(files)
    BY <1>0, LineAdded
  <2>1. /\ \A i, j \in 1 .. Len(files[g]) : i < j => files[g][i] < files[g][j]
        /\ \A i \in 1 .. Len(files[g]) : files[g][i] <= accepted /\ files[g][i] \in Nat
    BY <1>0, <2>0, Lines DEF OrderInv, FilesInOrder, Ordered, Upto
  <2>2. CASE g # f
    <3>1. files'[g] = files[g]
      BY <1>0, <2>0, <2>2, LineAdded
    <3>2. QED
      BY <1>0, <2>1, <3>1 DEF Ordered, Upto
  <2>3. CASE g = f
    <3>1. /\ Len(files[g]) \in Nat /\ Len(files'[g]) = Len(files[g]) + 1
          /\ \A i \in 1 .. Len(files[g]) : files'[g][i] = files[g][i]
          /\ files'[g][Len(files[g]) + 1] = accepted + 1
      BY <1>0, <2>3, LineAdded
    <3>2. ASSUME NEW i \in 1 .. Len(files'[g]) PROVE files'[g][i] <= accepted + 1
      BY <1>0, <2>1, <3>1
    <3>3. ASSUME NEW i \in 1 .. Len(files'[g]), NEW j \in 1 .. Len(files'[g]), i < j
          PROVE  files'[g][i] < files'[g][j]
      BY <1>0, <2>1, <3>1, <3>3
    <3>4. QED
      BY <3>2, <3>3 DEF Ordered, Upto
  <2>4. QED
    BY <2>2, <2>3
<1>2. ASSUME follower.pc # "away"
      PROVE  /\ follower.off <= Len(files'[follower.ino]) /\ follower.seen <= accepted'
             /\ \A i \in 1 .. Len(files'[follower.ino]) :
                   i > follower.off => files'[follower.ino][i] > follower.seen
  <2> DEFINE g == follower.ino
  <2>1. g \in 1 .. Len(files) /\ follower.off \in Nat /\ follower.seen \in Nat
    <3>1. follower \in FollowerRecord /\ g # 0 /\ Len(files) \in Nat
      BY <1>0, <1>2, FilesType DEF Typing, TypeOK, FollowerRecord
    <3>2. QED
      BY <3>1 DEF FollowerRecord
  <2>2. /\ follower.off <= Len(files[g]) /\ follower.seen <= accepted
        /\ \A i \in 1 .. Len(files[g]) : i > follower.off => files[g][i] > follower.seen
    BY <1>2 DEF OrderInv, Following
  <2> HIDE DEF g
  <2>3. CASE g # f
    <3>1. files'[g] = files[g]
      BY <1>0, <2>1, <2>3, LineAdded
    <3>2. QED
      BY <1>0, <2>1, <2>2, <3>1 DEF g
  <2>4. CASE g = f
    <3>1. /\ Len(files[g]) \in Nat /\ Len(files'[g]) = Len(files[g]) + 1
          /\ \A i \in 1 .. Len(files[g]) : files'[g][i] = files[g][i]
          /\ files'[g][Len(files[g]) + 1] = accepted + 1
      BY <1>0, <2>4, LineAdded
    <3>2. ASSUME NEW i \in 1 .. Len(files'[g]), i > follower.off
          PROVE  files'[g][i] > follower.seen
      BY <1>0, <2>1, <2>2, <3>1, <3>2
    <3>3. QED
      BY <1>0, <2>1, <2>2, <3>1, <3>2 DEF g
  <2>5. QED
    BY <2>3, <2>4
<1>3. QED
  BY <1>1, <1>2 DEF FilesInOrder, Following

LEMMA OrderAdded ==
    ASSUME OrderInv, NEW s \in Seq(Line), files' = Append(files, s),
           Ordered(s), Upto(s, accepted), accepted' = accepted, follower' \in {follower, Away}
    PROVE  FilesInOrder' /\ Following'
<1>0. Typing
  BY DEF OrderInv
<1>1. /\ Len(files') = Len(files) + 1 /\ Len(files) \in Nat
      /\ files'[Len(files) + 1] = s
      /\ \A g \in 1 .. Len(files) : files'[g] = files[g]
  BY <1>0, FileAdded
<1>2. ASSUME NEW g \in 1 .. Len(files') PROVE Ordered(files'[g]) /\ Upto(files'[g], accepted')
  <2>1. CASE g \in 1 .. Len(files)
    BY <1>1, <2>1 DEF OrderInv, FilesInOrder
  <2>2. CASE g = Len(files) + 1
    BY <1>1, <2>2
  <2>3. QED
    BY <1>1, <2>1, <2>2
<1>3. follower.pc # "away" => follower.ino \in 1 .. Len(files)
  <2>1. follower \in FollowerRecord /\ (follower.pc # "away" => follower.ino # 0)
    BY <1>0, FilesType DEF Typing, TypeOK, FollowerRecord
  <2>2. QED
    BY <1>1, <2>1 DEF FollowerRecord
<1>4. follower.pc # "away" => files'[follower.ino] = files[follower.ino]
  BY <1>1, <1>3
<1>5. CASE follower' = follower
  BY <1>2, <1>4, <1>5 DEF FilesInOrder, Following, OrderInv
<1>6. CASE follower' = Away
  BY <1>2, <1>6 DEF FilesInOrder, Following, Away
<1>7. QED
  BY <1>5, <1>6

LEMMA OrderFollow ==
    ASSUME OrderInv, Follow
    PROVE  FilesInOrder' /\ Following'
<1>0. Typing /\ Typing' /\ accepted \in Nat
  BY AcceptedType, TypingFollow DEF OrderInv, Typing
<1>1. files' = files /\ accepted' = accepted
  BY <1>0, FollowEffect DEF FollowerOnly
<1>2. FilesInOrder'
  BY <1>1 DEF FilesInOrder, OrderInv
<1>3. follower \in FollowerRecord /\ Len(files) \in Nat /\ path \in 0 .. Len(files)
  BY <1>0, FilesType DEF Typing, TypeOK, FollowerRecord
<1>4. follower.pc # "away" =>
          /\ follower.ino \in 1 .. Len(files) /\ follower.off \in Nat /\ follower.seen \in Nat
          /\ follower.off <= Len(files[follower.ino]) /\ follower.seen <= accepted
          /\ \A i \in 1 .. Len(files[follower.ino]) :
                i > follower.off => files[follower.ino][i] > follower.seen
  <2>1. follower.pc # "away" =>
            /\ follower.ino \in 1 .. Len(files)
            /\ follower.off \in Nat /\ follower.seen \in Nat
    BY <1>0, <1>3 DEF FollowerRecord, Typing
  <2>2. QED
    BY <2>1 DEF OrderInv, Following
<1>5. CASE follower' = Away
  BY <1>2, <1>5 DEF Away, Following
<1>6. CASE /\ follower.pc # "away" /\ follower'.ino = follower.ino
           /\ follower'.off = follower.off /\ follower'.seen = follower.seen
  BY <1>1, <1>2, <1>4, <1>6 DEF Following
<1>7. CASE /\ follower.pc # "away" /\ follower'.ino = follower.ino
           /\ follower'.off \in follower.off + 1 .. Len(files[follower.ino])
           /\ follower'.seen = files[follower.ino][follower'.off]
  <2> DEFINE text == files[follower.ino]
             end == follower'.off
  <2>1. /\ Len(text) \in Nat /\ end \in 1 .. Len(text) /\ text[end] \in Nat
        /\ \A i \in 1 .. Len(text) : text[i] \in Nat
    BY <1>0, <1>4, <1>7, Lines
  <2>2. \A i, j \in 1 .. Len(text) : i < j => text[i] < text[j]
    BY <1>4, <1>7 DEF OrderInv, FilesInOrder, Ordered
  <2>3. \A i \in 1 .. Len(text) : text[i] <= accepted
    BY <1>4, <1>7 DEF OrderInv, FilesInOrder, Upto
  <2>4. ASSUME NEW i \in 1 .. Len(text), i > end PROVE text[i] > text[end]
    <3> HIDE DEF text, end
    <3>1. text[end] < text[i]
      BY <2>1, <2>2, <2>4
    <3>2. QED
      BY <2>1, <3>1
  <2>5. end <= Len(text) /\ text[end] <= accepted
    BY <2>1, <2>3
  <2>6. QED
    BY <1>1, <1>2, <1>7, <2>4, <2>5 DEF Following
<1>8. CASE /\ path # 0 /\ follower'.ino = path /\ follower'.off = Len(files[path])
           /\ \/ follower'.seen = 0
              \/ follower.pc # "away" /\ follower'.seen = follower.seen
  <2>1. Len(files[path]) \in Nat
    BY <1>0, <1>3, <1>8, Lines
  <2>2. follower'.seen <= accepted
    BY <1>0, <1>4, <1>8
  <2>3. QED
    BY <1>1, <1>2, <1>8, <2>1, <2>2 DEF Following
<1>9. QED
  BY <1>0, <1>2, <1>5, <1>6, <1>7, <1>8, FollowEffect

LEMMA OrderKept ==
    ASSUME OrderInv, files' = files, accepted' = accepted, follower' \in {follower, Away}
    PROVE  FilesInOrder' /\ Following'
  BY DEF OrderInv, FilesInOrder, Following, Away

LEMMA OrderStep == OrderInv /\ [Next]_vars => OrderInv'
<1> SUFFICES ASSUME OrderInv, [Next]_vars PROVE OrderInv'
  OBVIOUS
<1> DEFINE Goal == FilesInOrder' /\ Following'
<1>0. Typing /\ Typing'
  BY TypingStep DEF OrderInv
<1>e. <<>> \in Seq(Line) /\ Ordered(<<>>) /\ Upto(<<>>, accepted)
  BY DEF Ordered, Upto
<1>1. ASSUME NEW c \in Copiers, Write(c) PROVE Goal
  <2>1. follower' = follower
    BY <1>1 DEF Write
  <2>2. CASE files' = files /\ accepted' = accepted
    BY <2>1, <2>2, OrderKept
  <2>3. CASE ~(files' = files /\ accepted' = accepted)
    BY <1>0, <1>1, <2>1, <2>3, WriteEffect, OrderWrite
  <2>4. QED
    BY <2>2, <2>3
<1>2. ASSUME NEW c \in Copiers, Count(c) \/ Exceed(c) \/ ChildExits(c)
      PROVE  Goal
  BY <1>2, OrderKept DEF Count, Exceed, ChildExits
<1>3. ASSUME NEW p \in Processes, NEW i \in 1 .. Starts, GetWriter(p, i) PROVE Goal
  BY <1>3, OrderKept DEF GetWriter
<1>3a. ASSUME NEW p \in Processes, RotateIfNeeded(p) PROVE Goal
  BY <1>3a, OrderKept DEF RotateIfNeeded
<1>4. ASSUME RotateClose \/ RotateRename \/ CompressRemove \/ CleanupBackups \/ Close
      PROVE  Goal
  BY <1>4, OrderKept DEF RotateClose, RotateRename, CompressRemove, CleanupBackups, Close
<1>5. ASSUME CompressCopy PROVE Goal
  <2>1. follower' = follower /\ accepted' = accepted
    BY <1>5 DEF CompressCopy
  <2>2. /\ files[Latest.ino] \in Seq(Line)
        /\ Ordered(files[Latest.ino]) /\ Upto(files[Latest.ino], accepted)
    BY <1>0, <1>5, CopyEffect, LatestIs, BackupType DEF OrderInv, FilesInOrder
  <2>3. \/ files' = files \/ files' = Append(files, <<>>)
        \/ files' = Append(files, files[Latest.ino])
    BY <1>0, <1>5, CopyEffect DEF Leave
  <2>4. QED
    BY <1>e, <2>1, <2>2, <2>3, OrderKept, OrderAdded
<1>5a. ASSUME Crash PROVE Goal
  BY <1>0, <1>5a, <1>e, CrashEffect, OrderKept, OrderAdded
<1>6. ASSUME OpenLog PROVE Goal
  <2>1. follower' = follower /\ accepted' = accepted
    BY <1>6 DEF OpenLog
  <2>2. files' = files \/ files' = Append(files, <<>>)
    BY <1>6, OpenEffect DEF Opens
  <2>3. QED
    BY <1>e, <2>1, <2>2, OrderKept, OrderAdded
<1>7. ASSUME Follow PROVE Goal
  BY <1>7, OrderFollow
<1>8. ASSUME UNCHANGED vars PROVE Goal
  BY <1>8, OrderKept DEF vars
<1>9. FilesInOrder' /\ Following'
  BY <1>1, <1>2, <1>3, <1>3a, <1>4, <1>5, <1>5a, <1>6, <1>7, <1>8
  DEF Next, Follow
<1>10. QED
  BY <1>0, <1>9 DEF OrderInv

(* Types are kept, and each step of an operation finds what it works on, whatever fails.
   (logger.go) *)
THEOREM LoggerTypeCorrect == Spec => []TypeOK
<1>1. Typing => TypeOK
  BY DEF Typing
<1>2. QED
  BY <1>1, TypingInit, TypingStep, PTL DEF Spec

(* However many processes log to the path, and whatever is rotated, compressed, removed,
   closed or crashes while the client reads, it is shown each line at most once and in
   order.  (web.go, handleProcessLogsStream) *)
THEOREM ClientSeesLinesInOrder == Spec => []FollowsInOrder
<1>1. Init => OrderInv
  <2>1. Init => FilesInOrder /\ Following
    BY DEF Init, FilesInOrder, Following, Away
  <2>2. QED
    BY <2>1, TypingInit DEF OrderInv
<1>2. OrderInv => FollowsInOrder
  <2> SUFFICES ASSUME OrderInv, follower.pc # "away" PROVE FollowsInOrder
    BY DEF FollowsInOrder
  <2>1. follower.ino \in 1 .. Len(files)
    <3>1. follower \in FollowerRecord /\ follower.ino # 0 /\ Len(files) \in Nat
      BY FilesType DEF OrderInv, Typing, TypeOK, FollowerRecord
    <3>2. QED
      BY <3>1 DEF FollowerRecord
  <2>2. DOMAIN files[follower.ino] = 1 .. Len(files[follower.ino])
    BY <2>1, Lines DEF OrderInv
  <2>3. QED
    BY <2>2 DEF OrderInv, Following, FollowsInOrder
<1>3. QED
  BY <1>1, <1>2, OrderStep, PTL DEF Spec

-----------------------------------------------------------------------------
(* The log as a set of lines: F holds the files, P is the log file, B the backups, and A
   lines were accepted. *)

In(F, n, f) == \E i \in 1 .. Len(F[f]) : F[f][i] = n
Earlier(F, f, g) == \A m, n \in Nat : (In(F, m, f) /\ In(F, n, g)) => m < n
Has(F, P, B, n) == (P # 0 /\ In(F, n, P)) \/ \E x \in B : In(F, n, x.ino)

Dated(F, P, B) ==
    /\ IsFiniteSet(B)
    /\ \A x \in B : x.ts \in Nat /\ x.ino # P
    /\ \A x, y \in B : x.ts = y.ts /\ (x.gz <=> y.gz) => x = y
    /\ \A x, y \in B : x.ts = y.ts /\ x.gz /\ ~y.gz => F[x.ino] \in {<<>>, F[y.ino]}

InOrder(F, P, B) ==
    /\ \A x, y \in B : x.ts < y.ts => Earlier(F, x.ino, y.ino)
    /\ P # 0 => \A x \in B : Earlier(F, x.ino, P)

Newest(F, P, B, A) ==
    /\ \A n : Has(F, P, B, n) => n \in Nat /\ 1 <= n /\ n <= A
    /\ \A m, n \in Nat : (Has(F, P, B, m) /\ m <= n /\ n <= A) => Has(F, P, B, n)
    /\ A > 0 => Has(F, P, B, A)

Enough(F, P, B, A) ==
    (\A n \in 1 .. A : Has(F, P, B, n)) \/ Cardinality(B) >= BackupCount

LogOK(F, P, B, A) ==
    /\ Dated(F, P, B) /\ InOrder(F, P, B) /\ Newest(F, P, B, A) /\ Enough(F, P, B, A)

(* files that are not part of the log do not matter *)
LEMMA LogSame ==
    ASSUME NEW F, NEW G, NEW P, NEW B, NEW A, LogOK(F, P, B, A),
           P # 0 => G[P] = F[P], \A x \in B : G[x.ino] = F[x.ino]
    PROVE  LogOK(G, P, B, A)
<1>0. /\ P # 0 => \A n : In(G, n, P) <=> In(F, n, P)
      /\ \A x \in B : \A n : In(G, n, x.ino) <=> In(F, n, x.ino)
  BY DEF In
<1>1. \A n : Has(G, P, B, n) <=> Has(F, P, B, n)
  BY <1>0 DEF Has
<1>2. Dated(G, P, B)
  BY DEF LogOK, Dated
<1>3. InOrder(G, P, B)
  BY <1>0 DEF LogOK, InOrder, Earlier
<1>4. Newest(G, P, B, A) /\ Enough(G, P, B, A)
  BY <1>1 DEF LogOK, Newest, Enough
<1>5. QED
  BY <1>2, <1>3, <1>4 DEF LogOK

(* a line is written to the log file *)
LEMMA LogWrite ==
    ASSUME NEW F, NEW G, NEW P, NEW B, NEW A \in Nat, LogOK(F, P, B, A), P # 0,
           \A n : In(G, n, P) <=> (In(F, n, P) \/ n = A + 1),
           \A x \in B : G[x.ino] = F[x.ino]
    PROVE  LogOK(G, P, B, A + 1)
<1>0. \A x \in B : \A n : In(G, n, x.ino) <=> In(F, n, x.ino)
  BY DEF In
<1>1. \A n : Has(G, P, B, n) <=> (Has(F, P, B, n) \/ n = A + 1)
  BY <1>0 DEF Has
<1>2. Dated(G, P, B)
  BY DEF LogOK, Dated
<1>3. InOrder(G, P, B)
  <2>1. \A x, y \in B : x.ts < y.ts => Earlier(G, x.ino, y.ino)
    BY <1>0 DEF LogOK, InOrder, Earlier
  <2>2. ASSUME NEW x \in B, NEW m \in Nat, NEW n \in Nat, In(G, m, x.ino), In(G, n, P)
        PROVE  m < n
    <3>1. In(F, m, x.ino) /\ m <= A
      BY <1>0, <2>2 DEF LogOK, Newest, Has
    <3>2. CASE In(F, n, P)
      BY <3>1, <3>2 DEF LogOK, InOrder, Earlier
    <3>3. CASE n = A + 1
      BY <3>1, <3>3
    <3>4. QED
      BY <2>2, <3>2, <3>3
  <2>3. QED
    BY <2>1, <2>2 DEF InOrder, Earlier
<1>4. Newest(G, P, B, A + 1)
  <2>1. ASSUME NEW n, Has(G, P, B, n) PROVE n \in Nat /\ 1 <= n /\ n <= A + 1
    BY <1>1, <2>1 DEF LogOK, Newest
  <2>2. ASSUME NEW m \in Nat, NEW n \in Nat, Has(G, P, B, m), m <= n, n <= A + 1
        PROVE  Has(G, P, B, n)
    <3>1. CASE n = A + 1
      BY <1>1, <3>1
    <3>2. CASE n <= A
      <4>1. Has(F, P, B, m)
        BY <1>1, <2>2, <3>2
      <4>2. QED
        BY <1>1, <2>2, <3>2, <4>1 DEF LogOK, Newest
    <3>3. QED
      BY <2>2, <3>1, <3>2
  <2>3. Has(G, P, B, A + 1)
    BY <1>1
  <2>4. QED
    BY <2>1, <2>2, <2>3 DEF Newest
<1>5. Enough(G, P, B, A + 1)
  <2>1. CASE Cardinality(B) >= BackupCount
    BY <2>1 DEF Enough
  <2>2. CASE \A n \in 1 .. A : Has(F, P, B, n)
    <3>1. ASSUME NEW n \in 1 .. A + 1 PROVE Has(G, P, B, n)
      <4>1. n \in 1 .. A \/ n = A + 1
        OBVIOUS
      <4>2. QED
        BY <1>1, <2>2, <4>1
    <3>2. QED
      BY <3>1 DEF Enough
  <2>3. QED
    BY <2>1, <2>2 DEF LogOK, Enough
<1>6. QED
  BY <1>2, <1>3, <1>4, <1>5 DEF LogOK

(* the log file becomes the newest backup *)
LEMMA LogRename ==
    ASSUME NEW F, NEW P, NEW B, NEW A, LogOK(F, P, B, A), P # 0, 
           NEW b, b.ino = P, b.ts \in Nat, \A x \in B : x.ts < b.ts,
           \A x \in B : x.ino # 0
    PROVE  LogOK(F, 0, B \cup {b}, A)
<1> DEFINE C == B \cup {b}
<1>1. ASSUME NEW n PROVE Has(F, 0, C, n) <=> Has(F, P, B, n)
  BY DEF Has
<1>2. b \notin B
  BY DEF LogOK, Dated
<1>3. /\ IsFiniteSet(C) /\ Cardinality(C) = Cardinality(B) + 1 /\ Cardinality(B) \in Nat
  BY <1>2, FS_AddElement, FS_CardinalityType DEF LogOK, Dated
<1>4. Dated(F, 0, C)
  <2>1. ASSUME NEW x \in C PROVE x.ts \in Nat /\ x.ino # 0
    BY DEF LogOK, Dated
  <2>2. \A x, y \in C : x.ts = y.ts => (x \in B /\ y \in B) \/ x = y
    BY DEF LogOK, Dated
  <2> HIDE DEF C
  <2>3. QED
    BY <1>3, <2>1, <2>2 DEF Dated, LogOK
<1>5. InOrder(F, 0, C)
  <2>1. ASSUME NEW x \in C, NEW y \in C, x.ts < y.ts PROVE Earlier(F, x.ino, y.ino)
    <3>1. CASE x \in B /\ y \in B
      BY <2>1, <3>1 DEF LogOK, InOrder
    <3>2. CASE x \in B /\ y = b
      BY <3>2 DEF LogOK, InOrder
    <3>3. x # b
      BY <2>1 DEF LogOK, Dated
    <3>4. QED
      BY <3>1, <3>2, <3>3
  <2>2. QED
    BY <2>1 DEF InOrder
<1> HIDE DEF C
<1>6. Newest(F, 0, C, A)
  BY <1>1 DEF LogOK, Newest
<1>7. Enough(F, 0, C, A)
  <2>1. CASE Cardinality(B) >= BackupCount
    BY <1>3, <2>1, LoggerAssumption DEF Enough
  <2>2. CASE \A n \in 1 .. A : Has(F, P, B, n)
    BY <1>1, <2>2 DEF Enough
  <2>3. QED
    BY <2>1, <2>2 DEF LogOK, Enough
<1>8. QED
  BY <1>4, <1>5, <1>6, <1>7 DEF LogOK, C

(* a copy of a backup is made, or one that is cut short *)
LEMMA LogCopy ==
    ASSUME NEW F, NEW G, NEW P, NEW B, NEW A, LogOK(F, P, B, A),
           NEW b \in B, ~b.gz, NEW c, c \notin B, c.ts = b.ts, c.gz = TRUE, c.ino # P,
           \A x \in B : x.gz => x.ts # b.ts,
           G[c.ino] \in {<<>>, F[b.ino]},
           P # 0 => G[P] = F[P], \A x \in B : G[x.ino] = F[x.ino]
    PROVE  /\ LogOK(G, P, B \cup {c}, A)
           /\ \/ \A n \in 1 .. A : Has(G, P, B \cup {c}, n)
              \/ Cardinality(B \cup {c}) >= BackupCount + 1
<1> DEFINE C == B \cup {c}
<1>0. LogOK(G, P, B, A)
  BY LogSame
<1>1. \A n : In(G, n, c.ino) => In(G, n, b.ino)
  <2>1. G[c.ino] \in {<<>>, G[b.ino]}
    OBVIOUS
  <2>2. ASSUME NEW n, In(G, n, c.ino) PROVE In(G, n, b.ino)
    <3>1. G[c.ino] # <<>>
      BY <2>2 DEF In
    <3>2. G[c.ino] = G[b.ino]
      BY <2>1, <3>1
    <3>3. QED
      BY <2>2, <3>2 DEF In
  <2>3. QED
    BY <2>2
<1>2. \A n : Has(G, P, C, n) <=> Has(G, P, B, n)
  BY <1>1 DEF Has
<1>3. IsFiniteSet(C) /\ Cardinality(C) = Cardinality(B) + 1 /\ Cardinality(B) \in Nat
  BY FS_AddElement, FS_CardinalityType DEF LogOK, Dated
<1>4. Dated(G, P, C)
  <2>1. ASSUME NEW x \in C PROVE x.ts \in Nat /\ x.ino # P
    BY DEF LogOK, Dated
  <2>2. ASSUME NEW x \in C, NEW y \in C, x.ts = y.ts, x.gz <=> y.gz PROVE x = y
    BY <2>2 DEF LogOK, Dated
  <2>3. ASSUME NEW x \in C, NEW y \in C, x.ts = y.ts, x.gz, ~y.gz
        PROVE  G[x.ino] \in {<<>>, G[y.ino]}
    <3>1. CASE x \in B
      BY <1>0, <2>3, <3>1 DEF LogOK, Dated
    <3>2. CASE x = c
      <4>1. y \in B /\ y = b
        BY <2>3, <3>2 DEF LogOK, Dated
      <4>2. QED
        BY <3>2, <4>1
    <3>3. QED
      BY <3>1, <3>2
  <2>4. QED
    BY <1>3, <2>1, <2>2, <2>3 DEF Dated
<1>5. InOrder(G, P, C)
  <2>0. ASSUME NEW x \in C
        PROVE  \E y \in B : y.ts = x.ts /\ \A n : In(G, n, x.ino) => In(G, n, y.ino)
    BY <1>1
  <2> HIDE DEF C
  <2>1. ASSUME NEW x \in C, NEW y \in C, x.ts < y.ts PROVE Earlier(G, x.ino, y.ino)
    <3>1. PICK u \in B : u.ts = x.ts /\ \A n : In(G, n, x.ino) => In(G, n, u.ino)
      BY <2>0
    <3>2. PICK v \in B : v.ts = y.ts /\ \A n : In(G, n, y.ino) => In(G, n, v.ino)
      BY <2>0
    <3>3. Earlier(G, u.ino, v.ino)
      BY <1>0, <2>1, <3>1, <3>2 DEF LogOK, InOrder
    <3>4. QED
      BY <3>1, <3>2, <3>3 DEF Earlier
  <2>2. ASSUME NEW x \in C, P # 0 PROVE Earlier(G, x.ino, P)
    <3>1. PICK u \in B : u.ts = x.ts /\ \A n : In(G, n, x.ino) => In(G, n, u.ino)
      BY <2>0
    <3>2. Earlier(G, u.ino, P)
      BY <1>0, <2>2, <3>1 DEF LogOK, InOrder
    <3>3. QED
      BY <3>1, <3>2 DEF Earlier
  <2>3. QED
    BY <2>1, <2>2 DEF InOrder
<1> HIDE DEF C
<1>6. Newest(G, P, C, A)
  BY <1>0, <1>2 DEF LogOK, Newest
<1>7. (\A n \in 1 .. A : Has(G, P, C, n)) \/ Cardinality(C) >= BackupCount + 1
  <2>1. CASE Cardinality(B) >= BackupCount
    BY <1>3, <2>1, LoggerAssumption
  <2>2. CASE \A n \in 1 .. A : Has(G, P, B, n)
    BY <1>2, <2>2
  <2>3. QED
    BY <1>0, <2>1, <2>2 DEF LogOK, Enough
<1>8. Enough(G, P, C, A)
  BY <1>3, <1>7, LoggerAssumption DEF Enough
<1>9. QED
  BY <1>4, <1>5, <1>6, <1>7, <1>8 DEF LogOK, C

(* the backup is removed whose copy is whole *)
LEMMA LogRemove ==
    ASSUME NEW F, NEW P, NEW B, NEW A, LogOK(F, P, B, A),
           NEW b \in B, NEW c \in B \ {b}, F[c.ino] = F[b.ino],
           \/ \A n \in 1 .. A : Has(F, P, B, n)
           \/ Cardinality(B) >= BackupCount + 1
    PROVE  LogOK(F, P, B \ {b}, A)
<1> DEFINE C == B \ {b}
<1>1. \A n : Has(F, P, C, n) <=> Has(F, P, B, n)
  <2>1. \A n : In(F, n, b.ino) => In(F, n, c.ino)
    BY DEF In
  <2>2. QED
    BY <2>1 DEF Has
<1>2. IsFiniteSet(C) /\ Cardinality(C) = Cardinality(B) - 1 /\ Cardinality(B) \in Nat
  BY FS_RemoveElement, FS_CardinalityType DEF LogOK, Dated
<1>3. Dated(F, P, C) /\ InOrder(F, P, C)
  BY <1>2 DEF LogOK, Dated, InOrder
<1> HIDE DEF C
<1>4. Newest(F, P, C, A)
  BY <1>1 DEF LogOK, Newest
<1>5. Enough(F, P, C, A)
  BY <1>1, <1>2, LoggerAssumption DEF Enough
<1>6. QED
  BY <1>3, <1>4, <1>5 DEF LogOK, C

(* the newest backups, those of date r, can be read *)
Fresh(F, B, r) ==
    /\ \E b \in B : b.ts = r
    /\ \A b \in B : b.ts \in Nat /\ b.ts <= r /\ (b.ts = r => \E n \in Nat : In(F, n, b.ino))

(* the oldest backups are removed *)
LEMMA LogClean ==
    ASSUME NEW F, NEW P, NEW B, NEW A \in Nat, LogOK(F, P, B, A),
           NEW r \in Nat, Fresh(F, B, r), NEW gone \in SUBSET B,
           Cardinality(gone) = IF Cardinality(B) > BackupCount
                               THEN Cardinality(B) - BackupCount ELSE 0,
           \A x \in gone, y \in B \ gone : x.ts <= y.ts
    PROVE  LogOK(F, P, B \ gone, A)
<1> DEFINE C == B \ gone
<1>0. /\ IsFiniteSet(B) /\ Cardinality(B) \in Nat /\ IsFiniteSet(gone)
      /\ IsFiniteSet(C) /\ Cardinality(C) = Cardinality(B) - Cardinality(gone)
  <2>1. IsFiniteSet(B) /\ Cardinality(B) \in Nat
    BY FS_CardinalityType DEF LogOK, Dated
  <2>2. IsFiniteSet(gone) /\ IsFiniteSet(C)
    BY <2>1, FS_Subset
  <2>3. B \cap gone = gone
    OBVIOUS
  <2>4. Cardinality(C) = Cardinality(B) - Cardinality(gone)
    BY <2>1, <2>2, <2>3, FS_Difference
  <2>5. QED
    BY <2>1, <2>2, <2>4
<1>1. CASE gone = {}
  <2>1. C = B
    BY <1>1
  <2>2. QED
    BY <2>1
<1>2. CASE gone # {}
  <2>1. Cardinality(gone) # 0
    BY <1>0, <1>2, FS_EmptySet
  <2>2. Cardinality(B) > BackupCount /\ Cardinality(C) = BackupCount /\ BackupCount \in Nat \ {0}
    BY <1>0, <2>1, LoggerAssumption
  <2>3. PICK y \in C : y.ts = r
    <3>1. PICK y \in C : TRUE
      BY <1>0, <2>2, FS_EmptySet
    <3>2. PICK b \in B : b.ts = r
      BY DEF Fresh
    <3>3. CASE b \in C
      BY <3>2, <3>3
    <3>4. CASE b \in gone
      <4>1. r <= y.ts /\ y.ts <= r /\ y.ts \in Nat
        BY <3>1, <3>2, <3>4 DEF Fresh
      <4>2. QED
        BY <4>1
    <3>5. QED
      BY <3>3, <3>4
  <2>4. ASSUME NEW x \in gone, NEW z \in C, NEW m, In(F, m, x.ino), NEW n, In(F, n, z.ino),
               ~Has(F, P, C, m)
        PROVE  x.ts < z.ts
    <3>1. x.ts <= z.ts /\ x.ts \in Nat /\ z.ts \in Nat
      BY DEF LogOK, Dated
    <3>2. ASSUME x.ts = z.ts PROVE FALSE
      <4>1. x # z
        OBVIOUS
      <4>2. CASE x.gz /\ ~z.gz
        <5>1. F[x.ino] \in {<<>>, F[z.ino]}
          BY <3>2, <4>2 DEF LogOK, Dated
        <5>2. F[x.ino] # <<>>
          BY <2>4 DEF In
        <5>3. F[x.ino] = F[z.ino]
          BY <5>1, <5>2
        <5>4. In(F, m, z.ino)
          BY <2>4, <5>3 DEF In
        <5>5. QED
          BY <2>4, <5>4 DEF Has
      <4>3. CASE z.gz /\ ~x.gz
        <5>1. F[z.ino] \in {<<>>, F[x.ino]}
          BY <3>2, <4>3 DEF LogOK, Dated
        <5>2. F[z.ino] # <<>>
          BY <2>4 DEF In
        <5>3. F[z.ino] = F[x.ino]
          BY <5>1, <5>2
        <5>4. In(F, m, z.ino)
          BY <2>4, <5>3 DEF In
        <5>5. QED
          BY <2>4, <5>4 DEF Has
      <4>4. ~(x.gz <=> z.gz)
        BY <3>2, <4>1 DEF LogOK, Dated
      <4>5. QED
        BY <4>2, <4>3, <4>4
    <3>3. QED
      BY <3>1, <3>2
  <2>5. ASSUME NEW x \in gone, NEW m \in Nat, In(F, m, x.ino), ~Has(F, P, C, m),
               NEW n \in Nat, Has(F, P, C, n)
        PROVE  m < n
    <3>1. CASE P # 0 /\ In(F, n, P)
      BY <2>5, <3>1 DEF LogOK, InOrder, Earlier
    <3>2. CASE \E z \in C : In(F, n, z.ino)
      <4>1. PICK z \in C : In(F, n, z.ino)
        BY <3>2
      <4>2. Earlier(F, x.ino, z.ino)
        BY <2>4, <2>5, <4>1 DEF LogOK, InOrder
      <4>3. QED
        BY <2>5, <4>1, <4>2 DEF Earlier
    <3>3. QED
      BY <2>5, <3>1, <3>2 DEF Has
  <2>6. ASSUME NEW m, Has(F, P, C, m) PROVE Has(F, P, B, m)
    BY <2>6 DEF Has
  <2>7. ASSUME NEW m, Has(F, P, B, m), ~Has(F, P, C, m)
        PROVE  m \in Nat /\ \A n \in Nat : Has(F, P, C, n) => m < n
    <3>1. m \in Nat
      BY <2>7 DEF LogOK, Newest
    <3>2. PICK x \in gone : In(F, m, x.ino)
      BY <2>7 DEF Has
    <3>3. QED
      BY <2>5, <2>7, <3>1, <3>2
  <2>8. PICK k \in Nat : Has(F, P, C, k)
    BY <2>3 DEF Fresh, Has
  <2> HIDE DEF C
  <2>9. Newest(F, P, C, A)
    <3>1. ASSUME NEW n, Has(F, P, C, n) PROVE n \in Nat /\ 1 <= n /\ n <= A
      BY <2>6, <3>1 DEF LogOK, Newest
    <3>2. ASSUME NEW m \in Nat, NEW n \in Nat, Has(F, P, C, m), m <= n, n <= A
          PROVE  Has(F, P, C, n)
      <4>1. Has(F, P, B, n)
        BY <2>6, <3>2 DEF LogOK, Newest
      <4>2. QED
        BY <2>7, <3>2, <4>1
    <3>3. ASSUME A > 0 PROVE Has(F, P, C, A)
      <4>1. Has(F, P, B, A) /\ k <= A
        BY <2>6, <2>8, <3>3 DEF LogOK, Newest
      <4>2. QED
        BY <2>7, <2>8, <4>1
    <3>4. QED
      BY <3>1, <3>2, <3>3 DEF Newest
  <2>10. Dated(F, P, C) /\ InOrder(F, P, C)
    BY <1>0 DEF LogOK, Dated, InOrder, C
  <2>11. Enough(F, P, C, A)
    BY <2>2 DEF Enough
  <2>12. QED
    BY <2>9, <2>10, <2>11 DEF LogOK, C
<1>3. QED
  BY <1>1, <1>2

(* an empty file is created at the path *)
LEMMA LogOpen ==
    ASSUME NEW F, NEW G, NEW Q, NEW B, NEW A, LogOK(F, 0, B, A), Q # 0,
           \A x \in B : x.ino # Q, \A n : ~In(G, n, Q),
           \A x \in B : G[x.ino] = F[x.ino]
    PROVE  LogOK(G, Q, B, A)
<1>0. \A x \in B : \A n : In(G, n, x.ino) <=> In(F, n, x.ino)
  BY DEF In
<1>1. \A n : Has(G, Q, B, n) <=> Has(F, 0, B, n)
  BY <1>0 DEF Has
<1>2. Dated(G, Q, B)
  BY DEF LogOK, Dated
<1>3. InOrder(G, Q, B)
  BY <1>0 DEF LogOK, InOrder, Earlier
<1>4. Newest(G, Q, B, A) /\ Enough(G, Q, B, A)
  BY <1>1 DEF LogOK, Newest, Enough
<1>5. QED
  BY <1>2, <1>3, <1>4 DEF LogOK

-----------------------------------------------------------------------------
(* One process writes to the path *)

Lone == \A p, q \in Processes : p = q

(* A file that is open for writing is the log file, and no rotation has closed it.  (With two
   processes one would go on writing to a file that the other has rotated away.) *)
WritersAtPath ==
    \A w \in 1 .. Len(writers) : writers[w].ino # 0 =>
        /\ writers[w].ino = path /\ rot.pc \in {"idle", "close"}
        /\ \E p \in Processes : stream[p] = w

(* only a file with lines is rotated *)
WorthRotating == rot.pc \in {"close", "rename"} => Len(files[path]) >= 1

PathInv == WritersAtPath /\ WorthRotating

LEMMA AllShut ==
    ASSUME Typing, PathInv, rot.pc \notin {"idle", "close"}
    PROVE  \A w \in 1 .. Len(writers) : writers[w].ino = 0
  BY DEF PathInv, WritersAtPath

(* nothing of it is touched *)
LEMMA PathKept ==
    ASSUME Typing, PathInv, path' = path, stream' = stream,
           rot' = rot, Len(writers') = Len(writers),
           \A w \in 1 .. Len(writers) : writers'[w].ino = writers[w].ino,
           path # 0 => Len(files'[path]) >= Len(files[path]) /\ Len(files'[path]) \in Nat
    PROVE  PathInv'
<1>1. WritersAtPath'
  BY DEF PathInv, WritersAtPath
<1>2. WorthRotating'
  <2>1. rot.pc \in {"close", "rename"} => path # 0 /\ Len(files[path]) >= 1
    BY DEF Typing, PathInv, WorthRotating
  <2>2. path # 0 => Len(files[path]) \in Nat
    BY FilesType, Lines DEF Typing
  <2>3. rot.pc \in {"close", "rename"} => Len(files'[path]) >= 1
    BY <2>1, <2>2
  <2>4. QED
    BY <2>3 DEF WorthRotating
<1>3. QED
  BY <1>1, <1>2 DEF PathInv

(* every file is closed and none is about to be rotated *)
LEMMA PathShut ==
    ASSUME \A w \in 1 .. Len(writers') : writers'[w].ino = 0,
           rot'.pc \notin {"close", "rename"}
    PROVE  PathInv'
  BY DEF PathInv, WritersAtPath, WorthRotating

LEMMA CountedInos ==
    ASSUME Typing, NEW c \in Copiers, Count(c) \/ Exceed(c)
    PROVE  /\ Len(writers') = Len(writers)
           /\ \A w \in 1 .. Len(writers) : writers'[w].ino = writers[w].ino
<1> DEFINE k == copier[c].w
<1>1. k \in 1 .. Len(writers) /\ TypeOK
  BY CopierType DEF Typing, Count, Exceed
<1>2. PICK n : writers' = [writers EXCEPT ![k] = [writers[k] EXCEPT !.bytesWritten = n]]
  BY DEF Count, Exceed
<1>3. Len(writers') = Len(writers)
  BY <1>1, <1>2, WritersType
<1>4. ASSUME NEW w \in 1 .. Len(writers) PROVE writers'[w].ino = writers[w].ino
  BY <1>1, <1>2, WritersType DEF Wrecord
<1>5. QED
  BY <1>3, <1>4

LEMMA PathWrite ==
    ASSUME Typing, PathInv, NEW c \in Copiers, Write(c)
    PROVE  PathInv'
<1>0. UNCHANGED <<path, stream, rot, writers>>
  BY DEF Write
<1>1. path # 0 => path \in 1 .. Len(files) /\ Len(files[path]) \in Nat
  BY FilesType, Lines DEF Typing
<1>2. path # 0 => Len(files'[path]) >= Len(files[path]) /\ Len(files'[path]) \in Nat
  <2>1. CASE files' = files
    BY <1>1, <2>1
  <2>2. CASE files' # files
    <3>1. PICK f \in 1 .. Len(files) :
              /\ accepted + 1 \in Line
              /\ files' = [files EXCEPT ![f] = Append(files[f], accepted + 1)]
      BY <2>2, WriteEffect
    <3>2. /\ Len(files'[f]) = Len(files[f]) + 1
          /\ \A g \in 1 .. Len(files) : g # f => files'[g] = files[g]
      BY <3>1, LineAdded
    <3>3. QED
      BY <1>1, <3>2
  <2>3. QED
    BY <2>1, <2>2
<1>3. QED
  BY <1>0, <1>2, PathKept

LEMMA PathGetWriter ==
    ASSUME Lone, Typing, PathInv, NEW p \in Processes, NEW i \in 1 .. Starts, GetWriter(p, i)
    PROVE  PathInv'
<1>0. UNCHANGED <<path, stream, files, writers>> /\ rot = Idle
  BY DEF GetWriter
<1>1. path # 0 => Len(files[path]) \in Nat
  BY FilesType, Lines DEF Typing
<1>2. CASE rot' = rot
  BY <1>0, <1>1, <1>2, PathKept
<1>3. CASE rot' # rot
  <2>1. rot'.pc = IF stream[p] # 0 THEN "close" ELSE IF Oversize THEN "rename" ELSE "open"
    BY <1>3 DEF GetWriter
  <2>2. rot'.pc \in {"close", "rename"} => Oversize
    BY <1>3, <2>1 DEF GetWriter
  <2>3. WorthRotating'
    BY <1>0, <1>1, <2>2, LoggerAssumption DEF WorthRotating, Oversize
  <2>4. WritersAtPath'
    <3>1. CASE stream[p] # 0
      BY <1>0, <2>1, <3>1 DEF PathInv, WritersAtPath
    <3>2. CASE stream[p] = 0
      <4>1. ASSUME NEW w \in 1 .. Len(writers) PROVE writers[w].ino = 0
        <5>1. \A q \in Processes : stream[q] # w
          BY <3>2, WritersType DEF Lone
        <5>2. QED
          BY <5>1 DEF PathInv, WritersAtPath
      <4>2. QED
        BY <1>0, <4>1 DEF WritersAtPath
    <3>3. QED
      BY <3>1, <3>2
  <2>5. QED
    BY <2>3, <2>4 DEF PathInv
<1>4. QED
  BY <1>2, <1>3

LEMMA PathRotateIfNeeded ==
    ASSUME Typing, PathInv, NEW p \in Processes, RotateIfNeeded(p)
    PROVE  PathInv'
<1>0. UNCHANGED <<path, stream, files, writers>>
  BY DEF RotateIfNeeded
<1>1. path # 0 => Len(files[path]) \in Nat
  BY FilesType, Lines DEF Typing
<1>2. CASE rot' = rot
  BY <1>0, <1>1, <1>2, PathKept
<1>3. CASE rot' # rot
  <2>1. rot'.pc = "close" /\ Oversize
    BY <1>3 DEF RotateIfNeeded
  <2>2. WorthRotating'
    BY <1>0, <1>1, <2>1, LoggerAssumption DEF WorthRotating, Oversize
  <2>3. WritersAtPath'
    BY <1>0, <2>1 DEF PathInv, WritersAtPath
  <2>4. QED
    BY <2>2, <2>3 DEF PathInv
<1>4. QED
  BY <1>2, <1>3

LEMMA PathRotateClose ==
    ASSUME Lone, Typing, PathInv, RotateClose
    PROVE  PathInv'
<1> DEFINE k == stream[rot.p]
<1>0. /\ TypeOK /\ rot \in RotRecord /\ rot.pc = "close"
      /\ UNCHANGED <<path, stream, files>>
  BY RotType DEF RotateClose, Typing
<1>1. k \in 1 .. Len(writers) /\ rot.p \in Processes
  <2>1. rot.p \in Processes /\ k # 0
    BY <1>0 DEF RotRecord, Typing
  <2>2. QED
    BY <1>0, <2>1, WritersType
<1>2. writers' = [writers EXCEPT ![k] = [writers[k] EXCEPT !.ino = 0]]
  BY DEF RotateClose
<1>3. Len(writers') = Len(writers)
  BY <1>0, <1>1, <1>2, WritersType
<1>4. ASSUME NEW w \in 1 .. Len(writers) PROVE writers'[w].ino = 0
  <2>1. CASE w = k
    BY <1>0, <1>1, <1>2, <2>1, WritersType DEF Wrecord
  <2>2. CASE w # k
    <3>1. \A q \in Processes : stream[q] # w
      BY <1>1, <2>2 DEF Lone
    <3>2. writers'[w] = writers[w]
      BY <1>0, <1>2, <2>2, WritersType
    <3>3. QED
      BY <3>1, <3>2 DEF PathInv, WritersAtPath
  <2>3. QED
    BY <2>1, <2>2
<1>5. WorthRotating'
  BY <1>0 DEF PathInv, WorthRotating
<1>6. QED
  BY <1>3, <1>4, <1>5 DEF PathInv, WritersAtPath

LEMMA PathOpen ==
    ASSUME Typing, PathInv, OpenLog
    PROVE  PathInv'
<1>0. rot.pc = "open"
  BY OpenEffect
<1>1. \A w \in 1 .. Len(writers) : writers[w].ino = 0
  BY <1>0, AllShut
<1>2. CASE Opens
  <2>1. path' = NewIno /\ rot'.pc = "idle" /\ stream' = [stream EXCEPT ![rot.p] = NewWriter]
    BY <1>2, RotType DEF Opens
  <2>2. rot.p \in Processes /\ stream'[rot.p] = NewWriter
    BY <1>2, <2>1, OpensWriters, WritersType DEF Typing
  <2>3. ASSUME NEW w \in 1 .. Len(writers'), writers'[w].ino # 0
        PROVE  writers'[w].ino = path' /\ stream'[rot.p] = w
    <3>1. w = NewWriter
      BY <1>1, <1>2, <2>3, OpensWriters
    <3>2. QED
      BY <1>2, <2>1, <2>2, <3>1, OpensWriters
  <2>4. QED
    BY <2>1, <2>2, <2>3 DEF PathInv, WritersAtPath, WorthRotating
<1>3. CASE GiveUp /\ UNCHANGED <<files, path, writers, stream>>
  <2>1. rot'.pc = "idle"
    BY <1>3, GaveUp
  <2>2. QED
    BY <1>1, <1>3, <2>1, PathShut
<1>4. QED
  BY <1>2, <1>3, OpenEffect

LEMMA PathStep ==
    ASSUME Lone, Typing, PathInv, [Next]_vars
    PROVE  PathInv'
<1>0. path # 0 => Len(files[path]) \in Nat
  BY FilesType, Lines DEF Typing
<1>1. ASSUME NEW c \in Copiers, Write(c) PROVE PathInv'
  BY <1>1, PathWrite
<1>2. ASSUME NEW c \in Copiers, Count(c) \/ Exceed(c) PROVE PathInv'
  <2>1. UNCHANGED <<files, path, stream, rot>>
    BY <1>2 DEF Count, Exceed
  <2>2. QED
    BY <1>0, <1>2, <2>1, CountedInos, PathKept
<1>3. ASSUME UNCHANGED <<files, path, stream, rot, writers>> PROVE PathInv'
  BY <1>0, <1>3, PathKept
<1>4. ASSUME NEW c \in Copiers, ChildExits(c) PROVE PathInv'
  BY <1>3, <1>4 DEF ChildExits
<1>5. ASSUME NEW p \in Processes, NEW i \in 1 .. Starts, GetWriter(p, i) PROVE PathInv'
  BY <1>5, PathGetWriter
<1>6. ASSUME NEW p \in Processes, RotateIfNeeded(p) PROVE PathInv'
  BY <1>6, PathRotateIfNeeded
<1>7. CASE RotateClose
  BY <1>7, PathRotateClose
<1>8. CASE RotateRename \/ CompressCopy \/ CompressRemove \/ CleanupBackups
  <2>1. writers' = writers /\ rot.pc \notin {"idle", "close"}
    BY <1>8 DEF RotateRename, CompressCopy, CompressRemove, CleanupBackups
  <2>2. rot'.pc \in {"idle", "compress", "remove", "clean", "open"}
    <3>1. rot \in RotRecord
      BY RotType
    <3>2. QED
      BY <1>8, <3>1, RotType
      DEF RotateRename, CompressCopy, CompressRemove, CleanupBackups, GiveUp, RotRecord
  <2>3. QED
    BY <2>1, <2>2, AllShut, PathShut
<1>9. CASE OpenLog
  BY <1>9, PathOpen
<1>10. CASE Close \/ Crash
  <2>1. writers' = AllClosed /\ rot'.pc = "idle"
    BY <1>10, RotType DEF Close, Crash
  <2>2. QED
    BY <2>1, ClosedType, PathShut DEF Typing
<1>11. CASE Follow
  BY <1>3, <1>11, FollowEffect DEF FollowerOnly
<1>12. CASE UNCHANGED vars
  BY <1>3, <1>12 DEF vars
<1>13. QED
  BY <1>1, <1>2, <1>4, <1>5, <1>6, <1>7, <1>8, <1>9, <1>10, <1>11, <1>12 DEF Next, Follow

-----------------------------------------------------------------------------
(* The log holds the newest lines *)

(* what compressLog and cleanupBackups have before them *)
Working == {"compress", "remove", "clean"}

WorkInv ==
    /\ rot.pc \in Working => Fresh(files, backups, rotations)
    /\ rot.pc = "compress" => \A x \in backups : x.gz => x.ts # rotations
    /\ rot.pc = "remove" =>
          /\ \A b \in backups : b.ts = rotations /\ ~b.gz =>
                \E c \in backups : /\ c.ts = rotations /\ c.gz
                                   /\ files[c.ino] = files[b.ino]
          /\ \/ \A n \in 1 .. accepted : Has(files, path, backups, n)
             \/ Cardinality(backups) >= BackupCount + 1

LogInv == OrderInv /\ PathInv /\ LogOK(files, path, backups, accepted) /\ WorkInv

LEMMA WorkIdle == ASSUME rot'.pc \notin Working PROVE WorkInv'
  BY DEF WorkInv, Working

LEMMA WorkFrame ==
    ASSUME WorkInv, rot' = rot, UNCHANGED <<files, path, backups, rotations, accepted>>
    PROVE  WorkInv'
  BY DEF WorkInv, Fresh, Has, In

LEMMA HoldsWrite ==
    ASSUME LogInv, NEW c \in Copiers, Write(c)
    PROVE  LogOK(files', path', backups', accepted')
<1>0. /\ Typing /\ PathInv /\ LogOK(files, path, backups, accepted) /\ accepted \in Nat
      /\ path' = path /\ backups' = backups
  BY AcceptedType DEF LogInv, OrderInv, Typing, Write
<1>1. CASE files' = files /\ accepted' = accepted
  BY <1>0, <1>1
<1>2. CASE ~(files' = files /\ accepted' = accepted)
  <2> DEFINE w == copier[c].w
             f == writers[w].ino
  <2>1. /\ w \in 1 .. Len(writers) /\ f \in 1 .. Len(files) /\ accepted + 1 \in Line
        /\ accepted' = accepted + 1
        /\ files' = [files EXCEPT ![f] = Append(files[f], accepted + 1)]
    BY <1>0, <1>2, WriteEffect
  <2>2. f # 0 /\ f = path
    BY <1>0, <2>1 DEF PathInv, WritersAtPath
  <2>3. /\ Len(files[path]) \in Nat /\ Len(files'[path]) = Len(files[path]) + 1
        /\ \A i \in 1 .. Len(files[path]) : files'[path][i] = files[path][i]
        /\ files'[path][Len(files[path]) + 1] = accepted + 1
        /\ \A g \in 1 .. Len(files) : g # path => files'[g] = files[g]
    BY <1>0, <2>1, <2>2, LineAdded
  <2>4. ASSUME NEW n PROVE In(files', n, path) <=> (In(files, n, path) \/ n = accepted + 1)
    <3>1. 1 .. Len(files[path]) + 1 = 1 .. Len(files[path]) \cup {Len(files[path]) + 1}
      BY <2>3
    <3>2. QED
      BY <2>3, <3>1 DEF In
  <2>5. ASSUME NEW x \in backups PROVE files'[x.ino] = files[x.ino]
    <3>1. x.ino # path /\ x.ino \in 1 .. Len(files)
      BY <1>0, BackupType DEF LogOK, Dated
    <3>2. QED
      BY <2>3, <3>1
  <2>6. LogOK(files', path, backups, accepted + 1)
    BY <1>0, <2>2, <2>4, <2>5, LogWrite
  <2>7. QED
    BY <1>0, <2>1, <2>6
<1>3. QED
  BY <1>1, <1>2

LEMMA HoldsRename ==
    ASSUME LogInv, RotateRename
    PROVE  LogOK(files', path', backups', accepted')
<1>0. /\ Typing /\ PathInv /\ LogOK(files, path, backups, accepted)
      /\ files' = files /\ accepted' = accepted /\ rot.pc = "rename"
  BY DEF LogInv, OrderInv, RotateRename
<1>1. CASE path' = path /\ backups' = backups
  BY <1>0, <1>1
<1>2. CASE ~(path' = path /\ backups' = backups)
  <2> DEFINE b == [ts |-> rotations + 1, ino |-> path, gz |-> FALSE]
  <2>0. rotations \in Nat
    BY <1>0, BackupType
  <2>1. path' = 0 /\ backups' = backups \cup {b}
    BY <1>2 DEF RotateRename
  <2>2. path # 0 /\ path \in 1 .. Len(files)
    BY <1>0, FilesType DEF Typing
  <2>4. b.ino = path /\ b.ts = rotations + 1 /\ b.ts \in Nat
    BY <2>0
  <2> HIDE DEF b
  <2>5. \A x \in backups : x.ts < b.ts /\ x.ino # 0
    BY <1>0, <2>0, <2>4, BackupType, FilesType DEF Typing
  <2>6. LogOK(files, 0, backups \cup {b}, accepted)
    BY <1>0, <2>2, <2>4, <2>5, LogRename
  <2>7. QED
    BY <1>0, <2>1, <2>6
<1>3. QED
  BY <1>1, <1>2

LEMMA WorkRename ==
    ASSUME LogInv, RotateRename
    PROVE  WorkInv'
<1>0. Typing /\ PathInv /\ rot.pc = "rename" /\ files' = files /\ rot \in RotRecord
  BY RotType DEF LogInv, OrderInv, RotateRename
<1>1. CASE rot' = Idle
  BY <1>1, WorkIdle DEF Idle, Working
<1>2. CASE rot' # Idle
  <2> DEFINE b == [ts |-> rotations + 1, ino |-> path, gz |-> FALSE]
  <2>0. rotations \in Nat /\ \A x \in backups : x.ts \in Nat /\ x.ts <= rotations
    BY <1>0, BackupType
  <2>1. /\ backups' = backups \cup {b} /\ rotations' = rotations + 1
        /\ rot' = [rot EXCEPT !.pc = "compress"]
    BY <1>2 DEF RotateRename, GiveUp
  <2>2. rot'.pc = "compress"
    BY <1>0, <2>1 DEF RotRecord
  <2>3. path # 0 /\ path \in 1 .. Len(files)
    BY <1>0, FilesType DEF Typing
  <2>4. \E n \in Nat : In(files, n, path)
    <3>1. Len(files[path]) >= 1 /\ Len(files[path]) \in Nat
      BY <1>0, <2>3, Lines DEF PathInv, WorthRotating
    <3>2. 1 \in 1 .. Len(files[path]) /\ files[path][1] \in Nat
      BY <1>0, <2>3, <3>1, Lines
    <3>3. QED
      BY <3>2 DEF In
  <2>5. b.ts = rotations + 1 /\ b.ino = path /\ b.gz = FALSE
    OBVIOUS
  <2> HIDE DEF b
  <2>6. ASSUME NEW x \in backups'
        PROVE  /\ x.ts \in Nat /\ x.ts <= rotations + 1
               /\ x.ts = rotations + 1 => x = b
    BY <2>0, <2>1, <2>5
  <2>7. Fresh(files, backups', rotations + 1)
    BY <2>1, <2>4, <2>5, <2>6 DEF Fresh
  <2>8. \A x \in backups' : x.gz => x.ts # rotations + 1
    BY <2>5, <2>6
  <2>9. QED
    BY <1>0, <2>1, <2>2, <2>7, <2>8 DEF WorkInv
<1>3. QED
  BY <1>1, <1>2

LEMMA InAdded ==
    ASSUME Typing, NEW s \in Seq(Line), files' = Append(files, s)
    PROVE  /\ \A n : In(files', n, Len(files) + 1) <=> \E i \in 1 .. Len(s) : s[i] = n
           /\ \A f \in 1 .. Len(files) : \A n : In(files', n, f) <=> In(files, n, f)
  BY FileAdded DEF In

(* a copy is left beside the file *)
LEMMA HoldsLeave ==
    ASSUME LogInv, rot.pc = "compress", NEW s \in Seq(Line), s \in {<<>>, files[Latest.ino]},
           Leave(s), path' = path, accepted' = accepted
    PROVE  /\ LogOK(files', path', backups', accepted')
           /\ \/ \A n \in 1 .. accepted' : Has(files', path', backups', n)
              \/ Cardinality(backups') >= BackupCount + 1
           /\ Copy \notin backups /\ backups' = backups \cup {Copy}
           /\ files'[Copy.ino] = s /\ \A x \in backups : files'[x.ino] = files[x.ino]
<1>0. /\ Typing /\ LogOK(files, path, backups, accepted) /\ WorkInv
      /\ Len(files) \in Nat /\ path \in 0 .. Len(files)
      /\ backups' = backups \cup {Copy} /\ files' = Append(files, s)
  BY FilesType DEF LogInv, OrderInv, Typing, Leave
<1>1. Latest \in backups /\ Latest.ts = rotations /\ ~Latest.gz
  BY <1>0, LatestIs
<1>2. \A x \in backups : x.ino \in 1 .. Len(files)
  BY <1>0, BackupType
<1>3. files'[Len(files) + 1] = s /\ \A g \in 1 .. Len(files) : files'[g] = files[g]
  BY <1>0, FileAdded
<1>4. Copy \notin backups /\ Copy.ino # path /\ Copy.ts = Latest.ts /\ Copy.gz = TRUE
  BY <1>0, <1>1, <1>2, CopyIs
<1>5. \A x \in backups : x.gz => x.ts # Latest.ts
  BY <1>0, <1>1 DEF WorkInv
<1> DEFINE G == files'
<1>6. /\ G[Copy.ino] \in {<<>>, files[Latest.ino]} /\ G[Copy.ino] = s
      /\ path # 0 => G[path] = files[path]
      /\ \A x \in backups : G[x.ino] = files[x.ino]
  BY <1>0, <1>2, <1>3, CopyIs
<1> HIDE DEF G
<1>7. /\ LogOK(G, path, backups \cup {Copy}, accepted)
      /\ \/ \A n \in 1 .. accepted : Has(G, path, backups \cup {Copy}, n)
         \/ Cardinality(backups \cup {Copy}) >= BackupCount + 1
  BY <1>0, <1>1, <1>4, <1>5, <1>6, LogCopy
<1>8. QED
  BY <1>0, <1>4, <1>6, <1>7 DEF G

LEMMA HoldsCopy ==
    ASSUME "torn" \notin Faults, LogInv, CompressCopy
    PROVE  LogOK(files', path', backups', accepted') /\ WorkInv'
<1>0. /\ Typing /\ LogOK(files, path, backups, accepted) /\ WorkInv
      /\ UNCHANGED <<path, accepted, rotations>> /\ rot.pc = "compress" /\ rot \in RotRecord
      /\ Fresh(files, backups, rotations)
  BY CopyEffect, RotType DEF LogInv, OrderInv, CompressCopy, WorkInv, Working
<1>1. CASE UNCHANGED <<backups, files>> /\ rot' = [rot EXCEPT !.pc = "clean"]
  <2>1. rot'.pc = "clean"
    BY <1>0, <1>1 DEF RotRecord
  <2>2. Fresh(files', backups', rotations')
    BY <1>0, <1>1
  <2>3. WorkInv'
    BY <2>1, <2>2 DEF WorkInv
  <2>4. QED
    BY <1>0, <1>1, <2>3
<1>2. CASE Leave(files[Latest.ino]) /\ rot' = [rot EXCEPT !.pc = "remove"]
  <2>1. rot'.pc = "remove"
    BY <1>0, <1>2 DEF RotRecord
  <2>2. /\ Latest \in backups /\ Latest.ts = rotations /\ ~Latest.gz
        /\ files[Latest.ino] \in Seq(Line)
    BY <1>0, LatestIs
  <2>3. /\ LogOK(files', path', backups', accepted')
        /\ \/ \A n \in 1 .. accepted' : Has(files', path', backups', n)
           \/ Cardinality(backups') >= BackupCount + 1
        /\ backups' = backups \cup {Copy}
        /\ files'[Copy.ino] = files[Latest.ino]
        /\ \A x \in backups : files'[x.ino] = files[x.ino]
    BY <1>0, <1>2, <2>2, HoldsLeave
  <2>4. ASSUME NEW b \in backups', b.ts = rotations, ~b.gz
        PROVE  \E c \in backups' : c.ts = rotations /\ c.gz /\ files'[c.ino] = files'[b.ino]
    <3>1. b \in backups
      BY <2>3, <2>4, CopyIs
    <3>2. b = Latest
      BY <1>0, <2>2, <2>4, <3>1 DEF LogOK, Dated
    <3>3. QED
      BY <2>2, <2>3, <3>2, CopyIs
  <2>5. Fresh(files', backups', rotations)
    <3>1. ASSUME NEW b \in backups
          PROVE  b.ts \in Nat /\ b.ts <= rotations
                 /\ (b.ts = rotations => \E n \in Nat : In(files', n, b.ino))
      BY <1>0, <2>3 DEF Fresh, In
    <3>2. \E n \in Nat : In(files', n, Copy.ino)
      BY <1>0, <2>2, <2>3 DEF Fresh, In
    <3>3. rotations \in Nat
      BY <1>0, BackupType
    <3>4. QED
      BY <2>2, <2>3, <3>1, <3>2, <3>3, CopyIs DEF Fresh
  <2>6. WorkInv'
    BY <1>0, <2>1, <2>3, <2>4, <2>5 DEF WorkInv
  <2>7. QED
    BY <2>3, <2>6
<1>3. QED
  BY <1>0, <1>1, <1>2, CopyEffect

LEMMA HoldsRemove ==
    ASSUME LogInv, CompressRemove
    PROVE  LogOK(files', path', backups', accepted') /\ WorkInv'
<1>0. /\ Typing /\ LogOK(files, path, backups, accepted) /\ WorkInv
      /\ UNCHANGED <<files, path, accepted, rotations>> /\ rot.pc = "remove" /\ rot'.pc = "clean"
      /\ Fresh(files, backups, rotations)
  <2>1. Typing /\ WorkInv /\ LogOK(files, path, backups, accepted) /\ rot \in RotRecord
    BY RotType DEF LogInv, OrderInv
  <2>2. rot.pc = "remove" /\ rot' = [rot EXCEPT !.pc = "clean"]
    BY <2>1, RemoveEffect
  <2>3. QED
    BY <2>1, <2>2, RemoveEffect DEF WorkInv, Working, RotRecord
<1>1. CASE backups' = backups
  <2>1. Fresh(files', backups', rotations')
    BY <1>0, <1>1
  <2>2. WorkInv'
    BY <1>0, <2>1 DEF WorkInv
  <2>3. QED
    BY <1>0, <1>1, <2>2
<1>2. CASE backups' = backups \ {Latest}
  <2>1. Latest \in backups /\ Latest.ts = rotations /\ ~Latest.gz
    BY <1>0, LatestIs
  <2>2. PICK c \in backups : c.ts = rotations /\ c.gz /\ files[c.ino] = files[Latest.ino]
    BY <1>0, <2>1 DEF WorkInv
  <2>3. c \in backups \ {Latest}
    BY <2>1, <2>2
  <2>4. \/ \A n \in 1 .. accepted : Has(files, path, backups, n)
        \/ Cardinality(backups) >= BackupCount + 1
    BY <1>0 DEF WorkInv
  <2>5. LogOK(files, path, backups \ {Latest}, accepted)
    BY <1>0, <2>1, <2>2, <2>3, <2>4, LogRemove
  <2>6. Fresh(files, backups \ {Latest}, rotations)
    BY <1>0, <2>2, <2>3 DEF Fresh
  <2>7. WorkInv'
    BY <1>0, <1>2, <2>6 DEF WorkInv
  <2>8. QED
    BY <1>0, <1>2, <2>5, <2>7
<1>3. QED
  BY <1>0, <1>1, <1>2, RemoveEffect

LEMMA HoldsCrash ==
    ASSUME LogInv, Crash
    PROVE  LogOK(files', path', backups', accepted') /\ WorkInv'
<1>0. /\ Typing /\ LogOK(files, path, backups, accepted) /\ UNCHANGED <<path, accepted>>
      /\ rot'.pc \notin Working /\ <<>> \in Seq(Line)
  BY CrashEffect DEF LogInv, OrderInv, Working
<1>1. CASE UNCHANGED <<backups, files>>
  BY <1>0, <1>1, WorkIdle
<1>2. CASE rot.pc = "compress" /\ Leave(<<>>)
  BY <1>0, <1>2, WorkIdle, HoldsLeave
<1>3. QED
  BY <1>0, <1>1, <1>2, CrashEffect

LEMMA HoldsCleanup ==
    ASSUME LogInv, CleanupBackups
    PROVE  LogOK(files', path', backups', accepted')
<1>0. /\ LogOK(files, path, backups, accepted) /\ accepted \in Nat /\ rotations \in Nat
      /\ UNCHANGED <<files, path, accepted>> /\ Fresh(files, backups, rotations)
  BY AcceptedType, BackupType
  DEF LogInv, OrderInv, Typing, CleanupBackups, WorkInv, Working
<1>1. CASE backups' = backups
  BY <1>0, <1>1
<1>2. CASE backups' # backups
  <2>1. PICK gone \in SUBSET backups :
           /\ Cardinality(gone) = IF Cardinality(backups) > BackupCount
                                  THEN Cardinality(backups) - BackupCount ELSE 0
           /\ \A x \in gone, y \in backups \ gone : x.ts <= y.ts
           /\ backups' = backups \ gone
    BY <1>2 DEF CleanupBackups
  <2>2. LogOK(files, path, backups \ gone, accepted)
    BY <1>0, <2>1, LogClean
  <2>3. QED
    BY <1>0, <2>1, <2>2
<1>3. QED
  BY <1>1, <1>2

LEMMA HoldsOpen ==
    ASSUME LogInv, OpenLog
    PROVE  LogOK(files', path', backups', accepted')
<1>0. /\ Typing /\ LogOK(files, path, backups, accepted) /\ Len(files) \in Nat
      /\ backups' = backups /\ accepted' = accepted
  BY FilesType, OpenEffect DEF LogInv, OrderInv, Typing
<1>1. CASE files' = files /\ path' = path
  BY <1>0, <1>1
<1>2. CASE ~(files' = files /\ path' = path)
  <2>1. path = 0 /\ path' = Len(files) + 1 /\ files' = Append(files, <<>>)
    BY <1>2, OpenEffect DEF Opens, NewIno
  <2>2. <<>> \in Seq(Line) /\ Len(<<>>) = 0
    OBVIOUS
  <2>2a. /\ \A n : In(files', n, Len(files) + 1) => \E i \in 1 .. Len(<<>>) : <<>>[i] = n
         /\ \A f \in 1 .. Len(files) : \A n : In(files', n, f) <=> In(files, n, f)
    BY <1>0, <2>1, <2>2, InAdded, Zenon
  <2>2b. 1 .. Len(<<>>) = {}
    BY <2>2
  <2>3. /\ \A n : ~In(files', n, Len(files) + 1)
        /\ \A f \in 1 .. Len(files) : \A n : In(files', n, f) <=> In(files, n, f)
    BY <2>2a, <2>2b
  <2>4. \A x \in backups : x.ino \in 1 .. Len(files)
    BY <1>0, BackupType
  <2> DEFINE Q == Len(files) + 1
             G == files'
  <2>5. /\ Q # 0 /\ \A x \in backups : x.ino # Q
        /\ \A n : ~In(G, n, Q)
        /\ \A x \in backups : G[x.ino] = files[x.ino]
    BY <1>0, <2>1, <2>2, <2>3, <2>4, FileAdded
  <2>6. LogOK(files, 0, backups, accepted)
    BY <1>0, <2>1
  <2> HIDE DEF Q, G
  <2>7. LogOK(G, Q, backups, accepted)
    BY <2>5, <2>6, LogOpen
  <2>8. QED
    BY <1>0, <2>1, <2>7 DEF Q, G
<1>3. QED
  BY <1>1, <1>2

LEMMA LogStep ==
    ASSUME Lone, "torn" \notin Faults, LogInv, [Next]_vars
    PROVE  LogInv'
<1> DEFINE Goal == LogOK(files', path', backups', accepted') /\ WorkInv'
<1>0. LogOK(files, path, backups, accepted) /\ WorkInv /\ Typing /\ PathInv
  BY DEF LogInv, OrderInv
<1>1. ASSUME UNCHANGED <<files, path, backups, accepted, rotations>>,
             rot' = rot \/ rot'.pc \notin Working
      PROVE  Goal
  BY <1>0, <1>1, WorkFrame, WorkIdle
<1>i. Idle.pc \notin Working
  BY DEF Idle, Working
<1>r. rot \in RotRecord
  BY <1>0, RotType
<1>2. ASSUME NEW c \in Copiers, Write(c) PROVE Goal
  <2>1. UNCHANGED <<path, backups, rotations, rot>>
    BY <1>2 DEF Write
  <2>2. CASE rot.pc \notin Working
    BY <1>2, <2>1, <2>2, HoldsWrite, WorkIdle
  <2>3. CASE rot.pc \in Working
    <3>1. copier[c].w \in 1 .. Len(writers)
      BY <1>0, <1>2, CopierType DEF Write
    <3>2. writers[copier[c].w].ino = 0
      BY <1>0, <2>3, <3>1, AllShut DEF Working
    <3>3. UNCHANGED <<files, accepted>>
      BY <1>2, <3>2 DEF Write
    <3>4. QED
      BY <1>1, <2>1, <3>3
  <2>4. QED
    BY <2>2, <2>3
<1>3. ASSUME NEW c \in Copiers, Count(c) \/ Exceed(c) \/ ChildExits(c) PROVE Goal
  BY <1>1, <1>3 DEF Count, Exceed, ChildExits
<1>4. ASSUME NEW p \in Processes, NEW i \in 1 .. Starts, GetWriter(p, i) PROVE Goal
  <2>1. rot' = rot \/ rot'.pc \in {"close", "rename", "open"}
    BY <1>4 DEF GetWriter
  <2>2. QED
    BY <1>1, <1>4, <2>1 DEF GetWriter, Working
<1>5. ASSUME NEW p \in Processes, RotateIfNeeded(p) PROVE Goal
  <2>1. rot' = rot \/ rot'.pc = "close"
    BY <1>5 DEF RotateIfNeeded
  <2>2. QED
    BY <1>1, <1>5, <2>1 DEF RotateIfNeeded, Working
<1>6. ASSUME RotateClose \/ Close PROVE Goal
  <2>1. rot' = rot \/ rot'.pc = "rename"
    BY <1>r, <1>6 DEF RotateClose, Close, RotRecord
  <2>2. QED
    BY <1>1, <1>6, <2>1 DEF RotateClose, Close, Working
<1>7. ASSUME RotateRename \/ CompressCopy \/ CompressRemove \/ Crash PROVE Goal
  BY <1>7, HoldsRename, WorkRename, HoldsCopy, HoldsRemove, HoldsCrash
<1>7a. ASSUME CleanupBackups PROVE Goal
  <2>1. rot'.pc = "open"
    BY <1>r, <1>7a DEF CleanupBackups, RotRecord
  <2>2. QED
    BY <1>7a, <2>1, HoldsCleanup, WorkIdle DEF Working
<1>7b. ASSUME OpenLog PROVE Goal
  <2>1. rot' = Idle
    BY <1>7b, OpenEffect, <1>0 DEF Opens, GiveUp
  <2>2. QED
    BY <1>i, <1>7b, <2>1, HoldsOpen, WorkIdle
<1>8. ASSUME Follow PROVE Goal
  <2>1. FollowerOnly
    BY <1>0, <1>8, FollowEffect
  <2>2. QED
    BY <1>1, <2>1 DEF FollowerOnly
<1>9. ASSUME UNCHANGED vars PROVE Goal
  BY <1>1, <1>9 DEF vars
<1>10. Goal
  BY <1>2, <1>3, <1>4, <1>5, <1>6, <1>7, <1>7a, <1>7b, <1>8, <1>9 DEF Next, Follow
<1>11. OrderInv' /\ PathInv'
  BY OrderStep, PathStep DEF LogInv, OrderInv
<1>12. QED
  BY <1>10, <1>11 DEF LogInv

LEMMA LogInit == Init => LogInv
<1> SUFFICES ASSUME Init PROVE LogInv
  OBVIOUS
<1>1. /\ files = <<>> /\ path = 0 /\ backups = {} /\ accepted = 0 /\ writers = <<>>
      /\ rot = Idle
  BY DEF Init
<1>2. OrderInv
  <2>1. Init => FilesInOrder /\ Following
    BY DEF Init, FilesInOrder, Following, Away
  <2>2. QED
    BY <2>1, TypingInit DEF OrderInv
<1>3. PathInv
  BY <1>1, <1>2, RotType DEF PathInv, WritersAtPath, WorthRotating, OrderInv
<1>4. \A n : ~Has(files, path, backups, n)
  BY <1>1 DEF Has
<1>5. LogOK(files, path, backups, accepted)
  BY <1>1, <1>4, FS_EmptySet DEF LogOK, Dated, InOrder, Newest, Enough
<1>6. WorkInv
  BY <1>1 DEF WorkInv, Working, Idle
<1>7. QED
  BY <1>2, <1>3, <1>5, <1>6 DEF LogInv

(* the lines that LogIsSuffix speaks of *)
LEMMA HeldIsHas ==
    ASSUME Typing
    PROVE  /\ \A f \in 1 .. Len(files) : \A n : n \in ToSet(files[f]) <=> In(files, n, f)
           /\ \A n : n \in Held <=> Has(files, path, backups, n)
           /\ \A f \in Kept : f \in 1 .. Len(files)
<1>1. \A f \in 1 .. Len(files) : \A n : n \in ToSet(files[f]) <=> In(files, n, f)
  BY Lines DEF ToSet, In
<1>2. path # 0 => path \in 1 .. Len(files)
  BY FilesType DEF Typing
<1>3. \A x \in backups : x.ino \in 1 .. Len(files)
  BY BackupType
<1>4. \A f : f \in Kept <=> (path # 0 /\ f = path) \/ \E x \in backups : f = x.ino
  BY DEF Kept
<1>5. ASSUME NEW n PROVE n \in Held <=> \E f \in Kept : n \in ToSet(files[f])
  BY DEF Held
<1>6. QED
  BY <1>1, <1>2, <1>3, <1>4, <1>5 DEF Has

LEMMA LogSuffices == LogInv => LogIsSuffix
<1> SUFFICES ASSUME LogInv PROVE LogIsSuffix
  OBVIOUS
<1>0. /\ Typing /\ FilesInOrder /\ LogOK(files, path, backups, accepted) /\ accepted \in Nat
  BY AcceptedType DEF LogInv, OrderInv, Typing
<1>1. ASSUME NEW f \in Kept, NEW i \in DOMAIN files[f], NEW j \in DOMAIN files[f], i < j
      PROVE  files[f][i] < files[f][j]
  <2>1. f \in 1 .. Len(files)
    BY <1>0, HeldIsHas
  <2>2. i \in 1 .. Len(files[f]) /\ j \in 1 .. Len(files[f])
    BY <1>0, <2>1, Lines
  <2>3. QED
    BY <1>0, <1>1, <2>1, <2>2 DEF FilesInOrder, Ordered
<1>2. ASSUME NEW f \in 1 .. Len(files), NEW g \in 1 .. Len(files), Earlier(files, f, g)
      PROVE  Before(f, g)
  <2>1. ASSUME NEW m \in ToSet(files[f]), NEW n \in ToSet(files[g]) PROVE m < n
    <3>1. In(files, m, f) /\ In(files, n, g)
      BY <1>0, HeldIsHas
    <3>2. m \in Nat /\ n \in Nat
      BY <1>0, <3>1, Lines DEF In
    <3>3. QED
      BY <1>2, <3>1, <3>2 DEF Earlier
  <2>2. QED
    BY <2>1 DEF Before
<1>3. ASSUME NEW x \in backups, NEW y \in backups, x.ts < y.ts
      PROVE  Before(x.ino, y.ino)
  BY <1>0, <1>2, <1>3, BackupType DEF LogOK, InOrder
<1>3a. ASSUME NEW x \in backups, NEW y \in backups, x.ts = y.ts, x.gz, x # y
       PROVE  ~y.gz /\ files[x.ino] \in {<<>>, files[y.ino]}
  BY <1>0, <1>3a DEF LogOK, Dated
<1>4. path # 0 => \A x \in backups : Before(x.ino, path)
  <2>1. path # 0 => path \in 1 .. Len(files)
    BY <1>0, FilesType DEF Typing
  <2>2. QED
    BY <1>0, <1>2, <2>1, BackupType DEF LogOK, InOrder
<1>5. ASSUME NEW n \in (Held \cup {accepted}) \ {0}
      PROVE  n .. accepted \subseteq Held
  <2>1. n \in Nat /\ Has(files, path, backups, n)
    <3>1. CASE n \in Held
      BY <1>0, <3>1, HeldIsHas DEF LogOK, Newest
    <3>2. CASE n = accepted
      BY <1>0, <1>5, <3>2 DEF LogOK, Newest
    <3>3. QED
      BY <1>5, <3>1, <3>2
  <2>2. ASSUME NEW m \in n .. accepted PROVE m \in Held
    <3>1. m \in Nat /\ n <= m /\ m <= accepted
      BY <1>0, <2>1
    <3>2. Has(files, path, backups, m)
      BY <1>0, <2>1, <3>1 DEF LogOK, Newest
    <3>3. QED
      BY <1>0, <3>2, HeldIsHas
  <2>3. QED
    BY <2>2
<1>6. 1 .. accepted \subseteq Held \/ Cardinality(backups) >= BackupCount
  BY <1>0, HeldIsHas DEF LogOK, Enough
<1>7. QED
  BY <1>1, <1>3, <1>3a, <1>4, <1>5, <1>6 DEF LogIsSuffix

(* Where one process logs to the path, the log file and its backups hold the newest lines
   at every moment, in order and without a gap, whatever fails and whenever the supervisor
   is killed: also while it compresses a file, between the copy and the removal of the
   source, or when the removal fails.  No line is there twice but in a file and its copy,
   and nothing is lost but what cleanupBackups removes.  One failure is excepted: of a
   compression that fails half-way, and does not crash, cleanupBackups may keep the torn
   copy instead of the source.  (logger.go, getOrCreateWriter to cleanupBackups) *)
THEOREM LogKeepsNewest ==
    ASSUME \A p, q \in Processes : p = q, "torn" \notin Faults
    PROVE  Spec => []LogIsSuffix
<1>1. Lone
  BY DEF Lone
<1>2. LogInv /\ [Next]_vars => LogInv'
  BY <1>1, LogStep
<1>3. QED
  BY <1>2, LogInit, LogSuffices, PTL DEF Spec

-----------------------------------------------------------------------------
(* The counter of bytes *)

Bytes(w) == writers[w].bytesWritten
(* copiers that have written a line and not counted it, and that will take the limit off *)
Adding(w) == {c \in Copiers : copier[c].pc = "add" /\ copier[c].w = w /\ copier[c].n = 1}
Subbing(w) == {c \in Copiers : copier[c].pc = "sub" /\ copier[c].w = w}
Adds(w) == Cardinality(Adding(w))
Subs(w) == Cardinality(Subbing(w))
Times(n) == n * MaxSize

LEMMA TimesFacts ==
    /\ MaxSize \in Nat /\ MaxSize >= 1 /\ Starts \in Nat /\ Starts - 1 \in Nat
    /\ \A n \in Nat : Times(n) \in Nat /\ Times(n + 1) = Times(n) + MaxSize
    /\ \A m, n \in Nat : m <= n => Times(m) <= Times(n)
    /\ Times(Starts) = Times(Starts - 1) + MaxSize
    /\ Times(0) = 0
<1>1. MaxSize \in Nat /\ MaxSize >= 1 /\ Starts \in Nat /\ Starts - 1 \in Nat
  BY LoggerAssumption
<1>2. ASSUME NEW n \in Nat PROVE Times(n) \in Nat /\ Times(n + 1) = Times(n) + MaxSize
  BY <1>1 DEF Times
<1>3. ASSUME NEW m \in Nat, NEW n \in Nat, m <= n PROVE Times(m) <= Times(n)
  <2>1. PICK d \in Nat : n = m + d
    <3>1. n - m \in Nat /\ n = m + (n - m)
      BY <1>3
    <3>2. QED
      BY <3>1
  <2>2. d * MaxSize \in Nat /\ m * MaxSize \in Nat /\ n * MaxSize = m * MaxSize + d * MaxSize
    BY <1>1, <2>1
  <2>3. QED
    BY <2>2 DEF Times
<1>4. Times(Starts) = Times(Starts - 1) + MaxSize
  <2>1. Starts = (Starts - 1) + 1
    BY <1>1
  <2>2. Times((Starts - 1) + 1) = Times(Starts - 1) + MaxSize
    BY <1>1, <1>2
  <2>3. QED
    BY <2>1, <2>2
<1>5. Times(0) = 0
  BY <1>1 DEF Times
<1>6. QED
  BY <1>1, <1>2, <1>3, <1>4, <1>5

LEMMA CopiersFinite ==
    ASSUME Lone
    PROVE  IsFiniteSet(Copiers) /\ Cardinality(Copiers) = Starts
<1>1. PICK p \in Processes : TRUE
  BY LoggerAssumption
<1>2. Processes = {p}
  BY <1>1 DEF Lone
<1>3. IsFiniteSet(Processes) /\ Cardinality(Processes) = 1
  BY <1>2, FS_Singleton
<1>4. Starts \in Nat /\ Starts >= 1
  BY LoggerAssumption
<1>5. IsFiniteSet(1 .. Starts) /\ Cardinality(1 .. Starts) = Starts
  BY <1>4, FS_Interval
<1>6. IsFiniteSet(Copiers) /\ Cardinality(Copiers) = 1 * Starts
  BY <1>3, <1>5, FS_Product DEF Copiers
<1>7. QED
  BY <1>4, <1>6

LEMMA SetsFinite ==
    ASSUME Lone, NEW w
    PROVE  /\ IsFiniteSet(Adding(w)) /\ Adds(w) \in Nat
           /\ IsFiniteSet(Subbing(w)) /\ Subs(w) \in Nat /\ Subs(w) <= Starts
<1>1. Adding(w) \subseteq Copiers /\ Subbing(w) \subseteq Copiers
  BY DEF Adding, Subbing
<1>2. QED
  BY <1>1, CopiersFinite, FS_Subset, FS_CardinalityType DEF Adds, Subs

(* the same at the end of a step *)
LEMMA SetsFiniteNext ==
    ASSUME Lone, NEW w
    PROVE  Adds(w)' \in Nat /\ Subs(w)' \in Nat /\ Subs(w)' <= Starts
<1>1. Adding(w)' \subseteq Copiers /\ Subbing(w)' \subseteq Copiers
  BY DEF Adding, Subbing
<1>2. QED
  BY <1>1, CopiersFinite, FS_Subset, FS_CardinalityType DEF Adds, Subs

(* one copier gets another record *)
LEMMA SetsMove ==
    ASSUME Typing, NEW c \in Copiers, NEW r, copier' = [copier EXCEPT ![c] = r], NEW w
    PROVE  /\ Adding(w)' = IF r.pc = "add" /\ r.w = w /\ r.n = 1
                           THEN Adding(w) \cup {c} ELSE Adding(w) \ {c}
           /\ Subbing(w)' = IF r.pc = "sub" /\ r.w = w
                            THEN Subbing(w) \cup {c} ELSE Subbing(w) \ {c}
<1>1. \A d \in Copiers : copier'[d] = IF d = c THEN r ELSE copier[d]
  BY CopierType
<1>2. Adding(w)' = {d \in Copiers : copier'[d].pc = "add" /\ copier'[d].w = w /\ copier'[d].n = 1}
  BY DEF Adding
<1>3. Subbing(w)' = {d \in Copiers : copier'[d].pc = "sub" /\ copier'[d].w = w}
  BY DEF Subbing
<1>4. Adding(w)' = IF r.pc = "add" /\ r.w = w /\ r.n = 1
                   THEN Adding(w) \cup {c} ELSE Adding(w) \ {c}
  BY <1>1, <1>2 DEF Adding
<1>5. Subbing(w)' = IF r.pc = "sub" /\ r.w = w THEN Subbing(w) \cup {c} ELSE Subbing(w) \ {c}
  BY <1>1, <1>3 DEF Subbing
<1>6. QED
  BY <1>4, <1>5

(* a copier that is neither, before and after *)
LEMMA SetsStay ==
    ASSUME Typing, NEW c \in Copiers, NEW r, copier' = [copier EXCEPT ![c] = r],
           copier[c].pc \notin {"add", "sub"},
           r.pc # "sub", r.pc = "add" => r.n # 1
    PROVE  \A w : Adds(w)' = Adds(w) /\ Subs(w)' = Subs(w)
<1>1. ASSUME NEW w PROVE c \notin Adding(w) /\ c \notin Subbing(w)
  BY DEF Adding, Subbing
<1>2. ASSUME NEW w PROVE Adding(w)' = Adding(w) /\ Subbing(w)' = Subbing(w)
  <2>1. ~(r.pc = "add" /\ r.w = w /\ r.n = 1) /\ ~(r.pc = "sub" /\ r.w = w)
    OBVIOUS
  <2>2. Adding(w)' = Adding(w) \ {c} /\ Subbing(w)' = Subbing(w) \ {c}
    BY <2>1, SetsMove
  <2>3. QED
    BY <1>1, <2>2
<1>3. QED
  BY <1>2 DEF Adds, Subs

LEMMA SetsSame ==
    ASSUME copier' = copier
    PROVE  \A w : Adds(w)' = Adds(w) /\ Subs(w)' = Subs(w)
  BY DEF Adds, Subs, Adding, Subbing

(* An operation of the logger opens a file below the limit, and the Start that waits for it
   has no copier yet. *)
ReadyInv ==
    /\ rot.pc = "open" /\ path # 0 => Len(files[path]) < MaxSize
    /\ rot.pc \in {"compress", "remove", "clean"} => path = 0
    /\ rot.by # 0 => copier[<<rot.p, rot.by>>].pc = "none"

LEMMA IdleBy == Idle.by = 0 /\ Idle.pc = "idle"
  BY DEF Idle

LEMMA ReadyStep ==
    ASSUME Typing, PathInv, ReadyInv, [Next]_vars
    PROVE  ReadyInv'
<1>0. rot \in RotRecord /\ path \in 0 .. Len(files) /\ Len(files) \in Nat
  BY RotType, FilesType DEF Typing
<1>1. ASSUME rot' = Idle PROVE ReadyInv'
  BY <1>1, IdleBy DEF ReadyInv
<1>2. ASSUME UNCHANGED <<files, path, rot>>,
             \A c \in Copiers : copier[c].pc = "none" => copier'[c].pc = "none"
      PROVE  ReadyInv'
  <2>1. rot.by # 0 => <<rot.p, rot.by>> \in Copiers
    BY RotType
  <2>2. QED
    BY <1>2, <2>1 DEF ReadyInv
<1>3. ASSUME NEW c \in Copiers, NEW r, copier' = [copier EXCEPT ![c] = r], copier[c].pc # "none",
             NEW d \in Copiers, copier[d].pc = "none"
      PROVE  copier'[d].pc = "none"
  BY <1>3, CopierType
<1>4. ASSUME NEW c \in Copiers, Write(c) PROVE ReadyInv'
  <2>1. path' = path /\ rot' = rot /\ copier[c].pc = "copy"
    BY <1>4 DEF Write
  <2>2. \A d \in Copiers : copier[d].pc = "none" => copier'[d].pc = "none"
    <3>1. PICK n : copier' = [copier EXCEPT ![c] = [copier[c] EXCEPT !.pc = "add", !.n = n]]
      BY <1>4, CopierType DEF Write, CopierRecord
    <3>2. QED
      BY <1>3, <2>1, <3>1
  <2>3. CASE files' = files
    BY <1>2, <2>1, <2>2, <2>3
  <2>4. CASE files' # files
    <3>1. rot.pc \in {"idle", "close"}
      <4>1. copier[c].w \in 1 .. Len(writers) /\ writers[copier[c].w].ino \in 1 .. Len(files)
        BY <1>4, <2>4, WriteEffect
      <4>2. QED
        BY <4>1 DEF PathInv, WritersAtPath
    <3>2. rot.by # 0 => <<rot.p, rot.by>> \in Copiers
      BY RotType
    <3>3. QED
      BY <2>1, <2>2, <3>1, <3>2 DEF ReadyInv
  <2>5. QED
    BY <2>3, <2>4
<1>5. ASSUME NEW c \in Copiers, Count(c) \/ Exceed(c) \/ ChildExits(c) PROVE ReadyInv'
  <2>1. copier[c].pc # "none" /\ UNCHANGED <<files, path, rot>>
    BY <1>5 DEF Count, Exceed, ChildExits
  <2>2. \E r : copier' = [copier EXCEPT ![c] = r]
    BY <1>5 DEF Count, Exceed, ChildExits
  <2>3. QED
    BY <1>2, <1>3, <2>1, <2>2
<1>6. ASSUME NEW p \in Processes, NEW i \in 1 .. Starts, GetWriter(p, i) PROVE ReadyInv'
  <2>1. UNCHANGED <<files, path>> /\ copier[<<p, i>>].pc = "none" /\ rot = Idle
    BY <1>6 DEF GetWriter
  <2>2. CASE stream[p] # 0 /\ ~Oversize
    <3>1. rot' = Idle
      BY <1>6, <2>1, <2>2 DEF GetWriter
    <3>2. QED
      BY <1>1, <3>1
  <2>3. CASE ~(stream[p] # 0 /\ ~Oversize)
    <3>1. /\ copier' = copier
          /\ rot' = [pc |-> IF stream[p] # 0 THEN "close"
                            ELSE IF Oversize THEN "rename" ELSE "open", p |-> p, by |-> i]
      BY <1>6, <2>3 DEF GetWriter
    <3>2. rot'.p = p /\ rot'.by = i /\ rot'.pc \in {"close", "rename", "open"}
          /\ (rot'.pc = "open" => ~Oversize)
      BY <3>1
    <3>3. path # 0 => Len(files[path]) \in Nat
      BY <1>0, Lines
    <3>4. rot'.pc = "open" /\ path # 0 => Len(files[path]) < MaxSize
      BY <3>2, <3>3, LoggerAssumption DEF Oversize
    <3>5. QED
      BY <2>1, <3>1, <3>2, <3>4 DEF ReadyInv
  <2>4. QED
    BY <2>2, <2>3
<1>7. ASSUME NEW p \in Processes, RotateIfNeeded(p) PROVE ReadyInv'
  <2>1. rot' = Idle \/ (rot'.pc = "close" /\ rot'.by = 0)
    BY <1>7 DEF RotateIfNeeded
  <2>2. QED
    BY <1>1, <2>1 DEF ReadyInv
<1>8. CASE RotateClose
  <2>1. rot'.pc = "rename" /\ rot'.p = rot.p /\ rot'.by = rot.by /\ copier' = copier
    BY <1>0, <1>8 DEF RotateClose, RotRecord
  <2>2. QED
    BY <2>1 DEF ReadyInv
<1>9. CASE RotateRename
  <2>1. CASE rot' = Idle
    BY <1>1, <2>1
  <2>2. CASE rot' # Idle
    <3>1. path' = 0 /\ copier' = copier /\ rot' = [rot EXCEPT !.pc = "compress"]
      BY <1>9, <2>2 DEF RotateRename, GiveUp
    <3>2. rot'.pc = "compress" /\ rot'.p = rot.p /\ rot'.by = rot.by
      BY <1>0, <3>1 DEF RotRecord
    <3>3. QED
      BY <3>1, <3>2 DEF ReadyInv
  <2>3. QED
    BY <2>1, <2>2
<1>10. CASE CompressCopy \/ CompressRemove \/ CleanupBackups
  <2>1. /\ path' = path /\ copier' = copier /\ rot.pc \in {"compress", "remove", "clean"}
        /\ rot'.pc \in {"remove", "clean", "open"} /\ rot'.p = rot.p /\ rot'.by = rot.by
    BY <1>0, <1>10 DEF CompressCopy, CompressRemove, CleanupBackups, RotRecord
  <2>2. QED
    BY <2>1 DEF ReadyInv
<1>11. CASE OpenLog \/ Crash
  <2>1. rot' = Idle
    BY <1>11, OpenEffect DEF Opens, GiveUp, Crash
  <2>2. QED
    BY <1>1, <2>1
<1>12. CASE Close
  BY <1>1, <1>12 DEF Close
<1>13. CASE Follow
  <2>1. FollowerOnly
    BY <1>13, FollowEffect
  <2>2. QED
    BY <1>2, <2>1 DEF FollowerOnly
<1>14. CASE UNCHANGED vars
  BY <1>2, <1>14 DEF vars
<1>15. QED
  BY <1>4, <1>5, <1>6, <1>7, <1>8, <1>9, <1>10, <1>11, <1>12, <1>13, <1>14 DEF Next, Follow

(* The counter never falls further than the copiers that take the limit off can push it. *)
Low(w) == Times(Subs(w)) <= Bytes(w) + Times(Starts - 1)

(* It is over the limit only as long as some copier is about to take the limit off. *)
High(w) == Bytes(w) <= MaxSize - 1 + Subs(w)

(* How far the file may be ahead of it, if no copier is about to start a rotation. *)
Drift(w) ==
    \/ Bytes(w) >= MaxSize
    \/ Len(files[path]) + Times(Subs(w)) <= Bytes(w) + Adds(w) + Times(Starts) - 1

(* the stream of p is written to, with w, and no rotation is under way or waiting *)
Settled(p, w) ==
    stream[p] = w /\ writers[w].ino # 0 /\ rot.pc = "idle" /\ pending[p] = 0

CounterInv ==
    \A w \in 1 .. Len(writers) :
        /\ Low(w)
        /\ \A p \in Processes : stream[p] = w => High(w)
        /\ \A p \in Processes : Settled(p, w) => Drift(w)

SizeInv == Typing /\ PathInv /\ ReadyInv /\ CounterInv

LEMMA BytesType ==
    ASSUME Typing
    PROVE  \A w \in 1 .. Len(writers) : Bytes(w) \in Int /\ writers[w].ino \in 0 .. Len(files)
  BY WritersType DEF Typing, Bytes, Wrecord

LEMMA PathLength ==
    ASSUME Typing, PathInv, NEW w \in 1 .. Len(writers), writers[w].ino # 0
    PROVE  writers[w].ino = path /\ path \in 1 .. Len(files) /\ Len(files[path]) \in Nat
<1>1. writers[w].ino = path
  BY DEF PathInv, WritersAtPath
<1>2. path \in 1 .. Len(files)
  BY <1>1, FilesType DEF Typing
<1>3. QED
  BY <1>1, <1>2, Lines

(* a file below the limit is not ahead of the counter *)
LEMMA DriftFromLow ==
    ASSUME NEW len \in Nat, len < MaxSize, NEW b \in Int, NEW a \in Nat, NEW s \in Nat,
           Times(s) <= b + Times(Starts - 1)
    PROVE  len + Times(s) <= b + a + Times(Starts) - 1
<1>1. /\ MaxSize \in Nat /\ Times(Starts) = Times(Starts - 1) + MaxSize
      /\ Times(Starts - 1) \in Nat /\ Times(s) \in Nat
  BY TimesFacts
<1>2. QED
  BY <1>1

(* steps that leave the counters and the copiers that are at them alone *)
LEMMA CounterKept ==
    ASSUME Typing, CounterInv,
           \A w : Adds(w)' = Adds(w) /\ Subs(w)' = Subs(w),
           Len(writers') = Len(writers), \A w \in 1 .. Len(writers) : Bytes(w)' = Bytes(w),
           \A p \in Processes : \A w \in 1 .. Len(writers) : stream'[p] = w => stream[p] = w,
           \A p \in Processes : \A w \in 1 .. Len(writers) :
              Settled(p, w)' => Settled(p, w) /\ Len(files'[path']) = Len(files[path])
    PROVE  CounterInv'
<1> SUFFICES ASSUME NEW w \in 1 .. Len(writers)
             PROVE  /\ Low(w)'
                    /\ \A p \in Processes : stream'[p] = w => High(w)'
                    /\ \A p \in Processes : Settled(p, w)' => Drift(w)'
  BY DEF CounterInv
<1>0. Bytes(w)' = Bytes(w) /\ Subs(w)' = Subs(w) /\ Adds(w)' = Adds(w)
  OBVIOUS
<1>1. Low(w)'
  BY <1>0 DEF CounterInv, Low
<1>2. ASSUME NEW p \in Processes, stream'[p] = w PROVE High(w)'
  BY <1>0, <1>2 DEF CounterInv, High
<1>3. ASSUME NEW p \in Processes, Settled(p, w)' PROVE Drift(w)'
  <2>1. Settled(p, w) /\ Len(files'[path']) = Len(files[path])
    BY <1>3
  <2>2. Drift(w)
    BY <2>1 DEF CounterInv
  <2>3. QED
    BY <1>0, <2>1, <2>2 DEF Drift
<1>4. QED
  BY <1>1, <1>2, <1>3

LEMMA OneLineMore ==
    ASSUME NEW l \in Nat, NEW t \in Nat, NEW b \in Int, NEW a \in Nat, NEW n \in Nat,
           l + t <= b + a + n - 1
    PROVE  l + 1 + t <= b + (a + 1) + n - 1
  OBVIOUS

(* A copier writes. *)
LEMMA CounterWrite ==
    ASSUME Lone, SizeInv, NEW c \in Copiers, Write(c)
    PROVE  CounterInv'
<1> DEFINE k == copier[c].w
<1>0. /\ Typing /\ PathInv /\ CounterInv /\ copier[c].pc = "copy" /\ copier[c] \in CopierRecord
      /\ UNCHANGED <<path, writers, stream, rot, pending>>
      /\ copier \in [Copiers -> CopierRecord]
  BY CopierType DEF SizeInv, Write
<1>1. /\ \A w : Bytes(w)' = Bytes(w) /\ Len(writers') = Len(writers)
      /\ \A p, w : Settled(p, w)' <=> Settled(p, w)
  BY <1>0 DEF Bytes, Settled
<1>2. CASE writers[k].ino = 0
  <2> DEFINE r == [copier[c] EXCEPT !.pc = "add", !.n = 0]
  <2>1. copier' = [copier EXCEPT ![c] = r] /\ files' = files
    BY <1>0, <1>2 DEF Write, CopierRecord
  <2>2. r.pc = "add" /\ r.n = 0
    BY <1>0 DEF CopierRecord
  <2> HIDE DEF r
  <2>2a. copier[c].pc \notin {"add", "sub"} /\ r.pc # "sub" /\ r.n # 1
    BY <1>0, <2>2
  <2>3. \A w : Adds(w)' = Adds(w) /\ Subs(w)' = Subs(w)
    BY <1>0, <2>1, <2>2a, SetsStay
  <2>4. QED
    BY <1>0, <1>1, <2>1, <2>3, CounterKept
<1>3. CASE writers[k].ino # 0
  <2> DEFINE r == [copier[c] EXCEPT !.pc = "add", !.n = 1]
  <2>0. copier' = [copier EXCEPT ![c] = r] /\ accepted' = accepted + 1
    BY <1>0, <1>3 DEF Write, CopierRecord
  <2>1. r.pc = "add" /\ r.n = 1 /\ r.w = k
    BY <1>0 DEF CopierRecord
  <2> HIDE DEF r
  <2>2. ASSUME NEW w PROVE c \notin Adding(w) /\ c \notin Subbing(w)
    BY <1>0 DEF Adding, Subbing
  <2>3. ASSUME NEW w
        PROVE  Subs(w)' = Subs(w) /\ Adds(w)' = IF w = k THEN Adds(w) + 1 ELSE Adds(w)
    <3>1. /\ Adding(w)' = IF w = k THEN Adding(w) \cup {c} ELSE Adding(w) \ {c}
          /\ Subbing(w)' = Subbing(w) \ {c}
      BY <1>0, <2>0, <2>1, SetsMove
    <3>2. Subbing(w)' = Subbing(w) /\ (w # k => Adding(w)' = Adding(w))
      BY <2>2, <3>1
    <3>3. CASE w = k
      <4>1. IsFiniteSet(Adding(w)) /\ c \notin Adding(w) /\ Adding(w)' = Adding(w) \cup {c}
        BY <2>2, <3>1, <3>3, SetsFinite
      <4>2. Cardinality(Adding(w)') = Cardinality(Adding(w)) + 1
        BY <4>1, FS_AddElement
      <4>3. QED
        BY <3>2, <3>3, <4>2 DEF Adds, Subs
    <3>4. CASE w # k
      BY <3>2, <3>4 DEF Adds, Subs
    <3>5. QED
      BY <3>3, <3>4
  <2>4. /\ k \in 1 .. Len(writers)
        /\ writers[k].ino = path /\ path \in 1 .. Len(files) /\ Len(files[path]) \in Nat
    BY <1>0, <1>3, CopierType, PathLength
  <2>5. Len(files'[path]) = Len(files[path]) + 1
    <3>1. accepted' # accepted
      BY <1>0, <2>0, AcceptedType DEF Typing
    <3>2. /\ accepted + 1 \in Line
          /\ files' = [files EXCEPT ![path] = Append(files[path], accepted + 1)]
      BY <1>0, <2>4, <3>1, WriteEffect
    <3>3. QED
      BY <1>0, <2>4, <3>2, LineAdded
  <2>6. ASSUME NEW w \in 1 .. Len(writers')
        PROVE  /\ Low(w)'
               /\ \A p \in Processes : stream'[p] = w => High(w)'
               /\ \A p \in Processes : Settled(p, w)' => Drift(w)'
    <3>0. Bytes(w)' = Bytes(w) /\ Subs(w)' = Subs(w) /\ w \in 1 .. Len(writers)
      BY <1>1, <2>3
    <3>1. Low(w)'
      BY <1>0, <3>0 DEF CounterInv, Low
    <3>2. ASSUME NEW p \in Processes, stream'[p] = w PROVE High(w)'
      BY <1>0, <3>0, <3>2 DEF CounterInv, High
    <3>3. ASSUME NEW p \in Processes, Settled(p, w)' PROVE Drift(w)'
      <4>1. Settled(p, w) /\ Drift(w)
        BY <1>0, <1>1, <3>0, <3>3 DEF CounterInv
      <4>2. w = k
        <5>1. \E q \in Processes : stream[q] = k
          BY <1>0, <1>3, <2>4 DEF PathInv, WritersAtPath
        <5>2. QED
          BY <4>1, <5>1 DEF Lone, Settled
      <4>3. /\ Bytes(w) \in Int /\ Adds(w) \in Nat /\ Times(Subs(w)) \in Nat
            /\ Times(Starts) \in Nat /\ Adds(w)' = Adds(w) + 1
            /\ Len(files'[path']) = Len(files[path]) + 1
        BY <1>0, <2>3, <2>5, <3>0, <4>2, BytesType, SetsFinite, TimesFacts
      <4>4. CASE Bytes(w) >= MaxSize
        BY <3>0, <4>4 DEF Drift
      <4>5. CASE Len(files[path]) + Times(Subs(w)) <= Bytes(w) + Adds(w) + Times(Starts) - 1
        <5>1. Len(files[path]) + 1 + Times(Subs(w)) <= Bytes(w) + (Adds(w) + 1) + Times(Starts) - 1
          BY <2>4, <4>3, <4>5, OneLineMore
        <5>2. QED
          BY <3>0, <4>3, <5>1 DEF Drift
      <4>6. QED
        BY <4>1, <4>4, <4>5 DEF Drift
    <3>4. QED
      BY <3>1, <3>2, <3>3
  <2>7. QED
    BY <2>6 DEF CounterInv
<1>4. QED
  BY <1>2, <1>3

LEMMA CountUp ==
    ASSUME NEW t \in Nat, NEW b \in Int, NEW m \in Nat, NEW n \in {0, 1}, t <= b + m
    PROVE  t <= b + n + m
  OBVIOUS

LEMMA CountOver ==
    ASSUME NEW b \in Int, NEW n \in {0, 1}, NEW m \in Nat, NEW s \in Nat, b <= m - 1 + s
    PROVE  /\ b + n >= m => b + n <= m - 1 + (s + 1)
           /\ ~(b + n >= m) => b + n <= m - 1 + s
  OBVIOUS

(* A copier counts what it has written. *)
LEMMA CounterCount ==
    ASSUME Lone, SizeInv, NEW c \in Copiers, Count(c)
    PROVE  CounterInv'
<1>k. PICK k \in 1 .. Len(writers) : k = copier[c].w
  BY CopierType DEF SizeInv, Count
<1> DEFINE n == copier[c].n
           total == Bytes(k) + n
           over == total >= MaxSize
           r == [copier[c] EXCEPT !.pc = IF over THEN "sub" ELSE Returned(c)]
<1>0. /\ Typing /\ PathInv /\ CounterInv /\ copier[c].pc = "add" /\ copier[c] \in CopierRecord
      /\ UNCHANGED <<files, path, stream, rot, pending>>
      /\ copier \in [Copiers -> CopierRecord]
  BY CopierType DEF SizeInv, Count
<1>1. n \in {0, 1} /\ Bytes(k) \in Int /\ total \in Int /\ MaxSize \in Nat /\ MaxSize >= 1
  <2>1. n \in {0, 1}
    BY <1>0 DEF CopierRecord
  <2>2. Bytes(k) \in Int /\ MaxSize \in Nat /\ MaxSize >= 1
    BY <1>0, BytesType, TimesFacts
  <2> HIDE DEF n
  <2>3. QED
    BY <2>1, <2>2
<1>2. /\ r.w = k /\ r.pc # "add" /\ (r.pc = "sub" <=> over)
      /\ copier' = [copier EXCEPT ![c] = r]
  BY <1>0, <1>k DEF Count, Returned, CopierRecord, Bytes
<1>3. /\ Len(writers') = Len(writers)
      /\ \A w \in 1 .. Len(writers) : writers'[w].ino = writers[w].ino
      /\ Bytes(k)' = total
      /\ \A w \in 1 .. Len(writers) : w # k => Bytes(w)' = Bytes(w)
  <2>1. writers' = [writers EXCEPT ![k] = [writers[k] EXCEPT !.bytesWritten = total]]
    BY <1>k DEF Count, Bytes
  <2>2. /\ DOMAIN writers = 1 .. Len(writers)
        /\ writers[k] \in Wrecord(Len(files))
    BY <1>0, WritersType DEF Typing
  <2>3. /\ writers'[k].bytesWritten = total
        /\ \A w \in 1 .. Len(writers) : w # k => writers'[w] = writers[w]
    BY <1>0, <2>1, <2>2 DEF Wrecord
  <2>4. QED
    BY <1>0, <2>3, CountedInos DEF Bytes
<1>4. \A p : \A w \in 1 .. Len(writers) : Settled(p, w)' <=> Settled(p, w)
  BY <1>0, <1>3 DEF Settled
<1> HIDE DEF r, over, total
<1>5. ASSUME NEW w, w # k PROVE Adds(w)' = Adds(w) /\ Subs(w)' = Subs(w)
  <2>1. c \notin Adding(w) /\ c \notin Subbing(w)
    BY <1>k, <1>5 DEF Adding, Subbing
  <2>2. Adding(w)' = Adding(w) \ {c} /\ Subbing(w)' = Subbing(w) \ {c}
    <3>1. ~(r.pc = "add" /\ r.w = w /\ r.n = 1) /\ ~(r.pc = "sub" /\ r.w = w)
      BY <1>2, <1>5
    <3>0. Typing /\ copier' = [copier EXCEPT ![c] = r]
      BY <1>0, <1>2
    <3>2. Adding(w)' = IF r.pc = "add" /\ r.w = w /\ r.n = 1
                       THEN Adding(w) \cup {c} ELSE Adding(w) \ {c}
      BY <3>0, SetsMove
    <3>3. Subbing(w)' = IF r.pc = "sub" /\ r.w = w
                        THEN Subbing(w) \cup {c} ELSE Subbing(w) \ {c}
      BY <3>0, SetsMove
    <3>4. QED
      BY <3>1, <3>2, <3>3
  <2>3. Adding(w)' = Adding(w) /\ Subbing(w)' = Subbing(w)
    BY <2>1, <2>2
  <2>4. QED
    BY <2>3 DEF Adds, Subs
<1>6. Adds(k)' = Adds(k) - n
  <2>1. Adding(k)' = Adding(k) \ {c} /\ IsFiniteSet(Adding(k)) /\ Adds(k) \in Nat
    BY <1>0, <1>2, SetsMove, SetsFinite
  <2>2. c \in Adding(k) <=> n = 1
    BY <1>0, <1>k DEF Adding
  <2>3. Cardinality(Adding(k)') = IF c \in Adding(k) THEN Cardinality(Adding(k)) - 1
                                  ELSE Cardinality(Adding(k))
    BY <2>1, FS_RemoveElement
  <2>4. QED
    BY <1>1, <2>1, <2>2, <2>3 DEF Adds
<1>7. Subs(k)' = IF over THEN Subs(k) + 1 ELSE Subs(k)
  <2>1. /\ Subbing(k)' = IF over THEN Subbing(k) \cup {c} ELSE Subbing(k) \ {c}
        /\ IsFiniteSet(Subbing(k)) /\ c \notin Subbing(k)
    <3>1. (r.pc = "sub" /\ r.w = k) <=> over
      BY <1>2
    <3>2. c \notin Subbing(k)
      BY <1>0 DEF Subbing
    <3>3. Subbing(k)' = IF r.pc = "sub" /\ r.w = k THEN Subbing(k) \cup {c} ELSE Subbing(k) \ {c}
      BY <1>0, <1>2, SetsMove
    <3>4. QED
      BY <3>1, <3>2, <3>3, SetsFinite
  <2>2. CASE over
    <3>1. Subbing(k)' = Subbing(k) \cup {c}
      BY <2>1, <2>2
    <3>2. Cardinality(Subbing(k)') = Cardinality(Subbing(k)) + 1
      BY <2>1, <3>1, FS_AddElement
    <3>3. QED
      BY <2>2, <3>2 DEF Subs
  <2>3. CASE ~over
    <3>1. Subbing(k)' = Subbing(k)
      BY <2>1, <2>3
    <3>2. QED
      BY <2>3, <3>1 DEF Subs
  <2>4. QED
    BY <2>2, <2>3
<1>8. /\ Subs(k) \in Nat /\ Adds(k) \in Nat /\ Subs(k)' \in Nat /\ Subs(k)' <= Starts
      /\ Times(Subs(k)) \in Nat /\ Times(Starts) \in Nat /\ Times(Starts - 1) \in Nat
      /\ Times(Subs(k)') <= Times(Starts) /\ Times(Starts) = Times(Starts - 1) + MaxSize
      /\ Times(Subs(k)') \in Nat
  BY SetsFinite, SetsFiniteNext, TimesFacts
<1> HIDE DEF n
<1>9. Low(k)'
  <2>1. Low(k)
    BY <1>0 DEF CounterInv
  <2>2. CASE over
    <3>1. Times(Subs(k)') <= total + Times(Starts - 1)
      BY <1>1, <1>8, <2>2 DEF over
    <3>2. QED
      BY <1>3, <3>1 DEF Low
  <2>3. CASE ~over
    <3>1. Times(Subs(k)) <= total + Times(Starts - 1)
      <4>1. Times(Subs(k)) <= Bytes(k) + Times(Starts - 1)
        BY <2>1 DEF Low
      <4>2. QED
        BY <1>1, <1>8, <4>1, CountUp DEF total
    <3>2. QED
      BY <1>3, <1>7, <2>3, <3>1 DEF Low
  <2>4. QED
    BY <2>2, <2>3
<1>10. ASSUME NEW p \in Processes, stream'[p] = k PROVE High(k)'
  <2>1. Bytes(k) <= MaxSize - 1 + Subs(k)
    BY <1>0, <1>10 DEF CounterInv, High
  <2>2. total <= MaxSize - 1 + Subs(k)'
    <3>1. /\ Bytes(k) + n >= MaxSize => Bytes(k) + n <= MaxSize - 1 + (Subs(k) + 1)
          /\ ~(Bytes(k) + n >= MaxSize) => Bytes(k) + n <= MaxSize - 1 + Subs(k)
      BY <1>1, <1>8, <2>1, CountOver
    <3>2. QED
      BY <1>7, <3>1 DEF over, total
  <2>3. QED
    BY <1>3, <2>2 DEF High
<1>11. ASSUME NEW p \in Processes, Settled(p, k)' PROVE Drift(k)'
  <2>1. CASE over
    BY <1>3, <2>1 DEF Drift, over
  <2>2. CASE ~over
    <3>1. Settled(p, k) /\ Drift(k)
      BY <1>0, <1>4, <1>11 DEF CounterInv
    <3>2. ~(Bytes(k) >= MaxSize)
      BY <1>1, <2>2 DEF over, total
    <3>3. Len(files[path]) + Times(Subs(k)) <= Bytes(k) + Adds(k) + Times(Starts) - 1
      BY <3>1, <3>2 DEF Drift
    <3>4. Bytes(k) + Adds(k) = total + (Adds(k) - n)
      BY <1>1, <1>8 DEF total
    <3>5. Len(files[path]) + Times(Subs(k)') <= total + Adds(k)' + Times(Starts) - 1
      BY <1>6, <1>7, <2>2, <3>3, <3>4
    <3>6. QED
      BY <1>0, <1>3, <3>5 DEF Drift
  <2>3. QED
    BY <2>1, <2>2
<1>12. ASSUME NEW w \in 1 .. Len(writers), w # k
       PROVE  /\ Low(w)'
              /\ \A p \in Processes : stream'[p] = w => High(w)'
              /\ \A p \in Processes : Settled(p, w)' => Drift(w)'
  <2>1. Bytes(w)' = Bytes(w) /\ Adds(w)' = Adds(w) /\ Subs(w)' = Subs(w)
    BY <1>3, <1>5, <1>12
  <2>2. QED
    BY <1>0, <1>4, <2>1 DEF CounterInv, Low, High, Drift
<1>13. QED
  BY <1>3, <1>9, <1>10, <1>11, <1>12 DEF CounterInv

LEMMA TakeOff ==
    ASSUME NEW b \in Int, NEW m \in Nat, m >= 1, NEW s \in Nat, s >= 1
    PROVE  /\ \A h \in Nat : Times(s) <= b + h => Times(s - 1) <= b - MaxSize + h
           /\ b <= m - 1 + s => b - m <= m - 1 + (s - 1)
           /\ \A l, a, h \in Nat : l + Times(s) <= b + a + h - 1 =>
                 l + Times(s - 1) <= b - MaxSize + a + h - 1
<1>1. s - 1 \in Nat /\ s = (s - 1) + 1
  OBVIOUS
<1>2. Times(s - 1) \in Nat /\ Times((s - 1) + 1) = Times(s - 1) + MaxSize /\ MaxSize \in Nat
  BY <1>1, TimesFacts
<1>3. Times(s) = Times(s - 1) + MaxSize
  BY <1>1, <1>2
<1> DEFINE u == Times(s - 1)
<1>4. u \in Nat /\ Times(s) = u + MaxSize /\ MaxSize \in Nat
  BY <1>2, <1>3
<1> HIDE DEF u
<1>5. \A h \in Nat : u + MaxSize <= b + h => u <= b - MaxSize + h
  BY <1>4
<1>6. \A l, a, h \in Nat : l + (u + MaxSize) <= b + a + h - 1 => l + u <= b - MaxSize + a + h - 1
  BY <1>4
<1>7. b <= m - 1 + s => b - m <= m - 1 + (s - 1)
  OBVIOUS
<1>8. QED
  BY <1>4, <1>5, <1>6, <1>7 DEF u

(* A copier takes the limit off. *)
LEMMA CounterExceed ==
    ASSUME Lone, SizeInv, NEW c \in Copiers, Exceed(c)
    PROVE  CounterInv'
<1>k. PICK k \in 1 .. Len(writers) : k = copier[c].w
  BY CopierType DEF SizeInv, Exceed
<1> DEFINE left == Bytes(k) - MaxSize
           r == [copier[c] EXCEPT !.pc = Returned(c)]
<1>0. /\ Typing /\ PathInv /\ CounterInv /\ copier[c].pc = "sub" /\ copier[c] \in CopierRecord
      /\ UNCHANGED <<files, path, stream, rot>>
      /\ copier \in [Copiers -> CopierRecord]
  BY CopierType DEF SizeInv, Exceed
<1>1. Bytes(k) \in Int /\ left \in Int /\ MaxSize \in Nat /\ MaxSize >= 1
  <2>1. Bytes(k) \in Int
    BY <1>0, BytesType
  <2>2. MaxSize \in Nat /\ MaxSize >= 1
    BY TimesFacts
  <2>3. QED
    BY <2>1, <2>2
<1>2. /\ r.pc # "add" /\ r.pc # "sub"
      /\ copier' = [copier EXCEPT ![c] = r]
  BY <1>0, <1>k DEF Exceed, Returned, CopierRecord
<1>3. /\ Len(writers') = Len(writers)
      /\ \A w \in 1 .. Len(writers) : writers'[w].ino = writers[w].ino
      /\ Bytes(k)' = left
      /\ \A w \in 1 .. Len(writers) : w # k => Bytes(w)' = Bytes(w)
  <2>1. writers' = [writers EXCEPT ![k] = [writers[k] EXCEPT !.bytesWritten = left]]
    BY <1>k DEF Exceed, Bytes
  <2>2. /\ DOMAIN writers = 1 .. Len(writers)
        /\ writers[k] \in Wrecord(Len(files))
    BY <1>0, WritersType DEF Typing
  <2>3. /\ writers'[k].bytesWritten = left
        /\ \A w \in 1 .. Len(writers) : w # k => writers'[w] = writers[w]
    BY <1>0, <2>1, <2>2 DEF Wrecord
  <2>4. QED
    BY <1>0, <2>3, CountedInos DEF Bytes
<1>4. \A p \in Processes : (left >= 0 => pending'[p] # 0) /\ (pending'[p] = 0 => pending[p] = 0)
  <2>1. pending \in [Processes -> Nat] /\ c[1] \in Processes
    BY <1>0 DEF Typing, TypeOK, Copiers
  <2>2. pending' = IF left >= 0 THEN [pending EXCEPT ![c[1]] = @ + 1] ELSE pending
    BY <1>k DEF Exceed, Bytes
  <2>3. \A p \in Processes : p = c[1]
    BY <2>1 DEF Lone
  <2>4. QED
    BY <2>1, <2>2, <2>3
<1>5. \A p \in Processes : \A w \in 1 .. Len(writers) :
          Settled(p, w)' => Settled(p, w) /\ ~(left >= 0)
  BY <1>0, <1>3, <1>4 DEF Settled
<1> HIDE DEF r, left
<1>6. ASSUME NEW w PROVE Adding(w)' = Adding(w) \ {c} /\ Subbing(w)' = Subbing(w) \ {c}
  <2>1. Adding(w)' = IF r.pc = "add" /\ r.w = w /\ r.n = 1
                     THEN Adding(w) \cup {c} ELSE Adding(w) \ {c}
    BY <1>0, <1>2, SetsMove
  <2>2. Subbing(w)' = IF r.pc = "sub" /\ r.w = w
                      THEN Subbing(w) \cup {c} ELSE Subbing(w) \ {c}
    BY <1>0, <1>2, SetsMove
  <2>3. QED
    BY <1>2, <2>1, <2>2
<1>7. ASSUME NEW w PROVE Adds(w)' = Adds(w) /\ (w # k => Subs(w)' = Subs(w))
  <2>1. c \notin Adding(w) /\ (w # k => c \notin Subbing(w))
    BY <1>0, <1>k DEF Adding, Subbing
  <2>2. Adding(w)' = Adding(w) /\ (w # k => Subbing(w)' = Subbing(w))
    BY <1>6, <2>1
  <2>3. QED
    BY <2>2 DEF Adds, Subs
<1>8. Subs(k)' = Subs(k) - 1 /\ Subs(k) \in Nat /\ Subs(k) >= 1
  <2>1. c \in Subbing(k) /\ IsFiniteSet(Subbing(k)) /\ Subs(k) \in Nat
    BY <1>0, <1>k, SetsFinite DEF Subbing
  <2>2. Cardinality(Subbing(k)') = Cardinality(Subbing(k)) - 1
    BY <1>6, <2>1, FS_RemoveElement
  <2>3. Subs(k)' \in Nat
    BY SetsFiniteNext
  <2>4. QED
    BY <2>1, <2>2, <2>3 DEF Subs
<1>9. /\ Adds(k) \in Nat /\ Times(Starts) \in Nat /\ Times(Starts - 1) \in Nat
  BY SetsFinite, TimesFacts
<1>10. Low(k)'
  <2>1. Times(Subs(k)) <= Bytes(k) + Times(Starts - 1)
    BY <1>0 DEF CounterInv, Low
  <2>2. Times(Subs(k) - 1) <= left + Times(Starts - 1)
    BY <1>1, <1>8, <1>9, <2>1, TakeOff DEF left
  <2>3. QED
    BY <1>3, <1>8, <2>2 DEF Low
<1>11. ASSUME NEW p \in Processes, stream'[p] = k PROVE High(k)'
  <2>1. Bytes(k) <= MaxSize - 1 + Subs(k)
    BY <1>0, <1>11 DEF CounterInv, High
  <2>2. left <= MaxSize - 1 + (Subs(k) - 1)
    BY <1>1, <1>8, <2>1, TakeOff DEF left
  <2>3. QED
    BY <1>3, <1>8, <2>2 DEF High
<1>12. ASSUME NEW p \in Processes, Settled(p, k)' PROVE Drift(k)'
  <2>1. Settled(p, k) /\ Drift(k) /\ ~(left >= 0)
    BY <1>0, <1>5, <1>12 DEF CounterInv
  <2>2. ~(Bytes(k) >= MaxSize)
    BY <1>1, <2>1 DEF left
  <2>3. Len(files[path]) + Times(Subs(k)) <= Bytes(k) + Adds(k) + Times(Starts) - 1
    BY <2>1, <2>2 DEF Drift
  <2>4. Len(files[path]) \in Nat
    BY <1>0, <2>1, PathLength DEF Settled
  <2>5. Len(files[path]) + Times(Subs(k) - 1) <= left + Adds(k) + Times(Starts) - 1
    BY <1>1, <1>8, <1>9, <2>3, <2>4, TakeOff DEF left
  <2>6. QED
    BY <1>0, <1>3, <1>7, <1>8, <2>5 DEF Drift
<1>13. ASSUME NEW w \in 1 .. Len(writers), w # k
       PROVE  /\ Low(w)'
              /\ \A p \in Processes : stream'[p] = w => High(w)'
              /\ \A p \in Processes : Settled(p, w)' => Drift(w)'
  <2>1. Bytes(w)' = Bytes(w) /\ Adds(w)' = Adds(w) /\ Subs(w)' = Subs(w)
    BY <1>3, <1>7, <1>13
  <2>2. QED
    BY <1>0, <1>5, <2>1 DEF CounterInv, Low, High, Drift
<1>14. QED
  BY <1>3, <1>10, <1>11, <1>12, <1>13 DEF CounterInv

(* A rotation that was asked for is started, or found unnecessary. *)
LEMMA CounterRotateIfNeeded ==
    ASSUME Lone, SizeInv, NEW p \in Processes, RotateIfNeeded(p)
    PROVE  CounterInv'
<1>0. /\ Typing /\ PathInv /\ CounterInv
      /\ UNCHANGED <<files, path, writers, stream, copier>>
      /\ rot' = IF stream[p] # 0 /\ Oversize THEN [pc |-> "close", p |-> p, by |-> 0] ELSE rot
      /\ \A w : Adds(w)' = Adds(w) /\ Subs(w)' = Subs(w) /\ Bytes(w)' = Bytes(w)
  BY SetsSame DEF SizeInv, RotateIfNeeded, Bytes
<1>1. ASSUME NEW w \in 1 .. Len(writers), NEW q \in Processes, Settled(q, w)' PROVE Drift(w)'
  <2>1. q = p /\ stream[p] = w /\ writers[w].ino # 0 /\ rot'.pc = "idle"
    BY <1>0, <1>1 DEF Lone, Settled
  <2>2. ~Oversize
    <3>1. w # 0
      OBVIOUS
    <3>2. QED
      BY <1>0, <2>1, <3>1
  <2>3. path \in 1 .. Len(files) /\ Len(files[path]) \in Nat
    BY <1>0, <2>1, PathLength
  <2>4. path # 0 /\ MaxSize \in Nat
    BY <2>3, TimesFacts
  <2>5. Len(files[path]) < MaxSize
    BY <2>2, <2>3, <2>4 DEF Oversize
  <2>6. Bytes(w) \in Int /\ Adds(w) \in Nat /\ Subs(w) \in Nat
    BY <1>0, BytesType, SetsFinite
  <2>7. Times(Subs(w)) <= Bytes(w) + Times(Starts - 1)
    BY <1>0 DEF CounterInv, Low
  <2>8. Len(files[path]) + Times(Subs(w)) <= Bytes(w) + Adds(w) + Times(Starts) - 1
    BY <2>3, <2>5, <2>6, <2>7, DriftFromLow
  <2>9. QED
    BY <1>0, <2>8 DEF Drift
<1>2. ASSUME NEW w \in 1 .. Len(writers)
      PROVE  Low(w)' /\ \A q \in Processes : stream'[q] = w => High(w)'
  BY <1>0 DEF CounterInv, Low, High
<1>3. QED
  BY <1>0, <1>1, <1>2 DEF CounterInv

(* A file is opened: it is below the limit. *)
LEMMA CounterOpens ==
    ASSUME Lone, SizeInv, OpenLog, Opens
    PROVE  CounterInv'
<1>0. /\ Typing /\ PathInv /\ ReadyInv /\ CounterInv /\ rot.pc = "open"
      /\ rot.p \in Processes /\ pending' = pending
  BY OpenEffect, OpensWriters DEF SizeInv
<1>k. PICK k \in 1 .. Len(writers') : k = NewWriter
  BY <1>0, OpensWriters
<1>1. \A w : Adds(w)' = Adds(w) /\ Subs(w)' = Subs(w)
  <2>1. CASE rot.by = 0
    BY <2>1, SetsSame DEF Opens
  <2>2. CASE rot.by # 0
    <3> DEFINE c == <<rot.p, rot.by>>
               r == [pc |-> "copy", w |-> NewWriter, n |-> 0]
    <3>1. /\ c \in Copiers /\ copier[c].pc = "none"
          /\ copier' = [copier EXCEPT ![c] = r]
      BY <1>0, <2>2, RotType DEF ReadyInv, Opens, Handed
    <3>2. copier[c].pc \notin {"add", "sub"} /\ r.pc # "sub" /\ r.pc # "add"
      BY <3>1
    <3> HIDE DEF c, r
    <3>3. QED
      BY <1>0, <3>1, <3>2, SetsStay
  <2>3. QED
    BY <2>1, <2>2
<1>2. /\ \A w \in 1 .. Len(writers') : w \in 1 .. Len(writers) => Bytes(w)' = Bytes(w)
      /\ \A w \in 1 .. Len(writers') : w \notin 1 .. Len(writers) =>
            w = k /\ Bytes(w)' = 0 /\ Subs(w) = 0
  <2>0. /\ writers \in Seq(Wrecord(Len(files))) /\ DOMAIN writers = 1 .. Len(writers)
        /\ Len(writers) \in Nat /\ \A w \in 1 .. Len(writers) : writers[w] \in Wrecord(Len(files))
    BY <1>0, WritersType DEF Typing
  <2>1. CASE stream[rot.p] = 0
    <3>1. writers' = Append(writers, [ino |-> NewIno, bytesWritten |-> 0]) /\ k = Len(writers) + 1
      BY <1>k, <2>1 DEF Opens, NewWriter
    <3>2. Len(writers') = Len(writers) + 1
      BY <2>0, <3>1
    <3>3. \A w \in 1 .. Len(writers) : writers'[w] = writers[w]
      BY <2>0, <3>1
    <3>4. writers'[k].bytesWritten = 0
      BY <2>0, <3>1
    <3>5. Subbing(k) = {}
      <4>1. ASSUME NEW c \in Copiers, copier[c].pc = "sub" PROVE copier[c].w # k
        BY <1>0, <2>0, <3>1, <4>1, CopierType
      <4>2. QED
        BY <4>1 DEF Subbing
    <3>6. Subs(k) = 0
      BY <3>5, FS_EmptySet DEF Subs
    <3>7. \A w \in 1 .. Len(writers') : w \notin 1 .. Len(writers) => w = k
      BY <2>0, <3>1, <3>2
    <3>8. QED
      BY <3>3, <3>4, <3>6, <3>7 DEF Bytes
  <2>2. CASE stream[rot.p] # 0
    <3>1. writers' = [writers EXCEPT ![k] = [writers[k] EXCEPT !.ino = NewIno]]
      BY <1>k, <2>2 DEF Opens
    <3>2. Len(writers') = Len(writers)
      BY <2>0, <3>1
    <3>3. \A w \in 1 .. Len(writers) : writers'[w].bytesWritten = writers[w].bytesWritten
      BY <2>0, <3>1 DEF Wrecord
    <3>4. QED
      BY <3>2, <3>3 DEF Bytes
  <2>3. QED
    BY <2>1, <2>2
<1>3. /\ Times(0) = 0 /\ MaxSize \in Nat /\ MaxSize >= 1 /\ Times(Starts - 1) \in Nat
  BY TimesFacts
<1>4. ASSUME NEW w \in 1 .. Len(writers') PROVE Low(w)'
  <2>1. CASE w \in 1 .. Len(writers)
    BY <1>0, <1>1, <1>2, <2>1 DEF CounterInv, Low
  <2>2. CASE w \notin 1 .. Len(writers)
    <3>1. Bytes(w)' = 0 /\ Subs(w)' = 0
      BY <1>1, <1>2, <2>2
    <3>2. Times(Subs(w)') <= Bytes(w)' + Times(Starts - 1)
      BY <1>3, <3>1
    <3>3. QED
      BY <3>2 DEF Low
  <2>3. QED
    BY <2>1, <2>2
<1>5. ASSUME NEW w \in 1 .. Len(writers'), NEW q \in Processes, stream'[q] = w PROVE High(w)'
  <2>0. q = rot.p
    BY <1>0 DEF Lone
  <2>1. CASE w \in 1 .. Len(writers)
    <3>1. stream[q] = w
      <4>1. stream' = [stream EXCEPT ![rot.p] = k] /\ stream \in [Processes -> 0 .. Len(writers)]
        BY <1>0, <1>k, WritersType DEF Opens, Typing
      <4>2. w = k
        BY <1>0, <1>5, <2>0, <4>1
      <4>3. QED
        BY <1>0, <1>k, <2>0, <2>1, <4>2, WritersType DEF NewWriter, Typing
    <3>2. High(w)
      BY <1>0, <2>1, <3>1 DEF CounterInv
    <3>3. QED
      BY <1>1, <1>2, <2>1, <3>2 DEF High
  <2>2. CASE w \notin 1 .. Len(writers)
    <3>1. Bytes(w)' = 0 /\ Subs(w)' = 0
      BY <1>1, <1>2, <2>2
    <3>2. Bytes(w)' <= MaxSize - 1 + Subs(w)'
      BY <1>3, <3>1
    <3>3. QED
      BY <3>2 DEF High
  <2>3. QED
    BY <2>1, <2>2
<1>6. Len(files'[path']) \in Nat /\ Len(files'[path']) < MaxSize
  <2>1. CASE path = 0
    <3>1. files' = Append(files, <<>>) /\ path' = Len(files) + 1 /\ <<>> \in Seq(Line)
      BY <2>1 DEF Opens, NewIno
    <3>2. files'[path'] = <<>>
      BY <1>0, <3>1, FileAdded
    <3>3. QED
      BY <1>3, <3>2
  <2>2. CASE path # 0
    <3>1. files' = files /\ path' = path /\ path \in 1 .. Len(files)
      BY <1>0, <2>2, FilesType DEF Opens, NewIno, Typing
    <3>2. QED
      BY <1>0, <2>2, <3>1, Lines DEF ReadyInv
  <2>3. QED
    BY <2>1, <2>2
<1>7. ASSUME NEW w \in 1 .. Len(writers') PROVE Drift(w)'
  <2>1. Bytes(w)' \in Int
    BY <1>0, <1>2, BytesType
  <2>2. Adds(w)' \in Nat /\ Subs(w)' \in Nat
    BY SetsFiniteNext
  <2>3. Times(Subs(w)') <= Bytes(w)' + Times(Starts - 1)
    BY <1>4 DEF Low
  <2>4. Len(files'[path']) + Times(Subs(w)') <= Bytes(w)' + Adds(w)' + Times(Starts) - 1
    BY <1>6, <2>1, <2>2, <2>3, DriftFromLow
  <2>5. QED
    BY <2>4 DEF Drift
<1>8. QED
  BY <1>4, <1>5, <1>7 DEF CounterInv

(* The supervisor closes its files, or is killed: no stream is left. *)
LEMMA CounterCloses ==
    ASSUME Lone, SizeInv, Close \/ Crash
    PROVE  CounterInv'
<1>0. /\ Typing /\ TypeOK /\ CounterInv /\ writers' = AllClosed
      /\ \A p \in Processes : stream'[p] = 0
  BY DEF SizeInv, Typing, Close, Crash
<1>1. /\ Len(writers') = Len(writers) /\ DOMAIN writers = 1 .. Len(writers)
      /\ \A w \in 1 .. Len(writers) : Bytes(w)' = Bytes(w)
  <2>1. Len(writers') = Len(writers) /\ DOMAIN writers = 1 .. Len(writers)
    BY <1>0, ClosedType, WritersType
  <2>2. ASSUME NEW w \in 1 .. Len(writers) PROVE Bytes(w)' = Bytes(w)
    <3>1. writers[w] \in Wrecord(Len(files)) /\ writers'[w] = [writers[w] EXCEPT !.ino = 0]
      BY <1>0, <2>1, WritersType DEF AllClosed
    <3>2. QED
      BY <3>1 DEF Bytes, Wrecord
  <2>3. QED
    BY <2>1, <2>2
<1>2. ASSUME NEW w PROVE Subs(w)' \in Nat /\ Subs(w) \in Nat /\ Subs(w)' <= Subs(w)
  <2>1. Subbing(w)' \subseteq Subbing(w)
    <3>1. \A c \in Copiers : copier'[c] = copier[c] \/ copier'[c] = Done
      BY DEF Close, Crash
    <3>2. Done.pc = "done"
      BY DEF Done
    <3>3. QED
      BY <3>1, <3>2 DEF Subbing
  <2>2. IsFiniteSet(Subbing(w)) /\ Subs(w) \in Nat /\ Subs(w)' \in Nat
    BY SetsFinite, SetsFiniteNext
  <2>3. Cardinality(Subbing(w)') <= Cardinality(Subbing(w))
    BY <2>1, <2>2, FS_Subset
  <2>4. QED
    BY <2>2, <2>3 DEF Subs
<1>3. ASSUME NEW w \in 1 .. Len(writers) PROVE Low(w)'
  <2>1. Times(Subs(w)) <= Bytes(w) + Times(Starts - 1)
    BY <1>0 DEF CounterInv, Low
  <2>2. Times(Subs(w)') <= Times(Subs(w)) /\ Times(Subs(w)) \in Nat /\ Times(Subs(w)') \in Nat
        /\ Times(Starts - 1) \in Nat
    BY <1>2, TimesFacts
  <2>3. Bytes(w) \in Int
    BY <1>0, BytesType
  <2>4. Times(Subs(w)') <= Bytes(w) + Times(Starts - 1)
    BY <2>1, <2>2, <2>3
  <2>5. QED
    BY <1>1, <2>4 DEF Low
<1>4. \A w \in 1 .. Len(writers) : \A p \in Processes : stream'[p] # w
  BY <1>0
<1>5. QED
  BY <1>1, <1>3, <1>4 DEF CounterInv, Settled

LEMMA CounterStep ==
    ASSUME Lone, SizeInv, [Next]_vars
    PROVE  CounterInv'
<1>0. Typing /\ PathInv /\ CounterInv /\ ReadyInv /\ rot \in RotRecord
  BY RotType DEF SizeInv
<1>1. ASSUME UNCHANGED <<writers, stream>>, \A w : Adds(w)' = Adds(w) /\ Subs(w)' = Subs(w),
             \/ rot'.pc # "idle" \/ UNCHANGED <<files, path, rot, pending>>
             \/ rot.pc \notin {"idle", "close"}
      PROVE  CounterInv'
  <2>1. Len(writers') = Len(writers) /\ \A w \in 1 .. Len(writers) : Bytes(w)' = Bytes(w)
    BY <1>1 DEF Bytes
  <2>2. ASSUME NEW p \in Processes, NEW w \in 1 .. Len(writers), Settled(p, w)'
        PROVE  Settled(p, w) /\ Len(files'[path']) = Len(files[path])
    <3>1. writers[w].ino # 0 /\ rot'.pc = "idle"
      BY <1>1, <2>2 DEF Settled
    <3>2. rot.pc \in {"idle", "close"}
      BY <1>0, <3>1, AllShut
    <3>3. UNCHANGED <<files, path, rot, pending>>
      BY <1>1, <3>1, <3>2
    <3>4. QED
      BY <1>1, <2>2, <3>3 DEF Settled
  <2>3. QED
    BY <1>0, <1>1, <2>1, <2>2, CounterKept
<1>2. ASSUME NEW c \in Copiers, Write(c) \/ Count(c) \/ Exceed(c) PROVE CounterInv'
  BY <1>2, CounterWrite, CounterCount, CounterExceed
<1>3. ASSUME NEW c \in Copiers, ChildExits(c) PROVE CounterInv'
  <2>1. copier' = [copier EXCEPT ![c] = Done] /\ copier[c].pc = "copy"
    BY <1>3 DEF ChildExits
  <2>2. Done.pc = "done"
    BY DEF Done
  <2>3. copier[c].pc \notin {"add", "sub"} /\ Done.pc # "sub" /\ Done.pc # "add"
    BY <2>1, <2>2
  <2>4. \A w : Adds(w)' = Adds(w) /\ Subs(w)' = Subs(w)
    BY <1>0, <2>1, <2>3, SetsStay
  <2>5. QED
    BY <1>1, <1>3, <2>4 DEF ChildExits
<1>4. ASSUME NEW p \in Processes, NEW i \in 1 .. Starts, GetWriter(p, i) PROVE CounterInv'
  <2>1. UNCHANGED <<files, path, writers, stream, pending>> /\ copier[<<p, i>>].pc = "none"
        /\ <<p, i>> \in Copiers
    BY <1>4 DEF GetWriter, Copiers
  <2>2. CASE stream[p] # 0 /\ ~Oversize
    <3> DEFINE r == [pc |-> "copy", w |-> stream[p], n |-> 0]
    <3>1. copier' = [copier EXCEPT ![<<p, i>>] = r] /\ rot' = rot
      BY <1>4, <2>2 DEF GetWriter, Handed
    <3>2. copier[<<p, i>>].pc \notin {"add", "sub"} /\ r.pc # "sub" /\ r.pc # "add"
      BY <2>1
    <3> HIDE DEF r
    <3>3. \A w : Adds(w)' = Adds(w) /\ Subs(w)' = Subs(w)
      BY <1>0, <2>1, <3>1, <3>2, SetsStay
    <3>4. QED
      BY <1>1, <2>1, <3>1, <3>3
  <2>3. CASE ~(stream[p] # 0 /\ ~Oversize)
    <3>1. copier' = copier /\ rot'.pc # "idle"
      BY <1>4, <2>3 DEF GetWriter
    <3>2. QED
      BY <1>1, <2>1, <3>1, SetsSame
  <2>4. QED
    BY <2>2, <2>3
<1>5. ASSUME NEW p \in Processes, RotateIfNeeded(p) PROVE CounterInv'
  BY <1>5, CounterRotateIfNeeded
<1>6. CASE RotateClose
  <2>1. UNCHANGED <<files, path, stream, copier, pending>> /\ rot'.pc = "rename"
    BY <1>0, <1>6 DEF RotateClose, RotRecord
  <2>2. \A w : Adds(w)' = Adds(w) /\ Subs(w)' = Subs(w)
    BY <2>1, SetsSame
  <2>3. Len(writers') = Len(writers) /\ \A w \in 1 .. Len(writers) : Bytes(w)' = Bytes(w)
    <3>1. PICK k : writers' = [writers EXCEPT ![k] = [writers[k] EXCEPT !.ino = 0]]
      BY <1>6 DEF RotateClose
    <3>2. /\ writers \in Seq(Wrecord(Len(files))) /\ DOMAIN writers = 1 .. Len(writers)
          /\ \A w \in 1 .. Len(writers) : writers[w] \in Wrecord(Len(files))
      BY <1>0, WritersType DEF Typing
    <3>3. Len(writers') = Len(writers)
      BY <3>1, <3>2
    <3>4. ASSUME NEW w \in 1 .. Len(writers)
          PROVE  writers'[w].bytesWritten = writers[w].bytesWritten
      BY <3>1, <3>2 DEF Wrecord
    <3>5. QED
      BY <3>3, <3>4 DEF Bytes
  <2>4. \A p, w : ~Settled(p, w)'
    BY <2>1 DEF Settled
  <2>5. QED
    BY <1>0, <2>1, <2>2, <2>3, <2>4, CounterKept
<1>7. ASSUME GiveUp, UNCHANGED <<writers, stream>>, rot.pc \notin {"idle", "close"}
      PROVE  CounterInv'
  <2>1. \A w : Adds(w)' = Adds(w) /\ Subs(w)' = Subs(w)
    <3>1. CASE rot.by = 0
      BY <1>7, <3>1, SetsSame DEF GiveUp
    <3>2. CASE rot.by # 0
      <4> DEFINE c == <<rot.p, rot.by>>
                 r == [copier[c] EXCEPT !.pc = "unlogged"]
      <4>1. c \in Copiers /\ copier[c].pc = "none" /\ copier[c] \in CopierRecord
        BY <1>0, <3>2, RotType, CopierType DEF ReadyInv
      <4>2. r.pc = "unlogged" /\ copier' = [copier EXCEPT ![c] = r]
        BY <1>7, <3>2, <4>1 DEF GiveUp, CopierRecord
      <4>3. copier[c].pc \notin {"add", "sub"} /\ r.pc # "sub" /\ r.pc # "add"
        BY <4>1, <4>2
      <4> HIDE DEF c, r
      <4>4. QED
        BY <1>0, <4>1, <4>2, <4>3, SetsStay
    <3>3. QED
      BY <3>1, <3>2
  <2>2. QED
    BY <1>1, <1>7, <2>1
<1>8. CASE RotateRename
  <2>1. UNCHANGED <<writers, stream>> /\ rot.pc = "rename"
    BY <1>8 DEF RotateRename
  <2>2. CASE GiveUp
    BY <1>7, <2>1, <2>2
  <2>3. CASE ~GiveUp
    <3>1. copier' = copier
      BY <1>8, <2>3 DEF RotateRename
    <3>2. QED
      BY <1>1, <2>1, <3>1, SetsSame
  <2>4. QED
    BY <2>2, <2>3
<1>9. CASE CompressCopy \/ CompressRemove \/ CleanupBackups
  <2>1. UNCHANGED <<writers, stream, copier>> /\ rot.pc \in {"compress", "remove", "clean"}
    BY <1>9 DEF CompressCopy, CompressRemove, CleanupBackups
  <2>2. QED
    BY <1>1, <2>1, SetsSame
<1>10. CASE OpenLog
  <2>1. CASE Opens
    BY <1>10, <2>1, CounterOpens
  <2>2. CASE GiveUp /\ UNCHANGED <<files, path, writers, stream>>
    BY <1>7, <1>10, <2>2, OpenEffect
  <2>3. QED
    BY <1>10, <2>1, <2>2, OpenEffect
<1>11. CASE Close \/ Crash
  BY <1>11, CounterCloses
<1>12. CASE Follow
  <2>1. FollowerOnly
    BY <1>0, <1>12, FollowEffect
  <2>2. QED
    BY <1>1, <2>1, SetsSame DEF FollowerOnly
<1>13. CASE UNCHANGED vars
  BY <1>1, <1>13, SetsSame DEF vars
<1>14. QED
  BY <1>2, <1>3, <1>4, <1>5, <1>6, <1>8, <1>9, <1>10, <1>11, <1>12, <1>13 DEF Next, Follow

LEMMA SizeInit == Init => SizeInv
<1> SUFFICES ASSUME Init PROVE SizeInv
  OBVIOUS
<1>1. Typing /\ writers = <<>> /\ rot = Idle
  BY TypingInit DEF Init
<1>2. PathInv /\ ReadyInv
  BY <1>1, IdleBy DEF PathInv, WritersAtPath, WorthRotating, ReadyInv
<1>3. CounterInv
  BY <1>1 DEF CounterInv
<1>4. QED
  BY <1>1, <1>2, <1>3 DEF SizeInv

LEMMA SizeSuffices == ASSUME Lone, SizeInv PROVE SizeBound
<1>0. Typing /\ PathInv /\ CounterInv
  BY DEF SizeInv
<1> SUFFICES ASSUME Quiet, \A c \in Copiers : copier[c].pc \notin {"add", "sub"},
                    NEW p \in Processes, stream[p] # 0, writers[stream[p]].ino = path, path # 0
             PROVE  Len(files[path]) < (Starts + 1) * MaxSize - 1
  BY DEF SizeBound
<1> DEFINE w == stream[p]
<1>1. w \in 1 .. Len(writers)
  BY <1>0, WritersType DEF Typing
<1>2. Settled(p, w)
  BY IdleBy DEF Quiet, Settled
<1> HIDE DEF w
<1>3. Drift(w) /\ High(w)
  BY <1>0, <1>1, <1>2 DEF CounterInv, Settled
<1>4. Adding(w) = {} /\ Subbing(w) = {}
  BY DEF Adding, Subbing
<1>5. Adds(w) = 0 /\ Subs(w) = 0 /\ Times(Subs(w)) = 0
  BY <1>4, FS_EmptySet, TimesFacts DEF Adds, Subs
<1>6. Bytes(w) \in Int /\ MaxSize \in Nat /\ Starts \in Nat /\ Times(Starts) \in Nat
  BY <1>0, <1>1, BytesType, TimesFacts
<1>7. Len(files[path]) \in Nat
  BY <1>0, <1>1, <1>2, PathLength DEF Settled
<1>8. Bytes(w) <= MaxSize - 1
  BY <1>3, <1>5, <1>6 DEF High
<1>9. ~(Bytes(w) >= MaxSize)
  BY <1>6, <1>8
<1>10. Len(files[path]) + 0 <= Bytes(w) + 0 + Times(Starts) - 1
  BY <1>3, <1>5, <1>9 DEF Drift
<1>11. Len(files[path]) < Times(Starts) + MaxSize - 1
  BY <1>6, <1>7, <1>8, <1>10
<1>12. Times(Starts) + MaxSize = (Starts + 1) * MaxSize
  BY <1>6 DEF Times
<1> DEFINE m == (Starts + 1) * MaxSize
<1>13. Times(Starts) + MaxSize = m
  BY <1>12
<1> HIDE DEF m
<1>14. Len(files[path]) < m - 1
  BY <1>6, <1>7, <1>11, <1>13
<1>15. QED
  BY <1>14 DEF m

(* Where one process logs to the path, a file that is written to is rotated before it reaches
   the limit times the number of copiers plus one, however the counter of bytes and the size
   of the file drift apart: across rotations that the counter survives, copiers that take the
   limit off twice, failed rotations and restarts.  (logger.go, countingWriter.Write) *)
THEOREM LogFileBounded ==
    ASSUME \A p, q \in Processes : p = q
    PROVE  Spec => []SizeBound
<1>1. Lone
  BY DEF Lone
<1>2. SizeInv /\ [Next]_vars => SizeInv'
  <2> SUFFICES ASSUME SizeInv, [Next]_vars PROVE SizeInv'
    OBVIOUS
  <2>1. Typing' /\ PathInv' /\ ReadyInv' /\ CounterInv'
    BY <1>1, TypingStep, PathStep, ReadyStep, CounterStep DEF SizeInv
  <2>2. QED
    BY <2>1 DEF SizeInv
<1>3. SizeInv => SizeBound
  BY <1>1, SizeSuffices
<1>4. QED
  BY <1>2, <1>3, SizeInit, PTL DEF Spec
=============================================================================
