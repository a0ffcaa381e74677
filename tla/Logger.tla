-------------------------------- MODULE Logger --------------------------------
(***************************************************************************)
(* internal/logger/logger.go: the log file of a process, its rotation, and *)
(* (internal/web/web.go) a client that follows the file.  Output is a      *)
(* stream of lines, numbered in the order in which the file system accepts *)
(* them, each of size one.  Inodes are numbered in the order of their      *)
(* creation.  A backup is [ts, ino, gz]: the time in its name, its inode,  *)
(* whether it is compressed.  l.mutex is held while rot.pc is not "idle".  *)
(* Definitions with an underscore are faulty variants (see Process).       *)
(***************************************************************************)
EXTENDS Integers, FiniteSets, SequencesExt

CONSTANTS
    Processes,      \* processes that log to this path
    Starts,         \* bound: Starts of each process
    MaxSize,        \* logStream.maxSize
    BackupCount,    \* logStream.backupCount
    MaxLines,       \* bound: lines the file system accepts
    FollowLines,    \* bound: the client leaves before more lines than this
    Faults,         \* what may go wrong, and "close" for Logger.Close
    MaxFaults       \* bound: how often

ASSUME LoggerAssumption ==
    /\ Processes # {} /\ Starts \in Nat \ {0}
    /\ MaxSize \in Nat \ {0} /\ BackupCount \in Nat \ {0}
    /\ MaxLines \in Nat /\ MaxFaults \in Nat
    /\ Faults \subseteq {"rename", "compress", "torn", "remove", "open", "close", "crash"}

(* the goroutine of os/exec that copies the output of the child of the i-th Start *)
Copiers == Processes \X (1 .. Starts)

VARIABLES
    files,      \* contents of each inode
    path,       \* inode of the log file, 0 if there is none
    backups,    \* rotated files
    rotations,  \* how many times a file was renamed
    writers,    \* countingWriters: [ino, bytesWritten]; ino = 0 is a closed file
    stream,     \* l.processLogs: the index of the writer, 0 if there is none
    copier,     \* [pc, w, n]: its writer, and the size of the write it is in
    pending,    \* goroutines of onExceed that have not got l.mutex yet
    rot,        \* [pc, p, by]: the operation that holds l.mutex; by is the Start, or 0
    follower,   \* handleProcessLogsStream of one client
    accepted,   \* lines accepted so far
    faults      \* faults so far

vars == <<files, path, backups, rotations, writers, stream, copier, pending, rot,
          follower, accepted, faults>>

Idle == [pc |-> "idle", p |-> CHOOSE p \in Processes : TRUE, by |-> 0]

Done == [pc |-> "done", w |-> 0, n |-> 0]

Away == [pc |-> "away", ino |-> 0, off |-> 0, last |-> 0, want |-> 0, seen |-> 0]

TypeOK ==
    /\ files \in Seq(Seq(1 .. MaxLines))
    /\ path \in 0 .. Len(files)
    /\ rotations \in Nat /\ accepted \in 0 .. MaxLines
    /\ backups \subseteq [ts : 1 .. rotations, ino : DOMAIN files, gz : BOOLEAN]
    /\ writers \in Seq([ino : 0 .. Len(files), bytesWritten : Int])
    /\ stream \in [Processes -> 0 .. Len(writers)]
    /\ copier \in [Copiers -> [pc : {"none", "copy", "add", "sub", "broken", "unlogged", "done"},
                               w : 0 .. Len(writers), n : {0, 1}]]
    /\ pending \in [Processes -> Nat]
    /\ rot \in [pc : {"idle", "close", "rename", "compress", "remove", "clean", "open"},
                p : Processes, by : 0 .. Starts]
    /\ follower \in [pc : {"away", "stat", "tick", "reopen", "read"}, ino : 0 .. Len(files),
                     off : Nat, last : 0 .. Len(files), want : 0 .. Len(files), seen : Nat]

Init ==
    /\ files = <<>> /\ path = 0 /\ backups = {} /\ rotations = 0
    /\ writers = <<>>
    /\ stream = [p \in Processes |-> 0]
    /\ copier = [c \in Copiers |-> [pc |-> "none", w |-> 0, n |-> 0]]
    /\ pending = [p \in Processes |-> 0]
    /\ rot = Idle
    /\ follower = Away
    /\ accepted = 0 /\ faults = 0

Oversize == path # 0 /\ Len(files[path]) >= MaxSize

Fault(kind) == kind \in Faults /\ faults < MaxFaults /\ faults' = faults + 1

(* the writers of c, handed to the child of a Start *)
Handed(c, w) == [copier EXCEPT ![c] = [pc |-> "copy", w |-> w, n |-> 0]]

-----------------------------------------------------------------------------
(* countingWriter.Write, called by a copier *)

(* the part under writerMu; a closed file takes nothing *)
Write(c) ==
    LET ino == writers[copier[c].w].ino IN
    /\ copier[c].pc = "copy"
    /\ accepted < MaxLines /\ (follower # Away => accepted < FollowLines)
    /\ IF ino = 0
       THEN /\ copier' = [copier EXCEPT ![c].pc = "add", ![c].n = 0]
            /\ UNCHANGED <<files, accepted>>
       ELSE /\ copier' = [copier EXCEPT ![c].pc = "add", ![c].n = 1]
            /\ accepted' = accepted + 1
            /\ files' = [files EXCEPT ![ino] = Append(@, accepted + 1)]
    /\ UNCHANGED <<path, backups, rotations, writers, stream, pending, rot, follower, faults>>

(* Write returns; io.Copy ends with the first error and closes the pipe *)
Returned(c) == IF copier[c].n = 1 THEN "copy" ELSE "broken"

(* the bytes are added to the counter *)
Count(c) ==
    LET w == copier[c].w
        total == writers[w].bytesWritten + copier[c].n
    IN
    /\ copier[c].pc = "add"
    /\ writers' = [writers EXCEPT ![w].bytesWritten = total]
    /\ copier' = [copier EXCEPT ![c].pc = IF total >= MaxSize THEN "sub" ELSE Returned(c)]
    /\ UNCHANGED <<files, path, backups, rotations, stream, pending, rot, follower,
                   accepted, faults>>

(* variant: nothing is left over when the limit is reached exactly *)
Exceed_Strict(c) ==
    LET w == copier[c].w
        left == writers[w].bytesWritten - MaxSize
    IN
    /\ copier[c].pc = "sub"
    /\ writers' = [writers EXCEPT ![w].bytesWritten = left]
    /\ copier' = [copier EXCEPT ![c].pc = Returned(c)]
    /\ pending' = IF left > 0 THEN [pending EXCEPT ![c[1]] = @ + 1] ELSE pending
    /\ UNCHANGED <<files, path, backups, rotations, stream, rot, follower, accepted, faults>>

(* the limit is taken off again, and a goroutine is started unless another copier
   has taken it off first *)
Exceed(c) ==
    LET w == copier[c].w
        left == writers[w].bytesWritten - MaxSize
    IN
    /\ copier[c].pc = "sub"
    /\ writers' = [writers EXCEPT ![w].bytesWritten = left]
    /\ copier' = [copier EXCEPT ![c].pc = Returned(c)]
    /\ pending' = IF left >= 0 THEN [pending EXCEPT ![c[1]] = @ + 1] ELSE pending
    /\ UNCHANGED <<files, path, backups, rotations, stream, rot, follower, accepted, faults>>

(* the child exits and its pipe is drained *)
ChildExits(c) ==
    /\ copier[c].pc = "copy"
    /\ copier' = [copier EXCEPT ![c] = Done]
    /\ UNCHANGED <<files, path, backups, rotations, writers, stream, pending, rot, follower,
                   accepted, faults>>

-----------------------------------------------------------------------------
(* Start: GetProcessLogWriters and getOrCreateWriter up to the rotation.  The child of
   the Start before may still be writing: a Start that was overtaken by a Stop kills
   its child and does not wait for it. *)
GetWriter(p, i) ==
    LET c == <<p, i>> IN
    /\ rot = Idle
    /\ copier[c].pc = "none"
    /\ i > 1 => copier[<<p, i - 1>>].pc # "none"
    /\ IF stream[p] # 0 /\ ~Oversize
       THEN copier' = Handed(c, stream[p]) /\ UNCHANGED rot
       ELSE /\ rot' = [pc |-> IF stream[p] # 0 THEN "close"
                              ELSE IF Oversize THEN "rename" ELSE "open",
                       p |-> p, by |-> i]
            /\ UNCHANGED copier
    /\ UNCHANGED <<files, path, backups, rotations, writers, stream, pending, follower,
                   accepted, faults>>

(* the goroutine that onExceed started *)
RotateIfNeeded(p) ==
    /\ rot = Idle
    /\ pending[p] > 0
    /\ pending' = [pending EXCEPT ![p] = @ - 1]
    /\ rot' = IF stream[p] # 0 /\ Oversize THEN [pc |-> "close", p |-> p, by |-> 0] ELSE rot
    /\ UNCHANGED <<files, path, backups, rotations, writers, stream, copier, follower,
                   accepted, faults>>

(* the operation fails: a Start runs its child without the log *)
GiveUp ==
    /\ rot' = Idle
    /\ copier' = IF rot.by = 0 THEN copier
                 ELSE [copier EXCEPT ![<<rot.p, rot.by>>].pc = "unlogged"]

(* rotateLogByKey closes the file and lets go of writerMu *)
RotateClose ==
    /\ rot.pc = "close"
    /\ writers' = [writers EXCEPT ![stream[rot.p]].ino = 0]
    /\ rot' = [rot EXCEPT !.pc = "rename"]
    /\ UNCHANGED <<files, path, backups, rotations, stream, copier, pending, follower,
                   accepted, faults>>

RotateRename ==
    /\ rot.pc = "rename"
    /\ \/ /\ rotations' = rotations + 1
          /\ backups' = backups \cup {[ts |-> rotations', ino |-> path, gz |-> FALSE]}
          /\ path' = 0
          /\ rot' = [rot EXCEPT !.pc = "compress"]
          /\ UNCHANGED <<copier, faults>>
       \/ /\ Fault("rename")
          /\ GiveUp
          /\ UNCHANGED <<path, backups, rotations>>
    /\ UNCHANGED <<files, writers, stream, pending, follower, accepted>>

(* the file that was renamed, and the compressed copy of it that is made *)
Latest == CHOOSE b \in backups : b.ts = rotations /\ ~b.gz
Copy == [ts |-> rotations, ino |-> Len(files) + 1, gz |-> TRUE]
Leave(text) == backups' = backups \cup {Copy} /\ files' = Append(files, text)

(* variant: the source is removed even if the copy could not be created *)
CompressCopy_Removes ==
    /\ rot.pc = "compress"
    /\ \/ Leave(files[Latest.ino]) /\ UNCHANGED faults
       \/ Fault("compress") /\ UNCHANGED <<backups, files>>
    /\ rot' = [rot EXCEPT !.pc = "remove"]
    /\ UNCHANGED <<path, rotations, writers, stream, copier, pending, follower, accepted>>

(* compressLog up to gzWriter.Close.  It may fail before it creates the copy, or leave
   one that is cut short, of which nothing can be read.  Nobody looks at the copy
   meanwhile, but a crash may come at any point of it (see Crash). *)
CompressCopy ==
    /\ rot.pc = "compress"
    /\ \/ Leave(files[Latest.ino]) /\ rot' = [rot EXCEPT !.pc = "remove"] /\ UNCHANGED faults
       \/ /\ \/ Fault("compress") /\ UNCHANGED <<backups, files>>
             \/ Fault("torn") /\ Leave(<<>>)
          /\ rot' = [rot EXCEPT !.pc = "clean"]
    /\ UNCHANGED <<path, rotations, writers, stream, copier, pending, follower, accepted>>

(* compressLog removes the source, or fails to *)
CompressRemove ==
    /\ rot.pc = "remove"
    /\ \/ backups' = backups \ {Latest} /\ UNCHANGED faults
       \/ Fault("remove") /\ UNCHANGED backups
    /\ rot' = [rot EXCEPT !.pc = "clean"]
    /\ UNCHANGED <<files, path, rotations, writers, stream, copier, pending, follower,
                   accepted>>

(* cleanupBackups removes the oldest by the time in their names, equals in any order: a
   file and its copy count as two.  It ignores its errors. *)
CleanupBackups ==
    /\ rot.pc = "clean"
    /\ \/ /\ \E gone \in SUBSET backups :
               /\ Cardinality(gone) = IF Cardinality(backups) > BackupCount
                                      THEN Cardinality(backups) - BackupCount ELSE 0
               /\ \A x \in gone, y \in backups \ gone : x.ts <= y.ts
               /\ backups' = backups \ gone
          /\ UNCHANGED faults
       \/ Fault("remove") /\ UNCHANGED backups
    /\ rot' = [rot EXCEPT !.pc = "open"]
    /\ UNCHANGED <<files, path, rotations, writers, stream, copier, pending, follower,
                   accepted>>

(* a new file, or the one that is there, behind the stream's writer or behind a new one *)
OpenLog ==
    LET ino == IF path = 0 THEN Len(files) + 1 ELSE path
        w == IF stream[rot.p] = 0 THEN Len(writers) + 1 ELSE stream[rot.p]
    IN
    /\ rot.pc = "open"
    /\ \/ /\ files' = IF path = 0 THEN Append(files, <<>>) ELSE files
          /\ path' = ino
          /\ writers' = IF stream[rot.p] = 0
                        THEN Append(writers, [ino |-> ino, bytesWritten |-> 0])
                        ELSE [writers EXCEPT ![w].ino = ino]
          /\ stream' = [stream EXCEPT ![rot.p] = w]
          /\ copier' = IF rot.by = 0 THEN copier ELSE Handed(<<rot.p, rot.by>>, w)
          /\ rot' = Idle
          /\ UNCHANGED faults
       \/ /\ Fault("open")
          /\ GiveUp
          /\ UNCHANGED <<files, path, writers, stream>>
    /\ UNCHANGED <<backups, rotations, pending, follower, accepted>>

AllClosed == [i \in DOMAIN writers |-> [writers[i] EXCEPT !.ino = 0]]

(* Logger.Close, when main returns *)
Close ==
    /\ rot = Idle
    /\ Fault("close")
    /\ writers' = AllClosed
    /\ stream' = [p \in Processes |-> 0]
    /\ UNCHANGED <<files, path, backups, rotations, copier, pending, rot, follower, accepted>>

(* the supervisor is killed, perhaps while it compresses a file, and its successor finds
   the files *)
Crash ==
    /\ Fault("crash")
    /\ UNCHANGED <<backups, files>> \/ (rot.pc = "compress" /\ Leave(<<>>))
    /\ writers' = AllClosed
    /\ stream' = [p \in Processes |-> 0]
    /\ pending' = [p \in Processes |-> 0]
    /\ copier' = [c \in Copiers |-> IF copier[c].pc \in {"none", "done"} THEN copier[c]
                                    ELSE Done]
    /\ rot' = Idle
    /\ follower' = Away
    /\ UNCHANGED <<path, rotations, accepted>>

-----------------------------------------------------------------------------
(* handleProcessLogsStream *)

FollowerOnly == UNCHANGED <<files, path, backups, rotations, writers, stream, copier,
                            pending, rot, accepted, faults>>

(* variant: the file is read from its start *)
OpenedAt_Start(ino) == 0

(* openLog seeks to the end *)
OpenedAt(ino) == Len(files[ino])

FollowOpen ==
    /\ follower.pc = "away" /\ path # 0 /\ accepted < FollowLines
    /\ follower' = [Away EXCEPT !.pc = "stat", !.ino = path, !.off = OpenedAt(path)]
    /\ FollowerOnly

(* lastIno is read after the file was opened *)
FollowStat ==
    /\ follower.pc = "stat"
    /\ follower' = [follower EXCEPT !.pc = "tick", !.last = path]
    /\ FollowerOnly

(* one buffer of what the open file holds is sent *)
Sent ==
    LET text == files[follower.ino] IN
    IF follower.off = Len(text)
    THEN follower' = [follower EXCEPT !.pc = "tick"]
    ELSE \E end \in follower.off + 1 .. Len(text) :
            follower' = [follower EXCEPT !.pc = "tick", !.off = end, !.seen = text[end]]

(* A tick looks at the path and, if it is the file that is open, reads.  (Between the
   two the file may be rotated away, but then it does not grow.) *)
FollowTick ==
    /\ follower.pc = "tick"
    /\ IF path # 0 /\ path # follower.last
       THEN follower' = [follower EXCEPT !.pc = "reopen", !.want = path]
       ELSE Sent
    /\ FollowerOnly

(* the file at the path is opened, which need not be the one whose inode was read; the
   handler ends if there is none *)
FollowReopen ==
    /\ follower.pc = "reopen"
    /\ follower' = IF path = 0 THEN Away
                   ELSE [follower EXCEPT !.pc = "read", !.ino = path, !.off = OpenedAt(path),
                                         !.last = follower.want, !.want = 0]
    /\ FollowerOnly

FollowRead ==
    /\ follower.pc = "read"
    /\ Sent
    /\ FollowerOnly

FollowLeave ==
    /\ follower.pc = "tick"
    /\ follower' = Away
    /\ FollowerOnly

-----------------------------------------------------------------------------
Next ==
    \/ \E c \in Copiers : Write(c) \/ Count(c) \/ Exceed(c) \/ ChildExits(c)
    \/ \E p \in Processes, i \in 1 .. Starts : GetWriter(p, i)
    \/ \E p \in Processes : RotateIfNeeded(p)
    \/ RotateClose \/ RotateRename \/ CompressCopy \/ CompressRemove \/ CleanupBackups \/ OpenLog
    \/ Close \/ Crash
    \/ FollowOpen \/ FollowStat \/ FollowTick \/ FollowReopen \/ FollowRead \/ FollowLeave

Spec == Init /\ [][Next]_vars

-----------------------------------------------------------------------------
(* Properties *)

(* the files that make up the log, the lines they hold, and the order of two of them *)
Kept == {b.ino : b \in backups} \cup ({path} \ {0})
Held == UNION {ToSet(files[ino]) : ino \in Kept}
Before(f, g) == \A m \in ToSet(files[f]), n \in ToSet(files[g]) : m < n

(* Rotation loses and reorders nothing that was accepted: read from the oldest backup to
   the log file, the files hold the newest lines, in order and without a gap, and lines
   are missing only when there are as many backups as are to be kept.  No line is there
   twice, except that a file and its compressed copy may both be left.  So at every
   moment, with a crash at any point and each call of the file system failing, except
   that a compression that fails half-way, once its copy exists, is left out ("torn" is
   not in Faults): cleanupBackups may then keep the copy and remove the file. *)
LogIsSuffix ==
    /\ \A ino \in Kept : \A i, j \in DOMAIN files[ino] :
          i < j => files[ino][i] < files[ino][j]
    /\ \A x, y \in backups : x.ts < y.ts => Before(x.ino, y.ino)
    /\ \A x, y \in backups : x.ts = y.ts /\ x.gz /\ x # y =>
          ~y.gz /\ files[x.ino] \in {<<>>, files[y.ino]}
    /\ path # 0 => \A x \in backups : Before(x.ino, path)
    /\ \A n \in (Held \cup {accepted}) \ {0} : n .. accepted \subseteq Held
    /\ 1 .. accepted \subseteq Held \/ Cardinality(backups) >= BackupCount

(* The counter of bytes drifts from the size of the file: it runs on during a
   rotation, and two copiers may take the limit off twice.  However it drifts, a file
   that is written to does not stay unrotated at the limit times the number of copiers
   plus one. *)
Quiet == rot = Idle /\ \A p \in Processes : pending[p] = 0

SizeBound ==
    /\ Quiet
    /\ \A c \in Copiers : copier[c].pc \notin {"add", "sub"}
    /\ \E p \in Processes : stream[p] # 0 /\ writers[stream[p]].ino = path
    /\ path # 0
    => Len(files[path]) < (Starts + 1) * MaxSize - 1

(* A client that follows the log is shown each line at most once and in order, across
   rotations: what it has not read yet of the file it has open is newer than what it
   has seen. *)
FollowsInOrder ==
    follower.pc # "away" =>
        \A i \in DOMAIN files[follower.ino] :
            i > follower.off => files[follower.ino][i] > follower.seen

(* "preserve callers' io.Writer references": no write of a child's output fails. *)
WritesSucceed == \A c \in Copiers : copier[c].pc # "broken"

(* A stream has an open file whenever no operation of the logger is under way. *)
StreamOpen ==
    rot = Idle => \A p \in Processes : stream[p] # 0 => writers[stream[p]].ino # 0

(* A follower that believes it has the current file has it. *)
FollowsPath ==
    follower.pc \in {"tick", "read"} /\ path # 0 /\ follower.last = path =>
        follower.ino = path

(* A follower is shown every line. *)
FollowsAll ==
    follower.pc # "away" /\ follower.seen # 0 =>
        \A i \in DOMAIN files[follower.ino] :
            i = follower.off + 1 => files[follower.ino][i] = follower.seen + 1
=============================================================================
