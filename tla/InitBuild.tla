------------------------------ MODULE InitBuild ------------------------------
(***************************************************************************)
(* The initramfs builder (initbuild/initbuild.go): PackFilesToFile and its *)
(* callers PodInitrd and PackToFile write a gzipped cpio archive in place, *)
(* at a path another build may have open.                                  *)
(*                                                                         *)
(* The file is a row of cells, one per record of a stream.  A cell holds   *)
(* the records of its writer's stream up to it, since the bytes of a       *)
(* compressed stream depend on all that went before; two streams agree on  *)
(* a cell only when they agree up to it.                                   *)
(***************************************************************************)
EXTENDS Cpio, FiniteSets

CONSTANTS
  Builders,     \* the processes that may build at the one path
  Jobs,         \* what they may be asked for, a sequence of files each
  BodyLen,      \* BodyLen[s]: the bytes of the host file s
  Library,      \* the job of a program that uses package cpio by itself
  LibraryNames, \* the paths such a program writes
  MaxRecords    \* bound on the records it writes

\* A path is the sequence of its names, and a file has somewhere to lie.
ASSUME PathAssumption == \A n \in Names \ {Trailer} : n \in Seq(STRING) /\ n # << >>
ASSUME JobAssumption ==
  /\ BodyLen \in [DOMAIN BodyLen -> Nat]
  /\ \A job \in Jobs : \A i \in 1..Len(job) :
       /\ job[i].path \in Names \ {Trailer}
       /\ job[i].source \in DOMAIN BodyLen
       /\ job[i].mode \in Nat
       /\ \A k \in 1..Len(job[i].path) : SubSeq(job[i].path, 1, k) \in Names \ {Trailer}
  /\ \A job \in Jobs : job \in Seq([path : Names, source : DOMAIN BodyLen, mode : Nat])
  /\ Library \notin Jobs
ASSUME BuilderAssumption == Builders # {}
ASSUME LibraryAssumption == LibraryNames \subseteq Names /\ MaxRecords \in Nat

VARIABLES
  pc,           \* pc[b]: where the call of b stands, "idle" outside a call
  outcome,      \* outcome[b]: how the last call of b ended
  job,          \* job[b]: what the last call of b was asked for
  cw,           \* cw[b]: the cpio writer of b and all it wrote
  next,         \* next[b]: the file b packs next
  disk,         \* the cells of the file at dst
  alone         \* alone[b]: no other build had dst open since b opened it

vars == <<pc, outcome, job, cw, next, disk, alone>>

Stage == {"idle", "open", "dirs", "files", "library", "footer", "close",
          "abort", "failed"}
Footer == [kind |-> "footer", name |-> Trailer, mode |-> 0, at |-> 0, size |-> 0, len |-> 0]

TypeOK ==
  /\ pc \in [Builders -> Stage]
  /\ outcome \in [Builders -> {"none", "ok", "err", "crash"}]
  /\ job \in [Builders -> Jobs \cup {Library}]
  /\ cw \in [Builders -> Writer]
  /\ next \in [Builders -> Nat \ {0}]
  /\ disk \in Seq(Seq(Record))
  /\ alone \in [Builders -> BOOLEAN]

Init ==
  /\ pc = [b \in Builders |-> "idle"]
  /\ outcome = [b \in Builders |-> "none"]
  /\ job \in [Builders -> {Library}]
  /\ cw = [b \in Builders |-> NewWriter]
  /\ next = [b \in Builders |-> 1]
  /\ disk = << >>
  /\ alone = [b \in Builders |-> FALSE]

-----------------------------------------------------------------------------
(* What a job asks for.                                                    *)

\* parentDirs: the directories above a path, the shallowest first.
ParentDirs(path) == [k \in 1..Len(path) - 1 |-> SubSeq(path, 1, k)]
Mode(f) == IF f.mode = 0 THEN 493 ELSE f.mode

\* PodInitrd: the init, and the helpers that were given, in this order.
PodFiles(given) ==
  <<[path |-> <<"init">>, source |-> "init", mode |-> 0]>> \o
  [k \in 1..Len(given) |-> [path |-> <<"bin", given[k]>>, source |-> given[k], mode |-> 0]]
\* Pack: the init alone.
PackOne == <<[path |-> <<"init">>, source |-> "init", mode |-> 493]>>

Written(b, kind) == {r.name : r \in {cw[b].out[k] : k \in {i \in 1..Len(cw[b].out) :
                                        cw[b].out[i].kind = kind}}}
Seen(b) == Written(b, "dir")

\* Mutant: the directories in any order.
AnyUnseen(b, i, k) == ParentDirs(job[b][i].path)[k] \notin Seen(b)

\* The k-th directory above the i-th file is the first that is not yet seen.
FirstUnseen(b, i, k) ==
  LET unseen(j, n) == ParentDirs(job[b][j].path)[n] \notin Seen(b)
  IN  /\ unseen(i, k)
      /\ \A j \in 1..i : \A n \in 1..Len(job[b][j].path) - 1 :
           unseen(j, n) => j = i /\ n >= k
AllSeen(b) ==
  \A i \in 1..Len(job[b]) : \A k \in 1..Len(job[b][i].path) - 1 :
    ParentDirs(job[b][i].path)[k] \in Seen(b)

-----------------------------------------------------------------------------
At(b, stage) == pc[b] = stage
Goto(b, stage) ==
  /\ pc' = [pc EXCEPT ![b] = stage]
  /\ UNCHANGED <<outcome, job, alone>>
\* Mutant: the count of files starts at zero.
ReturnZero(b, how) ==
  /\ pc' = [pc EXCEPT ![b] = "idle"]
  /\ outcome' = [outcome EXCEPT ![b] = how]
  /\ cw' = [cw EXCEPT ![b] = NewWriter]
  /\ next' = [next EXCEPT ![b] = 0]
  /\ UNCHANGED <<job, disk, alone>>

Return(b, how) ==
  /\ pc' = [pc EXCEPT ![b] = "idle"]
  /\ outcome' = [outcome EXCEPT ![b] = how]
  /\ cw' = [cw EXCEPT ![b] = NewWriter]
  /\ next' = [next EXCEPT ![b] = 1]
  /\ UNCHANGED <<job, disk, alone>>

\* The cell of the last record of a stream, at the writer's own offset; what
\* a truncation took away before it reads as zeros.
Store(cells, stream) ==
  LET n == Len(stream)
  IN  [k \in 1..(IF Len(cells) > n THEN Len(cells) ELSE n) |->
         IF k = n THEN stream ELSE IF k <= Len(cells) THEN cells[k] ELSE << >>]

\* One more record reaches the file.
Emit(b, writer) ==
  /\ cw' = [cw EXCEPT ![b] = writer]
  /\ disk' = Store(disk, writer.out)

Call(b) ==
  /\ At(b, "idle")
  /\ \A q \in Builders : ~At(q, "library")
  /\ job' \in {[job EXCEPT ![b] = j] : j \in Jobs}
  /\ pc' = [pc EXCEPT ![b] = "open"]
  /\ outcome' = [outcome EXCEPT ![b] = "none"]
  /\ alone' = [alone EXCEPT ![b] = FALSE]
  /\ UNCHANGED <<cw, next, disk>>

\* Mutant: the file is opened without O_TRUNC.
OpenKeep(b) ==
  /\ At(b, "open")
  /\ pc' = [pc EXCEPT ![b] = "dirs"]
  /\ alone' = [q \in Builders |-> q = b /\ \A r \in Builders \ {b} : pc[r] \in {"idle", "open"}]
  /\ UNCHANGED <<outcome, job, cw, next, disk>>

\* OpenFile(O_TRUNC) in place: the file others have open loses its bytes.
Open(b) ==
  /\ At(b, "open")
  /\ pc' = [pc EXCEPT ![b] = "dirs"]
  /\ disk' = << >>
  /\ alone' = [q \in Builders |-> q = b /\ \A r \in Builders \ {b} : pc[r] \in {"idle", "open"}]
  /\ UNCHANGED <<outcome, job, cw, next>>

\* The first loop of PackFiles.
PackDir(b) ==
  /\ At(b, "dirs")
  /\ \E i \in 1..Len(job[b]) : \E k \in 1..Len(job[b][i].path) - 1 :
       /\ FirstUnseen(b, i, k)
       /\ Emit(b, WriteDir(cw[b], ParentDirs(job[b][i].path)[k], 493))
  /\ Goto(b, "dirs") /\ UNCHANGED next

\* The second loop; ReadFile takes the source as it is now.
PackFile(b) ==
  /\ pc[b] \in {"dirs", "files"}
  /\ AllSeen(b)
  /\ next[b] <= Len(job[b])
  /\ LET f == job[b][next[b]]
     IN  Emit(b, WriteFile(cw[b], f.path, Mode(f), BodyLen[f.source]))
  /\ next' = [next EXCEPT ![b] = @ + 1]
  /\ Goto(b, "files")

\* cw.Close
CloseCpio(b) ==
  /\ pc[b] \in {"dirs", "files"}
  /\ AllSeen(b)
  /\ next[b] > Len(job[b])
  /\ Emit(b, Close(cw[b]))
  /\ Goto(b, "footer") /\ UNCHANGED next

\* gz.Close writes the footer.
CloseGzip(b) ==
  /\ At(b, "footer")
  /\ Emit(b, [cw[b] EXCEPT !.out = Append(@, Footer)])
  /\ Goto(b, "close") /\ UNCHANGED next

\* f.Close, in the deferred function.
CloseFile(b) == At(b, "close") /\ Return(b, "ok")

FailOpen(b) == At(b, "open") /\ Return(b, "err")

\* A source that cannot be read: the trailer and the footer are still written.
FailRead(b) ==
  /\ pc[b] \in {"dirs", "files"}
  /\ AllSeen(b)
  /\ next[b] <= Len(job[b])
  /\ Emit(b, Close(cw[b]))
  /\ Goto(b, "abort") /\ UNCHANGED next

AbortGzip(b) ==
  /\ At(b, "abort")
  /\ Emit(b, [cw[b] EXCEPT !.out = Append(@, Footer)])
  /\ Goto(b, "failed") /\ UNCHANGED next

\* Mutant: the error that ended the build is lost.
CloseQuiet(b) == At(b, "failed") /\ Return(b, "ok")
CloseFailed(b) == At(b, "failed") /\ Return(b, "err")

\* A write to the file fails, or its close does.  The compressor keeps the
\* error and lets nothing more through, the trailer and the footer included.
FailWrite(b) ==
  /\ pc[b] \in {"dirs", "files", "library", "footer", "close", "abort"}
  /\ Return(b, "err")

Crash(b) ==
  /\ ~At(b, "idle")
  /\ Return(b, "crash")

-----------------------------------------------------------------------------
(* A program that calls the writer itself, in any order.  It writes to a   *)
(* file of its own, so its steps commute with those of a build and are     *)
(* taken only while none runs.                                             *)

LibraryStart(b) ==
  /\ \A q \in Builders : At(q, "idle")
  /\ pc' = [pc EXCEPT ![b] = "library"]
  /\ outcome' = [outcome EXCEPT ![b] = "none"]
  /\ job' = [job EXCEPT ![b] = Library]
  /\ UNCHANGED <<cw, next, disk, alone>>

LibraryWrite(b) ==
  /\ At(b, "library")
  /\ Len(cw[b].out) < MaxRecords
  /\ \E name \in LibraryNames :
       \/ \E s \in DOMAIN BodyLen :
            cw' = [cw EXCEPT ![b] = WriteFile(@, name, 420, BodyLen[s])]
       \/ cw' = [cw EXCEPT ![b] = WriteDir(@, name, 493)]
       \/ \E target \in LibraryNames :
            cw' = [cw EXCEPT ![b] = WriteSymlink(@, name, target, 511)]
       \/ cw' = [cw EXCEPT ![b] = WriteNod(@, name, 438)]
  /\ Goto(b, "library") /\ UNCHANGED <<next, disk>>

LibraryClose(b) ==
  /\ At(b, "library")
  /\ cw' = [cw EXCEPT ![b] = Close(@)]
  /\ Goto(b, "close") /\ UNCHANGED <<next, disk>>

Step(b) ==
  \/ Call(b) \/ Open(b) \/ PackDir(b) \/ PackFile(b)
  \/ CloseCpio(b) \/ CloseGzip(b) \/ CloseFile(b)
  \/ FailOpen(b) \/ FailRead(b) \/ AbortGzip(b) \/ CloseFailed(b) \/ FailWrite(b) \/ Crash(b)
  \/ LibraryStart(b) \/ LibraryWrite(b) \/ LibraryClose(b)

Next == \E b \in Builders : Step(b)

Spec == Init /\ [][Next]_vars

-----------------------------------------------------------------------------
(* What holds.                                                             *)

\* While every body is shorter than the size field can say, a reader that goes
\* by the declared sizes meets every header the writer wrote, whoever calls the
\* writer and in whatever order (cpio.go, WriteFile to pad4).
HeadersFound == \A b \in Builders : Fits(cw[b].out) => Walks(cw[b].out)

\* A directory is written once, and before all that lies in it (PackFiles).
Ordered(stream) ==
  \A k \in 1..Len(stream) :
    /\ stream[k].kind \in {"dir", "file"} =>
         \A n \in 1..Len(stream[k].name) - 1 : \E j \in 1..k - 1 :
           stream[j].kind = "dir" /\ stream[j].name = SubSeq(stream[k].name, 1, n)
    /\ stream[k].kind = "dir" =>
         \A j \in 1..k - 1 : stream[j].kind = "dir" => stream[j].name # stream[k].name

\* At every moment of a build, so after a failure at any of them, what has gone
\* out is a row of records the kernel can create in the order it meets them.
ParentsFirst == \A b \in Builders : job[b] # Library => Ordered(cw[b].out)

\* The cells are those of one whole stream.
OneStream(cells) ==
  /\ cells # << >>
  /\ \A k \in 1..Len(cells) : cells[k] = SubSeq(cells[Len(cells)], 1, k)
  /\ Len(cells) >= 2
  /\ cells[Len(cells)][Len(cells)].kind = "footer"
  /\ cells[Len(cells)][Len(cells) - 1].kind = "end"

\* The archive of a job: its files in order, each whole, with the right mode.
Packed(files, cells) ==
  /\ OneStream(cells)
  /\ LET stream == cells[Len(cells)]
         first == Len(stream) - Len(files) - 2
     IN  /\ Ordered(stream)
         /\ first >= 0
         /\ \A k \in 1..first : stream[k].kind = "dir"
         /\ \A i \in 1..Len(files) :
              /\ stream[first + i].kind = "file"
              /\ stream[first + i].name = files[i].path
              /\ stream[first + i].mode = Mode(files[i])
              /\ stream[first + i].len = BodyLen[files[i].source]

\* When PackFilesToFile returns nil and nobody else opened dst meanwhile, dst is
\* the archive that was asked for: no failure on the way is taken for success.
OkMeansPacked ==
  \A b \in Builders : outcome[b] = "ok" /\ alone[b] /\ job[b] # Library =>
    Packed(job[b], disk)

\* Builds of one job that overlap at one path tear the file in between, but once
\* all of them have returned nil it is the archive.
OverlapConverges ==
  \A j \in Jobs :
    (\A b \in Builders : At(b, "idle") /\ outcome[b] = "ok" /\ job[b] = j) => Packed(j, disk)
=============================================================================
