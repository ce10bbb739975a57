--------------------------- MODULE InitBuildProofs ---------------------------
(***************************************************************************)
(* The archive for any jobs, bodies and builders: a reader that goes by    *)
(* the declared sizes meets every header; directories precede what lies in *)
(* them, whatever fails or is killed; a build that returns nil and was     *)
(* alone has packed its job; and builds of one job that overlap converge.  *)
(***************************************************************************)
EXTENDS InitBuild, NatLemmas

\* ---------------------------------------------------------------------------
\* The writer.

LEMMA PadType == ASSUME NEW pos \in Nat, NEW n \in {4, 512} PROVE Pad(pos, n) \in Nat
BY DEF Pad

LEMMA EndType ==
  ASSUME NEW pos \in Nat, NEW name \in Names, NEW len \in Nat
  PROVE  HeaderEnd(pos, name) \in Nat /\ BodyEnd(pos, len) \in Nat
<1>1. NameLen[name] \in Nat
  BY NameAssumption
<1>2. pos + FixedLen + NameLen[name] + 1 \in Nat /\ pos + len \in Nat
  BY <1>1 DEF FixedLen
<1>3. QED
  BY <1>2, PadType DEF HeaderEnd, BodyEnd

LEMMA WrapType == ASSUME NEW len \in Nat PROVE len % Wrap \in Nat /\ (len < Wrap => len % Wrap = len)
BY WrapAssumption

LEMMA PutType ==
  ASSUME NEW w \in Writer, NEW kind \in Kind, NEW name \in Names, NEW mode \in Nat, NEW len \in Nat
  PROVE  Put(w, kind, name, mode, len) \in Writer
<1>1. w.pos \in Nat /\ w.out \in Seq(Record)
  BY DEF Writer
<1>2. BodyEnd(HeaderEnd(w.pos, name), len) \in Nat
  BY <1>1, EndType
<1>3. [kind |-> kind, name |-> name, mode |-> mode,
       at |-> w.pos, size |-> len % Wrap, len |-> len] \in Record
  BY <1>1, WrapType DEF Record
<1>4. QED
  BY <1>1, <1>2, <1>3 DEF Put, Writer

LEMMA CloseType == ASSUME NEW w \in Writer PROVE Close(w) \in Writer
<1>1. Put(w, "end", Trailer, 0, 0) \in Writer
  BY PutType, NameAssumption DEF Kind
<1>2. QED
  BY <1>1, PadType DEF Close, Writer

\* ---------------------------------------------------------------------------
\* Types.

LEMMA FileType ==
  ASSUME TypeOK, NEW b \in Builders, job[b] # Library, NEW i \in 1..Len(job[b])
  PROVE  /\ job[b][i].path \in Names /\ job[b][i].path \in Seq(STRING)
         /\ job[b][i].mode \in Nat /\ BodyLen[job[b][i].source] \in Nat
         /\ \A k \in 1..Len(job[b][i].path) - 1 : ParentDirs(job[b][i].path)[k] \in Names
<1>1. job[b] \in Jobs
  BY DEF TypeOK
<1>2. /\ job[b][i].path \in Names \ {Trailer} /\ job[b][i].mode \in Nat
      /\ job[b][i].source \in DOMAIN BodyLen
      /\ \A k \in 1..Len(job[b][i].path) : SubSeq(job[b][i].path, 1, k) \in Names \ {Trailer}
  BY <1>1, JobAssumption
<1>3. job[b][i].path \in Seq(STRING) /\ Len(job[b][i].path) \in Nat
  BY <1>2, PathAssumption
<1>4. BodyLen[job[b][i].source] \in Nat
  BY <1>2, JobAssumption
<1>5. QED
  BY <1>2, <1>3, <1>4 DEF ParentDirs

\* A build that is past its call was asked for one of the jobs.
Asking == \A b \in Builders : pc[b] \in {"open", "dirs", "files"} => job[b] \in Jobs
TypeInv == TypeOK /\ Asking

LEMMA StoreType ==
  ASSUME NEW cells \in Seq(Seq(Record)), NEW stream \in Seq(Record)
  PROVE  Store(cells, stream) \in Seq(Seq(Record))
<1> DEFINE n == Len(stream)
           m == IF Len(cells) > n THEN Len(cells) ELSE n
<1>1. n \in Nat /\ m \in Nat
  OBVIOUS
<1>2. \A k \in 1..m : (IF k = n THEN stream ELSE IF k <= Len(cells) THEN cells[k] ELSE << >>)
                        \in Seq(Record)
  BY <1>1
<1>3. [k \in 1..m |-> IF k = n THEN stream ELSE IF k <= Len(cells) THEN cells[k] ELSE << >>]
        \in Seq(Seq(Record))
  BY <1>1, <1>2
<1>4. QED
  BY <1>3 DEF Store

\* A step that writes: the writer and the file keep their types.
LEMMA EmitType ==
  ASSUME TypeOK, NEW b \in Builders, NEW w \in Writer, Emit(b, w)
  PROVE  cw' \in [Builders -> Writer] /\ disk' \in Seq(Seq(Record))
<1>1. w.out \in Seq(Record)
  BY DEF Writer
<1>2. disk' \in Seq(Seq(Record))
  BY <1>1, StoreType DEF Emit, TypeOK
<1>3. QED
  BY <1>2 DEF Emit, TypeOK

LEMMA NewWriterType == NewWriter \in Writer
BY DEF NewWriter, Writer

LEMMA FooterType == ASSUME NEW w \in Writer PROVE [w EXCEPT !.out = Append(@, Footer)] \in Writer
<1>1. Footer \in Record
  BY NameAssumption DEF Footer, Record, Kind
<1>2. QED
  BY <1>1 DEF Writer

LEMMA ReturnType ==
  ASSUME TypeInv, NEW b \in Builders, NEW how \in {"ok", "err", "crash"}, Return(b, how)
  PROVE  TypeInv'
BY NewWriterType DEF TypeInv, TypeOK, Asking, Return, Stage

\* What each writing step writes.
LEMMA DirType ==
  ASSUME TypeInv, NEW b \in Builders, pc[b] = "dirs"
  PROVE  \A i \in 1..Len(job[b]) : \A k \in 1..Len(job[b][i].path) - 1 :
           /\ ParentDirs(job[b][i].path)[k] \in Names
           /\ WriteDir(cw[b], ParentDirs(job[b][i].path)[k], 493) \in Writer
<1> TAKE i \in 1..Len(job[b])
<1> TAKE k \in 1..Len(job[b][i].path) - 1
<1>1. job[b] # Library
  BY JobAssumption DEF TypeInv, Asking
<1>2. ParentDirs(job[b][i].path)[k] \in Names
  BY <1>1, FileType DEF TypeInv
<1>3. cw[b] \in Writer
  BY DEF TypeInv, TypeOK
<1>4. QED
  BY <1>2, <1>3, PutType DEF WriteDir, Kind

LEMMA NextType ==
  ASSUME TypeInv, NEW b \in Builders, pc[b] \in {"dirs", "files"}, next[b] <= Len(job[b])
  PROVE  /\ next[b] \in 1..Len(job[b])
         /\ LET f == job[b][next[b]]
            IN  WriteFile(cw[b], f.path, Mode(f), BodyLen[f.source]) \in Writer
<1>1. job[b] \in Jobs /\ job[b] # Library
  BY JobAssumption DEF TypeInv, Asking
<1>2. next[b] \in Nat \ {0} /\ Len(job[b]) \in Nat
  BY <1>1, JobAssumption DEF TypeInv, TypeOK
<1>3. next[b] \in 1..Len(job[b])
  BY <1>2
<1> DEFINE f == job[b][next[b]]
<1>4. f.path \in Names /\ f.mode \in Nat /\ BodyLen[f.source] \in Nat
  BY <1>1, <1>3, FileType DEF TypeInv
<1>5. Mode(f) \in Nat
  BY <1>4 DEF Mode
<1>6. cw[b] \in Writer
  BY DEF TypeInv, TypeOK
<1>7. WriteFile(cw[b], f.path, Mode(f), BodyLen[f.source]) \in Writer
  BY <1>4, <1>5, <1>6, PutType DEF WriteFile, Kind
<1>8. QED
  BY <1>3, <1>7

LEMMA LibraryType ==
  ASSUME TypeInv, NEW b \in Builders, LibraryWrite(b)
  PROVE  cw' \in [Builders -> Writer]
<1>1. cw[b] \in Writer /\ cw \in [Builders -> Writer]
  BY DEF TypeInv, TypeOK
<1>2. PICK name \in LibraryNames :
       \/ \E s \in DOMAIN BodyLen :
            cw' = [cw EXCEPT ![b] = WriteFile(@, name, 420, BodyLen[s])]
       \/ cw' = [cw EXCEPT ![b] = WriteDir(@, name, 493)]
       \/ \E target \in LibraryNames :
            cw' = [cw EXCEPT ![b] = WriteSymlink(@, name, target, 511)]
       \/ cw' = [cw EXCEPT ![b] = WriteNod(@, name, 438)]
  BY DEF LibraryWrite
<1>3. name \in Names
  BY LibraryAssumption
<1>4. \A s \in DOMAIN BodyLen : WriteFile(cw[b], name, 420, BodyLen[s]) \in Writer
  <2>1. \A s \in DOMAIN BodyLen : BodyLen[s] \in Nat
    BY JobAssumption
  <2>2. QED
    BY <1>1, <1>3, <2>1, PutType DEF WriteFile, Kind
<1>5. WriteDir(cw[b], name, 493) \in Writer /\ WriteNod(cw[b], name, 438) \in Writer
  BY <1>1, <1>3, PutType DEF WriteDir, WriteNod, Kind
<1>6. \A target \in LibraryNames : WriteSymlink(cw[b], name, target, 511) \in Writer
  BY <1>1, <1>3, LibraryAssumption, NameAssumption, PutType DEF WriteSymlink, Kind
<1>7. QED
  BY <1>1, <1>2, <1>4, <1>5, <1>6

LEMMA TypeStep == TypeInv /\ [Next]_vars => TypeInv'
<1> SUFFICES ASSUME TypeInv, [Next]_vars PROVE TypeInv'
  OBVIOUS
<1>1. CASE UNCHANGED vars
  BY <1>1 DEF TypeInv, TypeOK, Asking, vars
<1>2. ASSUME NEW b \in Builders, Step(b) PROVE TypeInv'
  <2>1. CASE Call(b)
    BY <2>1 DEF Call, TypeInv, TypeOK, Asking, Stage
  <2>2. CASE Open(b)
    <3>1. disk' \in Seq(Seq(Record))
      BY <2>2 DEF Open
    <3>2. QED
      BY <2>2, <3>1 DEF Open, At, TypeInv, TypeOK, Asking, Stage
  <2>3. CASE PackDir(b)
    <3>1. PICK i \in 1..Len(job[b]) : \E k \in 1..Len(job[b][i].path) - 1 :
             Emit(b, WriteDir(cw[b], ParentDirs(job[b][i].path)[k], 493))
      BY <2>3 DEF PackDir
    <3>2. PICK k \in 1..Len(job[b][i].path) - 1 :
             Emit(b, WriteDir(cw[b], ParentDirs(job[b][i].path)[k], 493))
      BY <3>1
    <3> DEFINE w == WriteDir(cw[b], ParentDirs(job[b][i].path)[k], 493)
    <3>p. pc[b] = "dirs"
      BY <2>3 DEF PackDir, At
    <3>w. w \in Writer
      BY <3>p, DirType
    <3>e. Emit(b, w)
      BY <3>2
    <3> HIDE DEF w
    <3>3. cw' \in [Builders -> Writer] /\ disk' \in Seq(Seq(Record))
      BY <3>w, <3>e, EmitType DEF TypeInv
    <3>4. QED
      BY <2>3, <3>3 DEF PackDir, At, Goto, TypeInv, TypeOK, Asking, Stage
  <2>4. CASE PackFile(b)
    <3>1. cw' \in [Builders -> Writer] /\ disk' \in Seq(Seq(Record))
      BY <2>4, NextType, EmitType DEF PackFile, TypeInv
    <3>2. next' \in [Builders -> Nat \ {0}]
      BY <2>4 DEF PackFile, TypeInv, TypeOK
    <3>3. QED
      BY <2>4, <3>1, <3>2 DEF PackFile, Goto, TypeInv, TypeOK, Asking, Stage
  <2>5. CASE CloseCpio(b) \/ FailRead(b)
    <3>1. cw[b] \in Writer
      BY DEF TypeInv, TypeOK
    <3>2. Emit(b, Close(cw[b]))
      BY <2>5 DEF CloseCpio, FailRead
    <3>3. cw' \in [Builders -> Writer] /\ disk' \in Seq(Seq(Record))
      BY <3>1, <3>2, CloseType, EmitType DEF TypeInv
    <3>4. QED
      BY <2>5, <3>3 DEF CloseCpio, FailRead, Goto, TypeInv, TypeOK, Asking, Stage
  <2>6. CASE CloseGzip(b) \/ AbortGzip(b)
    <3>1. cw[b] \in Writer
      BY DEF TypeInv, TypeOK
    <3>2. Emit(b, [cw[b] EXCEPT !.out = Append(@, Footer)])
      BY <2>6 DEF CloseGzip, AbortGzip
    <3>3. cw' \in [Builders -> Writer] /\ disk' \in Seq(Seq(Record))
      BY <3>1, <3>2, FooterType, EmitType DEF TypeInv
    <3>4. QED
      BY <2>6, <3>3 DEF CloseGzip, AbortGzip, Goto, TypeInv, TypeOK, Asking, Stage
  <2>7. CASE CloseFile(b) \/ FailOpen(b) \/ CloseFailed(b) \/ FailWrite(b) \/ Crash(b)
    BY <2>7, ReturnType DEF CloseFile, FailOpen, CloseFailed, FailWrite, Crash
  <2>8. CASE LibraryStart(b)
    BY <2>8 DEF LibraryStart, TypeInv, TypeOK, Asking, Stage
  <2>9. CASE LibraryWrite(b)
    <3>1. cw' \in [Builders -> Writer]
      BY <2>9, LibraryType
    <3>2. QED
      BY <2>9, <3>1 DEF LibraryWrite, At, Goto, TypeInv, TypeOK, Asking, Stage
  <2>10. CASE LibraryClose(b)
    <3>1. cw[b] \in Writer
      BY DEF TypeInv, TypeOK
    <3>2. Close(cw[b]) \in Writer
      BY <3>1, CloseType
    <3>3. cw' \in [Builders -> Writer]
      BY <2>10, <3>2 DEF LibraryClose, TypeInv, TypeOK
    <3>4. QED
      BY <2>10, <3>3 DEF LibraryClose, At, Goto, TypeInv, TypeOK, Asking, Stage
  <2>11. QED
    BY <1>2, <2>1, <2>2, <2>3, <2>4, <2>5, <2>6, <2>7, <2>8, <2>9, <2>10 DEF Step
<1>3. QED
  BY <1>1, <1>2 DEF Next

LEMMA TypeInit == Init => TypeInv
BY NewWriterType DEF Init, TypeInv, TypeOK, Asking, Stage

LEMMA TypeAlways == Spec => []TypeInv
BY TypeInit, TypeStep, PTL DEF Spec

\* Every variable keeps its type.
THEOREM TypeCorrect == Spec => []TypeOK
<1>1. TypeInv => TypeOK
  BY DEF TypeInv
<1>2. QED
  BY <1>1, TypeAlways, PTL

\* ---------------------------------------------------------------------------
\* The walk.

\* Nothing ends the archive of w yet.
Unended(w) == w.out # << >> => w.out[Len(w.out)].kind \notin {"end", "footer"}
\* The next header goes where a reader will look for it.
Placed(w) ==
  Fits(w.out) =>
    /\ Walks(w.out)
    /\ Unended(w) => w.pos = IF w.out = << >> THEN 0 ELSE NextHeader(w.out[Len(w.out)])

LEMMA FitsAppend ==
  ASSUME NEW out \in Seq(Record), NEW r, Fits(Append(out, r))
  PROVE  Fits(out) /\ r.len < Wrap
<1>1. Len(Append(out, r)) = Len(out) + 1 /\ Append(out, r)[Len(out) + 1] = r
  OBVIOUS
<1>2. r.len < Wrap
  BY <1>1 DEF Fits
<1>3. ASSUME NEW k \in 1..Len(out) PROVE out[k].len < Wrap
  <2>1. Append(out, r)[k] = out[k] /\ k \in 1..Len(Append(out, r))
    BY <1>1
  <2>2. QED
    BY <2>1 DEF Fits
<1>4. QED
  BY <1>2, <1>3 DEF Fits

LEMMA WalksAppend ==
  ASSUME NEW out \in Seq(Record), NEW r, Walks(out),
         r.kind # "footer" => r.at = IF out = << >> THEN 0 ELSE NextHeader(out[Len(out)])
  PROVE  Walks(Append(out, r))
<1> DEFINE all == Append(out, r)
<1>1. Len(all) = Len(out) + 1 /\ all[Len(out) + 1] = r
      /\ \A k \in 1..Len(out) : all[k] = out[k]
  OBVIOUS
<1>2. SUFFICES ASSUME NEW k \in 1..Len(all), all[k].kind # "footer"
               PROVE  all[k].at = IF k = 1 THEN 0 ELSE NextHeader(all[k - 1])
  BY DEF Walks
<1>3. CASE k \in 1..Len(out)
  <2>1. out[k].at = IF k = 1 THEN 0 ELSE NextHeader(out[k - 1])
    BY <1>1, <1>2, <1>3 DEF Walks
  <2>2. k # 1 => all[k - 1] = out[k - 1]
    BY <1>1, <1>3
  <2>3. QED
    BY <1>1, <1>3, <2>1, <2>2
<1>4. CASE k = Len(out) + 1
  <2>1. all[k] = r /\ (k = 1 <=> out = << >>) /\ (k # 1 => all[k - 1] = out[Len(out)])
    BY <1>1, <1>4
  <2>2. QED
    BY <1>2, <2>1
<1>5. QED
  BY <1>1, <1>2, <1>3, <1>4

\* A record where the writer stands keeps the walk, and the writer then stands
\* where the sizes it declared lead.
LEMMA PutPlaced ==
  ASSUME NEW w \in Writer, NEW kind \in Kind \ {"footer"}, NEW name \in Names, NEW mode \in Nat,
         NEW len \in Nat, Placed(w), Unended(w)
  PROVE  Placed(Put(w, kind, name, mode, len))
<1> DEFINE r == [kind |-> kind, name |-> name, mode |-> mode,
                 at |-> w.pos, size |-> len % Wrap, len |-> len]
           p == Put(w, kind, name, mode, len)
<1>1. w.out \in Seq(Record) /\ p.out = Append(w.out, r)
      /\ p.pos = BodyEnd(HeaderEnd(w.pos, name), len)
  BY DEF Writer, Put
<1>2. SUFFICES ASSUME Fits(p.out)
               PROVE  /\ Walks(p.out)
                      /\ p.pos = IF p.out = << >> THEN 0 ELSE NextHeader(p.out[Len(p.out)])
  BY DEF Placed
<1>3. Fits(w.out) /\ r.len < Wrap
  BY <1>1, <1>2, FitsAppend
<1>4. Walks(w.out) /\ w.pos = IF w.out = << >> THEN 0 ELSE NextHeader(w.out[Len(w.out)])
  BY <1>3 DEF Placed
<1>5. Walks(p.out)
  <2>1. r.at = w.pos
    OBVIOUS
  <2>2. QED
    BY <1>1, <1>4, <2>1, WalksAppend
<1>6. p.out # << >> /\ p.out[Len(p.out)] = r
  <2>1. Len(Append(w.out, r)) = Len(w.out) + 1 /\ Append(w.out, r)[Len(w.out) + 1] = r
    BY <1>1
  <2>2. QED
    BY <1>1, <2>1
<1>7. r.size = len
  BY <1>3, WrapType
<1>8. NextHeader(r) = p.pos
  BY <1>1, <1>7 DEF NextHeader
<1>9. QED
  BY <1>5, <1>6, <1>8

LEMMA PutUnended ==
  ASSUME NEW w \in Writer, NEW kind \in Kind \ {"end", "footer"}, NEW name, NEW mode, NEW len
  PROVE  Unended(Put(w, kind, name, mode, len))
<1> DEFINE r == [kind |-> kind, name |-> name, mode |-> mode,
                 at |-> w.pos, size |-> len % Wrap, len |-> len]
<1>1. w.out \in Seq(Record)
  BY DEF Writer
<1>2. Append(w.out, r)[Len(Append(w.out, r))] = r
  BY <1>1
<1>3. QED
  BY <1>2 DEF Unended, Put

LEMMA ClosePlaced ==
  ASSUME NEW w \in Writer, Placed(w), Unended(w)
  PROVE  Placed(Close(w))
<1> DEFINE end == Put(w, "end", Trailer, 0, 0)
<1>1. Placed(end)
  BY PutPlaced, NameAssumption DEF Kind
<1>2. Close(w).out = end.out
  BY DEF Close, Put
<1>3. end.out # << >> /\ end.out[Len(end.out)].kind = "end"
  BY DEF Put, Writer
<1>4. ~Unended(Close(w))
  BY <1>2, <1>3 DEF Unended
<1>5. QED
  BY <1>1, <1>2, <1>4 DEF Placed

LEMMA FooterPlaced ==
  ASSUME NEW w \in Writer, Placed(w)
  PROVE  Placed([w EXCEPT !.out = Append(@, Footer)])
<1> DEFINE f == [w EXCEPT !.out = Append(@, Footer)]
<1>1. w.out \in Seq(Record) /\ f.out = Append(w.out, Footer)
  BY DEF Writer
<1>2. ~Unended(f)
  BY <1>1 DEF Unended, Footer
<1>3. ASSUME Fits(f.out) PROVE Walks(f.out)
  <2>1. Walks(w.out)
    BY <1>1, <1>3, FitsAppend DEF Placed
  <2>2. Footer.kind = "footer"
    BY DEF Footer
  <2>3. QED
    BY <1>1, <2>1, <2>2, WalksAppend
<1>4. QED
  BY <1>2, <1>3 DEF Placed

LEMMA NewPlaced == Placed(NewWriter) /\ Unended(NewWriter)
BY DEF Placed, Unended, NewWriter, Walks

\* The writer of every build, by the stage the build is in.
Writing ==
  \A b \in Builders :
    /\ Placed(cw[b])
    /\ pc[b] \in {"idle", "open"} => cw[b] = NewWriter
    /\ pc[b] \in {"dirs", "files", "library"} => Unended(cw[b])

\* One call moves on with a writer that is still in order.
LEMMA WritingStep ==
  ASSUME TypeOK, Writing, NEW b \in Builders, NEW w, NEW stage,
         cw' = [cw EXCEPT ![b] = w], pc' = [pc EXCEPT ![b] = stage],
         Placed(w), stage \notin {"idle", "open"},
         stage \in {"dirs", "files", "library"} => Unended(w)
  PROVE  Writing'
BY DEF TypeOK, Writing

LEMMA ReturnWriting ==
  ASSUME TypeOK, Writing, NEW b \in Builders, NEW how, Return(b, how)
  PROVE  Writing'
BY NewPlaced DEF TypeOK, Writing, Return

LEMMA LibraryPlaced ==
  ASSUME TypeInv, Writing, NEW b \in Builders, LibraryWrite(b)
  PROVE  \E w \in Writer : cw' = [cw EXCEPT ![b] = w] /\ Placed(w) /\ Unended(w)
<1>1. cw[b] \in Writer /\ Placed(cw[b]) /\ Unended(cw[b])
  BY DEF TypeInv, TypeOK, Writing, LibraryWrite, At
<1>2. PICK name \in LibraryNames :
       \/ \E s \in DOMAIN BodyLen :
            cw' = [cw EXCEPT ![b] = WriteFile(@, name, 420, BodyLen[s])]
       \/ cw' = [cw EXCEPT ![b] = WriteDir(@, name, 493)]
       \/ \E target \in LibraryNames :
            cw' = [cw EXCEPT ![b] = WriteSymlink(@, name, target, 511)]
       \/ cw' = [cw EXCEPT ![b] = WriteNod(@, name, 438)]
  BY DEF LibraryWrite
<1>3. name \in Names
  BY LibraryAssumption
<1>4. ASSUME NEW kind \in {"dir", "file", "link", "node"}, NEW mode \in Nat, NEW len \in Nat
      PROVE  LET w == Put(cw[b], kind, name, mode, len)
             IN  w \in Writer /\ Placed(w) /\ Unended(w)
  <2>1. kind \in Kind \ {"end", "footer"}
    BY DEF Kind
  <2>2. Put(cw[b], kind, name, mode, len) \in Writer
    BY <1>1, <1>3, <2>1, PutType
  <2>3. Placed(Put(cw[b], kind, name, mode, len)) /\ Unended(Put(cw[b], kind, name, mode, len))
    BY <1>1, <1>3, <2>1, PutPlaced, PutUnended
  <2>4. QED
    BY <2>2, <2>3
<1> DEFINE Good(w) == cw' = [cw EXCEPT ![b] = w] /\ Placed(w) /\ Unended(w)
<1>5. ASSUME NEW s \in DOMAIN BodyLen, cw' = [cw EXCEPT ![b] = WriteFile(@, name, 420, BodyLen[s])]
      PROVE  \E w \in Writer : Good(w)
  <2>1. BodyLen[s] \in Nat
    BY JobAssumption
  <2> DEFINE w == Put(cw[b], "file", name, 420, BodyLen[s])
  <2>2. w \in Writer /\ Placed(w) /\ Unended(w)
    BY <1>4, <2>1
  <2>3. cw' = [cw EXCEPT ![b] = w]
    BY <1>5 DEF WriteFile
  <2>4. Good(w)
    BY <2>2, <2>3
  <2>5. QED
    BY <2>2, <2>4
<1>6. CASE cw' = [cw EXCEPT ![b] = WriteDir(@, name, 493)]
  <2> DEFINE w == Put(cw[b], "dir", name, 493, 0)
  <2>1. w \in Writer /\ Placed(w) /\ Unended(w)
    BY <1>4
  <2>2. Good(w)
    BY <1>6, <2>1 DEF WriteDir
  <2>3. QED
    BY <2>1, <2>2
<1>7. ASSUME NEW target \in LibraryNames,
             cw' = [cw EXCEPT ![b] = WriteSymlink(@, name, target, 511)]
      PROVE  \E w \in Writer : Good(w)
  <2>1. NameLen[target] \in Nat
    BY LibraryAssumption, NameAssumption
  <2> DEFINE w == Put(cw[b], "link", name, 511, NameLen[target])
  <2>2. w \in Writer /\ Placed(w) /\ Unended(w)
    BY <1>4, <2>1
  <2>3. Good(w)
    BY <1>7, <2>2 DEF WriteSymlink
  <2>4. QED
    BY <2>2, <2>3
<1>8. CASE cw' = [cw EXCEPT ![b] = WriteNod(@, name, 438)]
  <2> DEFINE w == Put(cw[b], "node", name, 438, 0)
  <2>1. w \in Writer /\ Placed(w) /\ Unended(w)
    BY <1>4
  <2>2. Good(w)
    BY <1>8, <2>1 DEF WriteNod
  <2>3. QED
    BY <2>1, <2>2
<1>9. QED
  BY <1>2, <1>5, <1>6, <1>7, <1>8

LEMMA WalkStep == TypeInv /\ Writing /\ [Next]_vars => Writing'
<1> SUFFICES ASSUME TypeInv, Writing, [Next]_vars PROVE Writing'
  OBVIOUS
<1>0. TypeOK
  BY DEF TypeInv
<1>1. CASE UNCHANGED vars
  BY <1>1 DEF Writing, vars
<1>2. ASSUME NEW b \in Builders, Step(b) PROVE Writing'
  <2>0. cw[b] \in Writer /\ Placed(cw[b])
    BY <1>0 DEF TypeOK, Writing
  <2>1. CASE Call(b)
    BY <1>0, <2>1 DEF Call, At, TypeOK, Writing
  <2>2. CASE Open(b)
    BY <1>0, <2>2, NewPlaced DEF Open, At, TypeOK, Writing
  <2>3. CASE PackDir(b)
    <3>1. PICK i \in 1..Len(job[b]) : \E k \in 1..Len(job[b][i].path) - 1 :
             Emit(b, WriteDir(cw[b], ParentDirs(job[b][i].path)[k], 493))
      BY <2>3 DEF PackDir
    <3>2. PICK k \in 1..Len(job[b][i].path) - 1 :
             Emit(b, WriteDir(cw[b], ParentDirs(job[b][i].path)[k], 493))
      BY <3>1
    <3>3. ParentDirs(job[b][i].path)[k] \in Names
      BY <2>3, FileType, JobAssumption DEF TypeInv, Asking, PackDir, At
    <3>4. Unended(cw[b])
      BY <2>3 DEF Writing, PackDir, At
    <3> DEFINE w == WriteDir(cw[b], ParentDirs(job[b][i].path)[k], 493)
    <3>5. Placed(w) /\ Unended(w)
      BY <2>0, <3>3, <3>4, PutPlaced, PutUnended DEF WriteDir, Kind
    <3>6. cw' = [cw EXCEPT ![b] = w] /\ pc' = [pc EXCEPT ![b] = "dirs"]
      BY <2>3, <3>2 DEF Emit, PackDir, Goto
    <3> HIDE DEF w
    <3>7. "dirs" \notin {"idle", "open"}
      OBVIOUS
    <3>8. QED
      BY <1>0, <3>5, <3>6, <3>7, WritingStep, Zenon
  <2>4. CASE PackFile(b)
    <3> DEFINE f == job[b][next[b]]
               w == WriteFile(cw[b], f.path, Mode(f), BodyLen[f.source])
    <3>1. next[b] \in 1..Len(job[b]) /\ job[b] # Library
      BY <2>4, NextType, JobAssumption DEF PackFile, TypeInv, Asking
    <3>2. f.path \in Names /\ f.mode \in Nat /\ BodyLen[f.source] \in Nat
      BY <1>0, <3>1, FileType
    <3>3. Mode(f) \in Nat
      BY <3>2 DEF Mode
    <3>4. Unended(cw[b])
      BY <2>4 DEF Writing, PackFile
    <3>5. Placed(w) /\ Unended(w)
      BY <2>0, <3>2, <3>3, <3>4, PutPlaced, PutUnended DEF WriteFile, Kind
    <3>6. cw' = [cw EXCEPT ![b] = w] /\ pc' = [pc EXCEPT ![b] = "files"]
      BY <2>4 DEF Emit, PackFile, Goto
    <3>7. QED
      BY <1>0, <3>5, <3>6, WritingStep
  <2>5. CASE CloseCpio(b) \/ FailRead(b)
    <3>1. Unended(cw[b])
      BY <2>5 DEF Writing, CloseCpio, FailRead
    <3>2. Placed(Close(cw[b]))
      BY <2>0, <3>1, ClosePlaced
    <3>3. cw' = [cw EXCEPT ![b] = Close(cw[b])]
      BY <2>5 DEF CloseCpio, FailRead, Emit
    <3>4. \E stage \in {"footer", "abort"} : pc' = [pc EXCEPT ![b] = stage]
      BY <2>5 DEF CloseCpio, FailRead, Goto
    <3>5. QED
      BY <1>0, <3>2, <3>3, <3>4, WritingStep
  <2>6. CASE CloseGzip(b) \/ AbortGzip(b)
    <3> DEFINE w == [cw[b] EXCEPT !.out = Append(@, Footer)]
    <3>1. Placed(w)
      BY <2>0, FooterPlaced
    <3>2. cw' = [cw EXCEPT ![b] = w]
      BY <2>6 DEF CloseGzip, AbortGzip, Emit
    <3>3. \E stage \in {"close", "failed"} : pc' = [pc EXCEPT ![b] = stage]
      BY <2>6 DEF CloseGzip, AbortGzip, Goto
    <3>4. QED
      BY <1>0, <3>1, <3>2, <3>3, WritingStep
  <2>7. CASE CloseFile(b) \/ FailOpen(b) \/ CloseFailed(b) \/ FailWrite(b) \/ Crash(b)
    BY <1>0, <2>7, ReturnWriting DEF CloseFile, FailOpen, CloseFailed, FailWrite, Crash
  <2>8. CASE LibraryStart(b)
    BY <1>0, <2>8, NewPlaced DEF LibraryStart, At, TypeOK, Writing
  <2>9. CASE LibraryWrite(b)
    <3>1. PICK w \in Writer : cw' = [cw EXCEPT ![b] = w] /\ Placed(w) /\ Unended(w)
      BY <2>9, LibraryPlaced
    <3>2. pc' = [pc EXCEPT ![b] = "library"]
      BY <2>9 DEF LibraryWrite, Goto
    <3>3. "library" \notin {"idle", "open"}
      OBVIOUS
    <3>4. QED
      BY <1>0, <3>1, <3>2, <3>3, WritingStep, Zenon
  <2>10. CASE LibraryClose(b)
    <3>1. Placed(Close(cw[b]))
      BY <2>0, <2>10, ClosePlaced DEF LibraryClose, At, Writing
    <3>2. cw' = [cw EXCEPT ![b] = Close(cw[b])] /\ pc' = [pc EXCEPT ![b] = "close"]
      BY <2>10 DEF LibraryClose, Goto
    <3>3. QED
      BY <1>0, <3>1, <3>2, WritingStep
  <2>11. QED
    BY <1>2, <2>1, <2>2, <2>3, <2>4, <2>5, <2>6, <2>7, <2>8, <2>9, <2>10 DEF Step
<1>3. QED
  BY <1>1, <1>2 DEF Next

LEMMA WalkAlways == Spec => []Writing
<1>1. Init => Writing
  BY NewPlaced DEF Init, Writing
<1>2. QED
  BY <1>1, WalkStep, TypeAlways, PTL DEF Spec

\* While every body is shorter than the size field can say, a reader that goes
\* by the declared sizes meets every header the writer wrote (cpio.go).
THEOREM HeadersAreFound == Spec => []HeadersFound
<1>1. Writing => HeadersFound
  BY DEF Writing, Placed, HeadersFound
<1>2. QED
  BY <1>1, WalkAlways, PTL

\* ---------------------------------------------------------------------------
\* The order of the records.

\* The directories above a record precede it, and it is no second writing of one.
Follows(r, stream) ==
  /\ r.kind \in {"dir", "file"} =>
       \A n \in 1..Len(r.name) - 1 : \E j \in 1..Len(stream) :
         stream[j].kind = "dir" /\ stream[j].name = SubSeq(r.name, 1, n)
  /\ r.kind = "dir" =>
       \A j \in 1..Len(stream) : stream[j].kind = "dir" => stream[j].name # r.name

LEMMA OrderedAppend ==
  ASSUME NEW stream \in Seq(Record), NEW r, Ordered(stream), Follows(r, stream)
  PROVE  Ordered(Append(stream, r))
<1> DEFINE all == Append(stream, r)
<1>1. Len(all) = Len(stream) + 1 /\ all[Len(stream) + 1] = r
      /\ \A k \in 1..Len(stream) : all[k] = stream[k]
  OBVIOUS
<1>2. SUFFICES ASSUME NEW k \in 1..Len(all)
               PROVE  /\ all[k].kind \in {"dir", "file"} =>
                           \A n \in 1..Len(all[k].name) - 1 : \E j \in 1..k - 1 :
                             all[j].kind = "dir" /\ all[j].name = SubSeq(all[k].name, 1, n)
                      /\ all[k].kind = "dir" =>
                           \A j \in 1..k - 1 : all[j].kind = "dir" => all[j].name # all[k].name
  BY DEF Ordered
<1>3. \A j \in 1..k - 1 : all[j] = stream[j] /\ j \in 1..Len(stream)
  BY <1>1
<1>4. CASE k \in 1..Len(stream)
  <2>1. all[k] = stream[k]
    BY <1>1, <1>4
  <2>2. /\ stream[k].kind \in {"dir", "file"} =>
            \A n \in 1..Len(stream[k].name) - 1 : \E j \in 1..k - 1 :
              stream[j].kind = "dir" /\ stream[j].name = SubSeq(stream[k].name, 1, n)
        /\ stream[k].kind = "dir" =>
            \A j \in 1..k - 1 : stream[j].kind = "dir" => stream[j].name # stream[k].name
    BY <1>4 DEF Ordered
  <2> HIDE DEF all
  <2>3. QED
    BY <1>3, <2>1, <2>2
<1>5. CASE k = Len(stream) + 1
  <2>1. all[k] = r /\ k - 1 = Len(stream)
    BY <1>1, <1>5
  <2>2. /\ r.kind \in {"dir", "file"} =>
            \A n \in 1..Len(r.name) - 1 : \E j \in 1..k - 1 :
              stream[j].kind = "dir" /\ stream[j].name = SubSeq(r.name, 1, n)
        /\ r.kind = "dir" =>
            \A j \in 1..k - 1 : stream[j].kind = "dir" => stream[j].name # r.name
    BY <2>1 DEF Follows
  <2> HIDE DEF all
  <2>3. QED
    BY <1>3, <2>1, <2>2
<1>6. k \in 1..Len(stream) \/ k = Len(stream) + 1
  <2>1. Len(stream) \in Nat
    OBVIOUS
  <2> HIDE DEF all
  <2>2. QED
    BY <1>1, <2>1
<1> HIDE DEF all
<1>7. QED
  BY <1>4, <1>5, <1>6

\* What a directory written earlier is called.
LEMMA SeenDir ==
  ASSUME NEW b \in Builders, cw[b] \in Writer
  PROVE  \A name : name \in Seen(b) <=>
           \E j \in 1..Len(cw[b].out) : cw[b].out[j].kind = "dir" /\ cw[b].out[j].name = name
BY DEF Seen, Written

\* A prefix of a prefix.
LEMMA Prefix ==
  ASSUME NEW path \in Seq(STRING), NEW k \in 1..Len(path), NEW n \in 1..k
  PROVE  /\ Len(SubSeq(path, 1, k)) = k
         /\ SubSeq(SubSeq(path, 1, k), 1, n) = SubSeq(path, 1, n)
<1>1. SubSeq(path, 1, k) \in Seq(STRING) /\ Len(SubSeq(path, 1, k)) = k
  OBVIOUS
<1>2. QED
  BY <1>1

LEMMA DirFollows ==
  ASSUME TypeInv, NEW b \in Builders, pc[b] = "dirs", NEW i \in 1..Len(job[b]),
         NEW k \in 1..Len(job[b][i].path) - 1, FirstUnseen(b, i, k), NEW mode, NEW at, NEW size, NEW len
  PROVE  Follows([kind |-> "dir", name |-> ParentDirs(job[b][i].path)[k], mode |-> mode,
                  at |-> at, size |-> size, len |-> len], cw[b].out)
<1> DEFINE path == job[b][i].path
           name == ParentDirs(path)[k]
<1>1. job[b] # Library /\ TypeOK
  BY JobAssumption DEF TypeInv, Asking
<1>2. path \in Seq(STRING)
  BY <1>1, FileType
<1>3. cw[b] \in Writer
  BY <1>1 DEF TypeOK
<1>4. \A n \in 1..Len(path) - 1 : ParentDirs(path)[n] = SubSeq(path, 1, n)
  BY DEF ParentDirs
<1>5. name \notin Seen(b)
  BY DEF FirstUnseen
<1>6. i \in 1..i
  BY <1>1
<1>7. ASSUME NEW n \in 1..k - 1 PROVE SubSeq(path, 1, n) \in Seen(b)
  <2>1. n \in 1..Len(path) - 1 /\ ~(n >= k)
    BY <1>2
  <2>2. ParentDirs(path)[n] \in Seen(b)
    BY <1>6, <2>1 DEF FirstUnseen
  <2>3. QED
    BY <1>4, <2>1, <2>2
<1>8. name = SubSeq(path, 1, k) /\ k \in 1..Len(path)
  BY <1>2, <1>4
<1>9. Len(name) = k
  BY <1>2, <1>8, Prefix
<1>10. ASSUME NEW n \in 1..Len(name) - 1 PROVE SubSeq(name, 1, n) \in Seen(b)
  <2>1. n \in 1..k - 1 /\ n \in 1..k
    BY <1>9
  <2>2. SubSeq(name, 1, n) = SubSeq(path, 1, n)
    BY <1>2, <1>8, <2>1, Prefix
  <2>3. QED
    BY <1>7, <2>1, <2>2
<1> HIDE DEF name
<1>11. QED
  BY <1>3, <1>5, <1>10, SeenDir DEF Follows, name

LEMMA FileFollows ==
  ASSUME TypeInv, NEW b \in Builders, job[b] # Library, AllSeen(b), NEW i \in 1..Len(job[b]),
         NEW mode, NEW at, NEW size, NEW len
  PROVE  Follows([kind |-> "file", name |-> job[b][i].path, mode |-> mode,
                  at |-> at, size |-> size, len |-> len], cw[b].out)
<1>1. cw[b] \in Writer
  BY DEF TypeInv, TypeOK
<1> DEFINE path == job[b][i].path
           r == [kind |-> "file", name |-> path, mode |-> mode, at |-> at, size |-> size, len |-> len]
<1>2. \A n \in 1..Len(path) - 1 : SubSeq(path, 1, n) \in Seen(b)
  BY DEF AllSeen, ParentDirs
<1>3. r.kind = "file" /\ r.name = path
  OBVIOUS
<1> HIDE DEF r, path
<1>4. \A n \in 1..Len(path) - 1 : \E j \in 1..Len(cw[b].out) :
        cw[b].out[j].kind = "dir" /\ cw[b].out[j].name = SubSeq(path, 1, n)
  BY <1>1, <1>2, SeenDir
<1>5. Follows(r, cw[b].out)
  BY <1>3, <1>4 DEF Follows
<1>6. QED
  BY <1>5 DEF r, path

\* What has gone out of every build is in order.
Ordering ==
  \A b \in Builders :
    /\ job[b] # Library => Ordered(cw[b].out)
    /\ pc[b] \in {"idle", "open"} => cw[b] = NewWriter
    /\ pc[b] = "library" => job[b] = Library

LEMMA OrderingStep ==
  ASSUME TypeOK, Ordering, NEW b \in Builders, NEW w, NEW stage,
         cw' = [cw EXCEPT ![b] = w], pc' = [pc EXCEPT ![b] = stage], UNCHANGED job,
         job[b] # Library => Ordered(w.out), stage \notin {"idle", "open"},
         stage = "library" => job[b] = Library
  PROVE  Ordering'
BY DEF TypeOK, Ordering

LEMMA NewOrdered == Ordered(NewWriter.out)
BY DEF Ordered, NewWriter

LEMMA ReturnOrdering ==
  ASSUME TypeOK, Ordering, NEW b \in Builders, NEW how, Return(b, how)
  PROVE  Ordering'
BY NewOrdered DEF TypeOK, Ordering, Return

LEMMA OrderStep == TypeInv /\ Ordering /\ [Next]_vars => Ordering'
<1> SUFFICES ASSUME TypeInv, Ordering, [Next]_vars PROVE Ordering'
  OBVIOUS
<1>0. TypeOK
  BY DEF TypeInv
<1>1. CASE UNCHANGED vars
  BY <1>1 DEF Ordering, vars
<1>2. ASSUME NEW b \in Builders, Step(b) PROVE Ordering'
  <2>0. cw[b] \in Writer /\ cw[b].out \in Seq(Record) /\ (job[b] # Library => Ordered(cw[b].out))
    BY <1>0 DEF TypeOK, Writer, Ordering
  <2>1. CASE Call(b)
    BY <1>0, <2>1, NewOrdered DEF Call, At, TypeOK, Ordering
  <2>2. CASE Open(b)
    BY <1>0, <2>2 DEF Open, At, TypeOK, Ordering
  <2>3. CASE PackDir(b)
    <3>0. PICK i \in 1..Len(job[b]) : \E k \in 1..Len(job[b][i].path) - 1 :
             /\ FirstUnseen(b, i, k)
             /\ Emit(b, WriteDir(cw[b], ParentDirs(job[b][i].path)[k], 493))
      BY <2>3 DEF PackDir
    <3>1. PICK k \in 1..Len(job[b][i].path) - 1 :
             /\ FirstUnseen(b, i, k)
             /\ Emit(b, WriteDir(cw[b], ParentDirs(job[b][i].path)[k], 493))
      BY <3>0
    <3> DEFINE w == WriteDir(cw[b], ParentDirs(job[b][i].path)[k], 493)
               r == [kind |-> "dir", name |-> ParentDirs(job[b][i].path)[k], mode |-> 493,
                     at |-> cw[b].pos, size |-> 0 % Wrap, len |-> 0]
    <3>2. pc[b] = "dirs" /\ job[b] # Library
      BY <2>3, JobAssumption DEF PackDir, At, TypeInv, Asking
    <3>3. Follows(r, cw[b].out)
      BY <3>1, <3>2, DirFollows
    <3>4. w.out = Append(cw[b].out, r)
      BY DEF WriteDir, Put
    <3>o. Ordered(cw[b].out)
      BY <2>0, <3>2
    <3> HIDE DEF r
    <3>5. Ordered(w.out)
      BY <2>0, <3>o, <3>3, <3>4, OrderedAppend, Zenon
    <3>6. cw' = [cw EXCEPT ![b] = w] /\ pc' = [pc EXCEPT ![b] = "dirs"] /\ UNCHANGED job
      BY <2>3, <3>1 DEF Emit, PackDir, Goto
    <3>7. "dirs" \notin {"idle", "open"} /\ "dirs" # "library"
      OBVIOUS
    <3> HIDE DEF w
    <3>8. QED
      BY <1>0, <3>5, <3>6, <3>7, OrderingStep, Zenon
  <2>4. CASE PackFile(b)
    <3> DEFINE f == job[b][next[b]]
               w == WriteFile(cw[b], f.path, Mode(f), BodyLen[f.source])
               r == [kind |-> "file", name |-> f.path, mode |-> Mode(f),
                     at |-> cw[b].pos, size |-> BodyLen[f.source] % Wrap, len |-> BodyLen[f.source]]
    <3>1. next[b] \in 1..Len(job[b]) /\ job[b] # Library /\ AllSeen(b)
      BY <2>4, NextType, JobAssumption DEF PackFile, TypeInv, Asking
    <3>2. Follows(r, cw[b].out)
      BY <3>1, FileFollows
    <3>3. w.out = Append(cw[b].out, r)
      BY DEF WriteFile, Put
    <3>4. Ordered(w.out)
      BY <2>0, <3>1, <3>2, <3>3, OrderedAppend
    <3>5. cw' = [cw EXCEPT ![b] = w] /\ pc' = [pc EXCEPT ![b] = "files"] /\ UNCHANGED job
      BY <2>4 DEF Emit, PackFile, Goto
    <3>6. "files" \notin {"idle", "open"} /\ "files" # "library"
      OBVIOUS
    <3> HIDE DEF w
    <3>7. QED
      BY <1>0, <3>4, <3>5, <3>6, OrderingStep, Zenon
  <2>5. CASE CloseCpio(b) \/ FailRead(b)
    <3> DEFINE w == Close(cw[b])
               r == [kind |-> "end", name |-> Trailer, mode |-> 0,
                     at |-> cw[b].pos, size |-> 0 % Wrap, len |-> 0]
    <3>1. Follows(r, cw[b].out)
      BY DEF Follows
    <3>2. w.out = Append(cw[b].out, r)
      BY DEF Close, Put
    <3>3. job[b] # Library => Ordered(w.out)
      BY <2>0, <3>1, <3>2, OrderedAppend
    <3>4. PICK stage \in {"footer", "abort"} : pc' = [pc EXCEPT ![b] = stage]
      BY <2>5 DEF CloseCpio, FailRead, Goto
    <3>5. cw' = [cw EXCEPT ![b] = w] /\ UNCHANGED job
      BY <2>5 DEF CloseCpio, FailRead, Goto, Emit
    <3>6. stage \notin {"idle", "open"} /\ stage # "library"
      OBVIOUS
    <3> HIDE DEF w
    <3>7. QED
      BY <1>0, <3>3, <3>4, <3>5, <3>6, OrderingStep, Zenon
  <2>6. CASE CloseGzip(b) \/ AbortGzip(b)
    <3> DEFINE w == [cw[b] EXCEPT !.out = Append(@, Footer)]
    <3>1. Follows(Footer, cw[b].out)
      BY DEF Follows, Footer
    <3>2. w.out = Append(cw[b].out, Footer)
      BY <2>0 DEF Writer
    <3>3. job[b] # Library => Ordered(w.out)
      BY <2>0, <3>1, <3>2, OrderedAppend
    <3>4. PICK stage \in {"close", "failed"} : pc' = [pc EXCEPT ![b] = stage]
      BY <2>6 DEF CloseGzip, AbortGzip, Goto
    <3>5. cw' = [cw EXCEPT ![b] = w] /\ UNCHANGED job
      BY <2>6 DEF CloseGzip, AbortGzip, Goto, Emit
    <3>6. stage \notin {"idle", "open"} /\ stage # "library"
      OBVIOUS
    <3> HIDE DEF w
    <3>7. QED
      BY <1>0, <3>3, <3>4, <3>5, <3>6, OrderingStep, Zenon
  <2>7. CASE CloseFile(b) \/ FailOpen(b) \/ CloseFailed(b) \/ FailWrite(b) \/ Crash(b)
    BY <1>0, <2>7, ReturnOrdering DEF CloseFile, FailOpen, CloseFailed, FailWrite, Crash
  <2>8. CASE LibraryStart(b)
    BY <1>0, <2>8 DEF LibraryStart, At, TypeOK, Ordering
  <2>9. CASE LibraryWrite(b) \/ LibraryClose(b)
    <3>1. job[b] = Library
      BY <2>9 DEF LibraryWrite, LibraryClose, At, Ordering
    <3>2. \E w : cw' = [cw EXCEPT ![b] = w]
      BY <2>9 DEF LibraryWrite, LibraryClose
    <3>3. \E stage \in {"library", "close"} : pc' = [pc EXCEPT ![b] = stage]
      BY <2>9 DEF LibraryWrite, LibraryClose, Goto
    <3>4. UNCHANGED job
      BY <2>9 DEF LibraryWrite, LibraryClose, Goto
    <3>5. QED
      BY <1>0, <3>1, <3>2, <3>3, <3>4, OrderingStep
  <2>10. QED
    BY <1>2, <2>1, <2>2, <2>3, <2>4, <2>5, <2>6, <2>7, <2>8, <2>9 DEF Step
<1>3. QED
  BY <1>1, <1>2 DEF Next

LEMMA OrderAlways == Spec => []Ordering
<1>1. Init => Ordering
  BY NewOrdered DEF Init, Ordering
<1>2. QED
  BY <1>1, OrderStep, TypeAlways, PTL DEF Spec

\* At every moment of a build, whatever failed, the directories that have gone
\* out precede what lies in them, each once (PackFiles).
THEOREM ParentsComeFirst == Spec => []ParentsFirst
<1>1. Ordering => ParentsFirst
  BY DEF Ordering, ParentsFirst
<1>2. QED
  BY <1>1, OrderAlways, PTL

\* ---------------------------------------------------------------------------
\* What a build has written when it returns nil.

IsFile(r, f) ==
  r.kind = "file" /\ r.name = f.path /\ r.mode = Mode(f) /\ r.len = BodyLen[f.source]

\* Directories, then the first n files.
Begun(files, stream, n) ==
  /\ Len(stream) >= n
  /\ \A k \in 1..Len(stream) - n : stream[k].kind = "dir"
  /\ \A i \in 1..n : IsFile(stream[Len(stream) - n + i], files[i])

\* A call in a stage, its writer, the number of its next file and its job.
InProgress(stage, w, n, files) ==
  /\ stage \in {"idle", "open"} => w = NewWriter
  /\ stage \in {"idle", "open", "dirs"} => n = 1
  /\ stage \in {"dirs", "files"} => n - 1 <= Len(files) /\ Begun(files, w.out, n - 1)
  /\ stage = "footer" =>
       \E s \in Seq(Record), e \in Record :
         e.kind = "end" /\ w.out = Append(s, e) /\ Begun(files, s, Len(files))
  /\ stage = "close" /\ files # Library =>
       \E s \in Seq(Record), e \in Record :
         /\ e.kind = "end" /\ w.out = Append(Append(s, e), Footer)
         /\ Begun(files, s, Len(files))
  /\ stage = "library" => files = Library

Progress == \A b \in Builders : InProgress(pc[b], cw[b], next[b], job[b])

LEMMA BegunDir ==
  ASSUME NEW files, NEW stream \in Seq(Record), NEW r \in Record, r.kind = "dir",
         Begun(files, stream, 0)
  PROVE  Begun(files, Append(stream, r), 0)
<1> DEFINE all == Append(stream, r)
<1>1. Len(all) = Len(stream) + 1 /\ all[Len(stream) + 1] = r
      /\ \A k \in 1..Len(stream) : all[k] = stream[k]
  OBVIOUS
<1>2. \A k \in 1..Len(stream) : stream[k].kind = "dir"
  BY DEF Begun
<1>3. Len(stream) \in Nat
  OBVIOUS
<1> HIDE DEF all
<1>4. \A k \in 1..Len(all) - 0 : all[k].kind = "dir"
  BY <1>1, <1>2, <1>3
<1>5. Len(all) >= 0 /\ \A i \in 1..0 : IsFile(all[Len(all) - 0 + i], files[i])
  BY <1>1, <1>3
<1>6. QED
  BY <1>4, <1>5 DEF Begun, all

LEMMA BegunFile ==
  ASSUME NEW files, NEW stream \in Seq(Record), NEW r \in Record, NEW n \in Nat,
         IsFile(r, files[n + 1]), Begun(files, stream, n)
  PROVE  Begun(files, Append(stream, r), n + 1)
<1> DEFINE all == Append(stream, r)
<1>1. Len(all) = Len(stream) + 1 /\ all[Len(stream) + 1] = r
      /\ \A k \in 1..Len(stream) : all[k] = stream[k]
  OBVIOUS
<1>2. Len(stream) \in Nat /\ Len(stream) >= n
  BY DEF Begun
<1> HIDE DEF all
<1>3. ASSUME NEW k \in 1..Len(all) - (n + 1) PROVE all[k].kind = "dir"
  <2>1. k \in 1..Len(stream) - n /\ k \in 1..Len(stream)
    BY <1>1, <1>2
  <2>2. QED
    BY <1>1, <2>1 DEF Begun
<1>4. ASSUME NEW i \in 1..n + 1 PROVE IsFile(all[Len(all) - (n + 1) + i], files[i])
  <2>1. CASE i = n + 1
    <3>1. Len(all) - (n + 1) + i = Len(stream) + 1
      BY <1>1, <1>2, <2>1
    <3>2. QED
      BY <1>1, <2>1, <3>1
  <2>2. CASE i # n + 1
    <3>1. i \in 1..n /\ Len(all) - (n + 1) + i = Len(stream) - n + i
          /\ Len(stream) - n + i \in 1..Len(stream)
      BY <1>1, <1>2, <2>2
    <3>2. IsFile(stream[Len(stream) - n + i], files[i])
      BY <3>1 DEF Begun
    <3>3. QED
      BY <1>1, <3>1, <3>2
  <2>3. QED
    BY <2>1, <2>2
<1>5. Len(all) >= n + 1
  BY <1>1, <1>2
<1>6. QED
  BY <1>3, <1>4, <1>5 DEF Begun, all

\* A record of a directory or a file, as the writer keeps it.
LEMMA PutOut ==
  ASSUME NEW w \in Writer, NEW kind \in Kind, NEW name \in Names, NEW mode \in Nat, NEW len \in Nat
  PROVE  LET r == [kind |-> kind, name |-> name, mode |-> mode,
                   at |-> w.pos, size |-> len % Wrap, len |-> len]
         IN  r \in Record /\ Put(w, kind, name, mode, len).out = Append(w.out, r)
<1>1. len % Wrap \in Nat /\ w.pos \in Nat
  BY WrapType DEF Writer
<1>2. QED
  BY <1>1 DEF Put, Record

LEMMA CloseOut ==
  ASSUME NEW w \in Writer
  PROVE  \E e \in Record : e.kind = "end" /\ Close(w).out = Append(w.out, e)
<1> DEFINE e == [kind |-> "end", name |-> Trailer, mode |-> 0,
                 at |-> w.pos, size |-> 0 % Wrap, len |-> 0]
<1>1. e \in Record /\ Put(w, "end", Trailer, 0, 0).out = Append(w.out, e)
  BY PutOut, NameAssumption DEF Kind
<1>2. Close(w).out = Append(w.out, e)
  BY <1>1 DEF Close
<1>3. QED
  BY <1>1, <1>2

\* Every step that writes appends one record to the stream of its build.
LEMMA DirOut ==
  ASSUME TypeInv, NEW b \in Builders, PackDir(b)
  PROVE  \E w \in Writer, r \in Record : Emit(b, w) /\ w.out = Append(cw[b].out, r) /\ r.kind = "dir"
<1>1. PICK i \in 1..Len(job[b]) : \E k \in 1..Len(job[b][i].path) - 1 :
         Emit(b, WriteDir(cw[b], ParentDirs(job[b][i].path)[k], 493))
  BY DEF PackDir
<1>2. PICK k \in 1..Len(job[b][i].path) - 1 :
         Emit(b, WriteDir(cw[b], ParentDirs(job[b][i].path)[k], 493))
  BY <1>1
<1> DEFINE name == ParentDirs(job[b][i].path)[k]
           w == WriteDir(cw[b], name, 493)
           r == [kind |-> "dir", name |-> name, mode |-> 493,
                 at |-> cw[b].pos, size |-> 0 % Wrap, len |-> 0]
<1>3. name \in Names /\ w \in Writer /\ cw[b] \in Writer
  <2>1. pc[b] = "dirs"
    BY DEF PackDir, At
  <2>2. cw[b] \in Writer
    BY DEF TypeInv, TypeOK
  <2>a. \A n \in 1..Len(job[b]) : \A m \in 1..Len(job[b][n].path) - 1 :
          /\ ParentDirs(job[b][n].path)[m] \in Names
          /\ WriteDir(cw[b], ParentDirs(job[b][n].path)[m], 493) \in Writer
    BY <2>1, DirType
  <2>3. name \in Names /\ w \in Writer
    BY <2>a
  <2>4. QED
    BY <2>2, <2>3
<1>4. r \in Record /\ w.out = Append(cw[b].out, r)
  <2> HIDE DEF name
  <2>1. "dir" \in Kind /\ 493 \in Nat /\ 0 \in Nat
    BY DEF Kind
  <2>2. QED
    BY <1>3, <2>1, PutOut DEF WriteDir
<1>5. QED
  BY <1>2, <1>3, <1>4

LEMMA FileOut ==
  ASSUME TypeInv, NEW b \in Builders, PackFile(b)
  PROVE  \E w \in Writer, r \in Record :
           Emit(b, w) /\ w.out = Append(cw[b].out, r) /\ IsFile(r, job[b][next[b]])
<1> DEFINE f == job[b][next[b]]
           w == WriteFile(cw[b], f.path, Mode(f), BodyLen[f.source])
           r == [kind |-> "file", name |-> f.path, mode |-> Mode(f), at |-> cw[b].pos,
                 size |-> BodyLen[f.source] % Wrap, len |-> BodyLen[f.source]]
<1>1. next[b] \in 1..Len(job[b]) /\ w \in Writer
  BY NextType DEF PackFile
<1>2. f.path \in Names /\ f.mode \in Nat /\ BodyLen[f.source] \in Nat /\ cw[b] \in Writer
  BY <1>1, FileType, JobAssumption DEF TypeInv, TypeOK, Asking, PackFile
<1>3. Mode(f) \in Nat
  BY <1>2 DEF Mode
<1>4. r \in Record /\ w.out = Append(cw[b].out, r)
  <2>1. "file" \in Kind
    BY DEF Kind
  <2>2. cw[b].pos \in Nat
    BY <1>2 DEF Writer
  <2> HIDE DEF f
  <2>3. QED
    BY <1>2, <1>3, <2>1, <2>2, WrapType DEF WriteFile, Put, Record, Writer
<1>5. IsFile(r, f) /\ Emit(b, w)
  BY DEF IsFile, PackFile
<1>6. QED
  BY <1>1, <1>4, <1>5

LEMMA EndOut ==
  ASSUME TypeInv, NEW b \in Builders, CloseCpio(b) \/ FailRead(b)
  PROVE  \E w \in Writer, r \in Record : Emit(b, w) /\ w.out = Append(cw[b].out, r) /\ r.kind = "end"
<1>1. cw[b] \in Writer
  BY DEF TypeInv, TypeOK
<1>2. Emit(b, Close(cw[b])) /\ Close(cw[b]) \in Writer
  BY <1>1, CloseType DEF CloseCpio, FailRead
<1>3. QED
  BY <1>1, <1>2, CloseOut

LEMMA FooterOut ==
  ASSUME TypeInv, NEW b \in Builders, CloseGzip(b) \/ AbortGzip(b)
  PROVE  \E w \in Writer : Emit(b, w) /\ w.out = Append(cw[b].out, Footer)
<1> DEFINE w == [cw[b] EXCEPT !.out = Append(@, Footer)]
<1>1. cw[b] \in Writer
  BY DEF TypeInv, TypeOK
<1>2. Emit(b, w) /\ w \in Writer /\ w.out = Append(cw[b].out, Footer)
  BY <1>1, FooterType DEF CloseGzip, AbortGzip, Writer
<1>3. QED
  BY <1>2

LEMMA ProgressMove ==
  ASSUME TypeOK, Progress, NEW b \in Builders, NEW stage, NEW w, NEW n,
         pc' = [pc EXCEPT ![b] = stage], cw' = [cw EXCEPT ![b] = w],
         next' = [next EXCEPT ![b] = n], UNCHANGED job, InProgress(stage, w, n, job[b])
  PROVE  Progress'
<1>1. ASSUME NEW q \in Builders PROVE InProgress(pc'[q], cw'[q], next'[q], job'[q])
  <2>1. CASE q = b
    <3>1. pc'[q] = stage /\ cw'[q] = w /\ next'[q] = n /\ job'[q] = job[b]
      BY <2>1 DEF TypeOK
    <3>2. QED
      BY <3>1
  <2>2. CASE q # b
    <3>1. pc'[q] = pc[q] /\ cw'[q] = cw[q] /\ next'[q] = next[q] /\ job'[q] = job[q]
      BY <2>2 DEF TypeOK
    <3>2. InProgress(pc[q], cw[q], next[q], job[q])
      BY DEF Progress
    <3>3. QED
      BY <3>1, <3>2
  <2>3. QED
    BY <2>1, <2>2
<1>2. QED
  BY <1>1 DEF Progress

LEMMA ProgressStart ==
  ASSUME TypeOK, Progress, NEW b \in Builders, Call(b) \/ LibraryStart(b)
  PROVE  Progress'
<1>1. ASSUME NEW q \in Builders PROVE InProgress(pc'[q], cw'[q], next'[q], job'[q])
  <2>1. InProgress(pc[q], cw[q], next[q], job[q]) /\ cw'[q] = cw[q] /\ next'[q] = next[q]
    BY DEF Progress, Call, LibraryStart
  <2>2. CASE q = b
    <3>1. pc[b] = "idle" /\ (pc'[b] = "open" \/ (pc'[b] = "library" /\ job'[b] = Library))
      BY DEF TypeOK, Call, LibraryStart, At
    <3>2. cw[b] = NewWriter /\ next[b] = 1
      BY <2>1, <2>2, <3>1 DEF InProgress
    <3>3. QED
      BY <2>1, <2>2, <3>1, <3>2 DEF InProgress
  <2>3. CASE q # b
    <3>1. pc'[q] = pc[q] /\ job'[q] = job[q]
      BY <2>3 DEF TypeOK, Call, LibraryStart
    <3>2. QED
      BY <2>1, <3>1
  <2>4. QED
    BY <2>2, <2>3
<1>2. QED
  BY <1>1 DEF Progress

LEMMA ProgressStep == TypeInv /\ Progress /\ [Next]_vars => Progress'
<1> SUFFICES ASSUME TypeInv, Progress, [Next]_vars PROVE Progress'
  OBVIOUS
<1>0. TypeOK
  BY DEF TypeInv
<1>1. CASE UNCHANGED vars
  BY <1>1 DEF Progress, vars
<1>2. ASSUME NEW b \in Builders, Step(b) PROVE Progress'
  <2>0. /\ InProgress(pc[b], cw[b], next[b], job[b])
        /\ cw[b] \in Writer /\ cw[b].out \in Seq(Record)
        /\ next[b] \in Nat \ {0} /\ next = [next EXCEPT ![b] = next[b]]
        /\ cw = [cw EXCEPT ![b] = cw[b]]
    BY <1>0 DEF TypeOK, Writer, Progress
  <2>1. CASE Call(b) \/ LibraryStart(b)
    BY <1>0, <2>1, ProgressStart
  <2>2. CASE Open(b)
    <3>1. cw[b] = NewWriter /\ next[b] = 1
      BY <2>0, <2>2 DEF Open, At, InProgress
    <3>2. job[b] \in Jobs /\ Len(job[b]) \in Nat
      BY <2>2, JobAssumption DEF Open, At, TypeInv, Asking
    <3>3. Begun(job[b], cw[b].out, 0)
      BY <3>1 DEF Begun, NewWriter
    <3>4. InProgress("dirs", cw[b], next[b], job[b])
      BY <3>1, <3>2, <3>3 DEF InProgress
    <3>5. pc' = [pc EXCEPT ![b] = "dirs"] /\ cw' = cw /\ next' = next /\ UNCHANGED job
      BY <2>2 DEF Open
    <3>6. QED
      BY <1>0, <2>0, <3>4, <3>5, ProgressMove
  <2>3. CASE PackDir(b)
    <3>1. PICK w \in Writer, r \in Record :
             Emit(b, w) /\ w.out = Append(cw[b].out, r) /\ r.kind = "dir"
      BY <2>3, DirOut
    <3>2. pc[b] = "dirs" /\ next[b] = 1 /\ Begun(job[b], cw[b].out, 0) /\ 0 <= Len(job[b])
      BY <2>0, <2>3 DEF PackDir, At, InProgress
    <3>3. Begun(job[b], w.out, 0)
      BY <2>0, <3>1, <3>2, BegunDir
    <3>4. InProgress("dirs", w, next[b], job[b])
      BY <3>2, <3>3 DEF InProgress
    <3>5. cw' = [cw EXCEPT ![b] = w] /\ pc' = [pc EXCEPT ![b] = "dirs"] /\ UNCHANGED <<job, next>>
      BY <2>3, <3>1 DEF Emit, PackDir, Goto
    <3>6. QED
      BY <1>0, <2>0, <3>4, <3>5, ProgressMove
  <2>4. CASE PackFile(b)
    <3>1. PICK w \in Writer, r \in Record :
             Emit(b, w) /\ w.out = Append(cw[b].out, r) /\ IsFile(r, job[b][next[b]])
      BY <2>4, FileOut
    <3>2. Begun(job[b], cw[b].out, next[b] - 1)
      BY <2>0, <2>4 DEF PackFile, InProgress
    <3>3. next[b] - 1 \in Nat /\ (next[b] - 1) + 1 = next[b] /\ (next[b] + 1) - 1 = next[b]
      BY <2>0
    <3>4. Begun(job[b], w.out, next[b])
      BY <2>0, <3>1, <3>2, <3>3, BegunFile
    <3>5. next[b] <= Len(job[b])
      BY <2>4 DEF PackFile
    <3>6. InProgress("files", w, next[b] + 1, job[b])
      BY <3>3, <3>4, <3>5 DEF InProgress
    <3>7. /\ cw' = [cw EXCEPT ![b] = w] /\ pc' = [pc EXCEPT ![b] = "files"] /\ UNCHANGED job
          /\ next' = [next EXCEPT ![b] = next[b] + 1]
      BY <2>4, <3>1 DEF Emit, PackFile, Goto
    <3>8. QED
      BY <1>0, <3>6, <3>7, ProgressMove
  <2>5. CASE CloseCpio(b)
    <3>1. PICK w \in Writer, e \in Record :
             Emit(b, w) /\ w.out = Append(cw[b].out, e) /\ e.kind = "end"
      BY <2>5, EndOut
    <3>2. /\ Begun(job[b], cw[b].out, next[b] - 1) /\ next[b] - 1 <= Len(job[b])
          /\ next[b] > Len(job[b]) /\ job[b] \in Jobs
      BY <2>0, <2>5 DEF CloseCpio, InProgress, TypeInv, Asking
    <3>3. Len(job[b]) \in Nat
      BY <3>2, JobAssumption
    <3> DEFINE m == Len(job[b])
               i == next[b]
    <3>4. m \in Nat /\ i \in Nat /\ i - 1 <= m /\ i > m
      BY <2>0, <3>2, <3>3
    <3> HIDE DEF m, i
    <3>5. i - 1 = m
      BY <3>4
    <3>6. Begun(job[b], cw[b].out, Len(job[b]))
      BY <3>2, <3>5 DEF m, i
    <3>7. InProgress("footer", w, next[b], job[b])
      BY <2>0, <3>1, <3>6 DEF InProgress
    <3>8. cw' = [cw EXCEPT ![b] = w] /\ pc' = [pc EXCEPT ![b] = "footer"] /\ UNCHANGED <<job, next>>
      BY <2>5, <3>1 DEF Emit, CloseCpio, Goto
    <3>9. QED
      BY <1>0, <2>0, <3>7, <3>8, ProgressMove
  <2>6. CASE CloseGzip(b)
    <3>1. PICK w \in Writer : Emit(b, w) /\ w.out = Append(cw[b].out, Footer)
      BY <2>6, FooterOut
    <3>2. PICK s \in Seq(Record), e \in Record :
             e.kind = "end" /\ cw[b].out = Append(s, e) /\ Begun(job[b], s, Len(job[b]))
      BY <2>0, <2>6 DEF CloseGzip, At, InProgress
    <3>3. w.out = Append(Append(s, e), Footer)
      BY <3>1, <3>2
    <3>4. InProgress("close", w, next[b], job[b])
      BY <3>2, <3>3 DEF InProgress
    <3>5. cw' = [cw EXCEPT ![b] = w] /\ pc' = [pc EXCEPT ![b] = "close"] /\ UNCHANGED <<job, next>>
      BY <2>6, <3>1 DEF Emit, CloseGzip, Goto
    <3>6. QED
      BY <1>0, <2>0, <3>4, <3>5, ProgressMove
  <2>7. CASE FailRead(b) \/ AbortGzip(b)
    <3>1. PICK stage \in {"abort", "failed"} : pc' = [pc EXCEPT ![b] = stage]
      BY <2>7 DEF FailRead, AbortGzip, Goto
    <3>2. PICK w : cw' = [cw EXCEPT ![b] = w]
      BY <2>7 DEF FailRead, AbortGzip, Emit
    <3>3. UNCHANGED <<job, next>>
      BY <2>7 DEF FailRead, AbortGzip, Goto
    <3>4. InProgress(stage, w, next[b], job[b])
      BY DEF InProgress
    <3>5. QED
      BY <1>0, <2>0, <3>1, <3>2, <3>3, <3>4, ProgressMove
  <2>8. CASE CloseFile(b) \/ FailOpen(b) \/ CloseFailed(b) \/ FailWrite(b) \/ Crash(b)
    <3>1. /\ pc' = [pc EXCEPT ![b] = "idle"] /\ cw' = [cw EXCEPT ![b] = NewWriter]
          /\ next' = [next EXCEPT ![b] = 1] /\ UNCHANGED job
      BY <2>8 DEF CloseFile, FailOpen, CloseFailed, FailWrite, Crash, Return
    <3>2. InProgress("idle", NewWriter, 1, job[b])
      BY DEF InProgress
    <3>3. QED
      BY <1>0, <3>1, <3>2, ProgressMove
  <2>9. CASE LibraryWrite(b) \/ LibraryClose(b)
    <3>1. job[b] = Library
      BY <2>0, <2>9 DEF LibraryWrite, LibraryClose, At, InProgress
    <3>2. PICK stage \in {"library", "close"} : pc' = [pc EXCEPT ![b] = stage]
      BY <2>9 DEF LibraryWrite, LibraryClose, Goto
    <3>3. PICK w : cw' = [cw EXCEPT ![b] = w]
      BY <2>9 DEF LibraryWrite, LibraryClose
    <3>4. UNCHANGED <<job, next>>
      BY <2>9 DEF LibraryWrite, LibraryClose, Goto
    <3>5. InProgress(stage, w, next[b], job[b])
      BY <3>1 DEF InProgress
    <3>6. QED
      BY <1>0, <2>0, <3>2, <3>3, <3>4, <3>5, ProgressMove
  <2>10. QED
    BY <1>2, <2>1, <2>2, <2>3, <2>4, <2>5, <2>6, <2>7, <2>8, <2>9 DEF Step
<1>3. QED
  BY <1>1, <1>2 DEF Next

LEMMA ProgressAlways == Spec => []Progress
<1>1. Init => Progress
  BY DEF Init, Progress, InProgress
<1>2. QED
  BY <1>1, ProgressStep, TypeAlways, PTL DEF Spec

\* The cells of a file that holds one stream and nothing else.
Cells(stream) == [k \in 1..Len(stream) |-> SubSeq(stream, 1, k)]

LEMMA StoreCells ==
  ASSUME NEW stream \in Seq(Record), NEW r \in Record
  PROVE  Store(Cells(stream), Append(stream, r)) = Cells(Append(stream, r))
<1> DEFINE all == Append(stream, r)
           n == Len(stream) + 1
<1>1. Len(stream) \in Nat /\ all \in Seq(Record) /\ Len(all) = n
      /\ \A k \in 1..Len(stream) : all[k] = stream[k]
  OBVIOUS
<1>2. Cells(stream) \in Seq(Seq(Record)) /\ Len(Cells(stream)) = Len(stream)
  BY <1>1 DEF Cells
<1>3. (IF Len(Cells(stream)) > n THEN Len(Cells(stream)) ELSE n) = n
  BY <1>1, <1>2
<1>4. SubSeq(all, 1, n) = all
  BY <1>1
<1>5. ASSUME NEW k \in 1..Len(stream) PROVE SubSeq(stream, 1, k) = SubSeq(all, 1, k)
  BY <1>1
<1>6. ASSUME NEW k \in 1..n
      PROVE  (IF k = n THEN all ELSE IF k <= Len(Cells(stream)) THEN Cells(stream)[k] ELSE << >>)
               = SubSeq(all, 1, k)
  <2>1. CASE k = n
    BY <1>4, <2>1
  <2>2. CASE k # n
    <3>1. k \in 1..Len(stream)
      BY <1>1, <2>2
    <3>2. Cells(stream)[k] = SubSeq(stream, 1, k)
      BY <3>1 DEF Cells
    <3>3. QED
      BY <1>2, <1>5, <2>2, <3>1, <3>2
  <2>3. QED
    BY <2>1, <2>2
<1> HIDE DEF all
<1>7. QED
  BY <1>1, <1>3, <1>6 DEF Store, Cells, all

Writes == {"dirs", "files", "footer", "abort", "failed"}

\* A build that has dst for itself: nobody else writes, and dst holds its stream
\* and, when it has returned nil, the archive.
Owning(b) ==
  /\ pc[b] \in Writes => job[b] # Library
  /\ outcome[b] = "ok" => pc[b] = "idle"
  /\ alone[b] => \A q \in Builders \ {b} : pc[q] \in {"idle", "open"} \/ job[q] = Library
  /\ alone[b] /\ job[b] # Library =>
       /\ pc[b] \notin {"idle", "open"} => disk = Cells(cw[b].out)
       /\ outcome[b] = "ok" => Packed(job[b], disk)
Owners == \A b \in Builders : Owning(b)

\* What a build that has packed all its files, ended and closed has on disk.
LEMMA ClosedPacked ==
  ASSUME TypeInv, Progress, Ordering, NEW b \in Builders, pc[b] = "close", job[b] # Library
  PROVE  Packed(job[b], Cells(cw[b].out))
<1> DEFINE files == job[b]
           out == cw[b].out
           m == Len(files)
<1>1. InProgress("close", cw[b], next[b], files)
  BY DEF Progress
<1>2. PICK s \in Seq(Record), e \in Record :
         /\ e.kind = "end" /\ out = Append(Append(s, e), Footer)
         /\ Begun(files, s, Len(files))
  BY <1>1 DEF InProgress
<1>3. files \in Jobs /\ m \in Nat
  BY JobAssumption DEF TypeInv, TypeOK
<1>4. Ordered(out) /\ cw[b] \in Writer /\ out \in Seq(Record)
  BY DEF Ordering, TypeInv, TypeOK, Writer
<1>5. /\ Len(s) \in Nat /\ Len(out) = Len(s) + 2 /\ out[Len(s) + 2] = Footer
      /\ out[Len(s) + 1] = e /\ \A k \in 1..Len(s) : out[k] = s[k]
  BY <1>2
<1>6. /\ Len(s) >= m
      /\ \A k \in 1..Len(s) - m : s[k].kind = "dir"
      /\ \A i \in 1..m : IsFile(s[Len(s) - m + i], files[i])
  BY <1>2 DEF Begun
<1> DEFINE cells == Cells(out)
<1> HIDE DEF m, out
<1>7. cells \in Seq(Seq(Record)) /\ Len(cells) = Len(out)
      /\ \A k \in 1..Len(out) : cells[k] = SubSeq(out, 1, k)
  BY <1>4 DEF Cells
<1>8. Len(out) \in 1..Len(out) /\ Len(out) - 1 = Len(s) + 1 /\ Len(out) >= 2
  BY <1>5
<1>9. cells[Len(cells)] = out
  <2>1. SubSeq(out, 1, Len(out)) = out
    BY <1>4
  <2>2. QED
    BY <1>7, <1>8, <2>1
<1> HIDE DEF cells
<1>10. OneStream(cells)
  <2>1. cells # << >>
    BY <1>7, <1>8
  <2>2. \A k \in 1..Len(cells) : cells[k] = SubSeq(cells[Len(cells)], 1, k)
    BY <1>7, <1>9
  <2>3. out[Len(out)].kind = "footer" /\ out[Len(out) - 1].kind = "end"
    BY <1>2, <1>5, <1>8 DEF Footer
  <2>4. QED
    BY <1>7, <1>8, <1>9, <2>1, <2>2, <2>3 DEF OneStream
<1> DEFINE first == Len(out) - m - 2
<1>11. first = Len(s) - m /\ first >= 0 /\ m \in Nat
  BY <1>3, <1>5, <1>6 DEF m
<1>12. ASSUME NEW k \in 1..first PROVE out[k].kind = "dir"
  <2> HIDE DEF first
  <2>1. k \in 1..Len(s) - m /\ k \in 1..Len(s)
    BY <1>5, <1>11
  <2>2. QED
    BY <1>5, <1>6, <2>1
<1>13. ASSUME NEW i \in 1..m PROVE IsFile(out[first + i], files[i])
  <2>1. first + i = Len(s) - m + i /\ first + i \in 1..Len(s)
    BY <1>3, <1>5, <1>6, <1>11 DEF m
  <2>2. QED
    BY <1>5, <1>6, <2>1
<1> HIDE DEF first
<1>14. QED
  BY <1>4, <1>9, <1>10, <1>11, <1>12, <1>13 DEF Packed, IsFile, first, m, cells, out

\* A write by the build that has dst for itself adds to its stream, and any
\* other write is one that no such build sees.
LEMMA EmitOwning ==
  ASSUME TypeInv, Owners, NEW b \in Builders, NEW w \in Writer, NEW r \in Record, NEW stage,
         pc[b] \in Writes, Emit(b, w), w.out = Append(cw[b].out, r),
         pc' = [pc EXCEPT ![b] = stage], UNCHANGED <<outcome, job, alone>>,
         stage \in Writes \cup {"close"}
  PROVE  Owners'
<1>1. job[b] # Library /\ outcome[b] # "ok" /\ pc[b] \notin {"idle", "open"}
  BY DEF Owners, Owning, Writes
<1>2. stage \notin {"idle", "open"}
  BY DEF Writes
<1>3. ASSUME NEW q \in Builders PROVE Owning(q)'
  <2>0. Owning(q)
    BY DEF Owners
  <2>1. CASE q = b
    <3>1. cw'[b] = w /\ pc'[b] = stage /\ disk' = Store(disk, w.out)
      BY DEF TypeInv, TypeOK, Emit
    <3>2. alone[b] => disk' = Cells(w.out)
      <4>1. cw[b].out \in Seq(Record)
        BY DEF TypeInv, TypeOK, Writer
      <4>2. alone[b] => disk = Cells(cw[b].out)
        BY <1>1, <2>0, <2>1 DEF Owning
      <4>3. QED
        BY <3>1, <4>1, <4>2, StoreCells
    <3>3. alone[b] => \A p \in Builders \ {b} : pc'[p] \in {"idle", "open"} \/ job'[p] = Library
      BY <2>0, <2>1 DEF Owning, TypeInv, TypeOK
    <3>4. QED
      BY <1>1, <2>1, <3>1, <3>2, <3>3 DEF Owning
  <2>2. CASE q # b
    <3>1. ~alone[q]
      BY <1>1, <2>0, <2>2 DEF Owning
    <3>2. pc'[q] = pc[q]
      BY <2>2 DEF TypeInv, TypeOK
    <3>3. QED
      BY <2>0, <3>1, <3>2 DEF Owning
  <2>3. QED
    BY <2>1, <2>2
<1>4. QED
  BY <1>3 DEF Owners

LEMMA ReturnOwning ==
  ASSUME TypeInv, Owners, NEW b \in Builders, NEW how, Return(b, how), pc[b] # "idle",
         how = "ok" /\ alone[b] /\ job[b] # Library => Packed(job[b], disk)
  PROVE  Owners'
<1>1. ASSUME NEW q \in Builders PROVE Owning(q)'
  <2>0. Owning(q) /\ UNCHANGED <<job, disk, alone>>
    BY DEF Owners, Return
  <2>1. CASE q = b
    <3>1. pc'[q] = "idle" /\ outcome'[q] = how
      BY <2>1 DEF Return, TypeInv, TypeOK
    <3>2. alone[q] => \A p \in Builders \ {q} : pc'[p] \in {"idle", "open"} \/ job[p] = Library
      BY <2>0, <2>1 DEF Owning, Return, TypeInv, TypeOK
    <3>3. QED
      BY <2>0, <2>1, <3>1, <3>2 DEF Owning, Writes
  <2>2. CASE q # b
    <3>1. pc'[q] = pc[q] /\ outcome'[q] = outcome[q] /\ cw'[q] = cw[q]
      BY <2>2 DEF Return, TypeInv, TypeOK
    <3>2. alone[q] => \A p \in Builders \ {q} : pc'[p] \in {"idle", "open"} \/ job[p] = Library
      BY <2>0 DEF Owning, Return, TypeInv, TypeOK
    <3>3. QED
      BY <2>0, <3>1, <3>2 DEF Owning
  <2>3. QED
    BY <2>1, <2>2
<1>2. QED
  BY <1>1 DEF Owners

LEMMA CallOwning ==
  ASSUME TypeInv, Owners, NEW b \in Builders, Call(b)
  PROVE  Owners'
<1>1. /\ pc' = [pc EXCEPT ![b] = "open"] /\ outcome' = [outcome EXCEPT ![b] = "none"]
      /\ alone' = [alone EXCEPT ![b] = FALSE] /\ UNCHANGED <<cw, disk>>
      /\ \E j \in Jobs : job' = [job EXCEPT ![b] = j]
  BY DEF Call
<1>2. ASSUME NEW q \in Builders PROVE Owning(q)'
  <2>0. Owning(q)
    BY DEF Owners
  <2>1. CASE q = b
    <3>1. pc'[q] = "open" /\ outcome'[q] = "none" /\ alone'[q] = FALSE
      BY <1>1, <2>1 DEF TypeInv, TypeOK
    <3>2. QED
      BY <3>1 DEF Owning, Writes
  <2>2. CASE q # b
    <3>1. pc'[q] = pc[q] /\ outcome'[q] = outcome[q] /\ alone'[q] = alone[q] /\ job'[q] = job[q]
          /\ cw'[q] = cw[q] /\ disk' = disk
      BY <1>1, <2>2 DEF TypeInv, TypeOK
    <3>2. ASSUME alone[q], NEW p \in Builders \ {q}
          PROVE  pc'[p] \in {"idle", "open"} \/ job'[p] = Library
      <4>1. CASE p = b
        BY <1>1, <4>1 DEF TypeInv, TypeOK
      <4>2. CASE p # b
        <5>1. pc'[p] = pc[p] /\ job'[p] = job[p]
          BY <1>1, <4>2 DEF TypeInv, TypeOK
        <5>2. QED
          BY <2>0, <3>2, <5>1 DEF Owning
      <4>3. QED
        BY <4>1, <4>2
    <3>3. QED
      BY <2>0, <3>1, <3>2 DEF Owning
  <2>3. QED
    BY <2>1, <2>2
<1>3. QED
  BY <1>2 DEF Owners

LEMMA OpenOwning ==
  ASSUME TypeInv, Owners, Ordering, NEW b \in Builders, Open(b)
  PROVE  Owners'
<1>1. /\ pc[b] = "open" /\ pc' = [pc EXCEPT ![b] = "dirs"] /\ disk' = << >>
      /\ alone' = [q \in Builders |-> q = b /\ \A r \in Builders \ {b} : pc[r] \in {"idle", "open"}]
      /\ UNCHANGED <<outcome, job, cw>>
  BY DEF Open, At
<1>2. cw[b] = NewWriter /\ job[b] # Library
  BY <1>1, JobAssumption DEF Ordering, TypeInv, Asking
<1>3. Cells(cw[b].out) = << >>
  BY <1>2 DEF Cells, NewWriter
<1>4. ASSUME NEW q \in Builders PROVE Owning(q)'
  <2>0. Owning(q)
    BY DEF Owners
  <2>1. CASE q = b
    <3>1. pc'[q] = "dirs" /\ outcome'[q] # "ok"
      BY <1>1, <2>0, <2>1 DEF Owning, TypeInv, TypeOK
    <3>2. ASSUME alone'[q], NEW p \in Builders \ {q} PROVE pc'[p] \in {"idle", "open"}
      BY <1>1, <2>1, <3>2 DEF TypeInv, TypeOK
    <3>3. disk' = Cells(cw'[q].out)
      BY <1>1, <1>3, <2>1
    <3>4. QED
      BY <1>1, <1>2, <2>1, <3>1, <3>2, <3>3 DEF Owning
  <2>2. CASE q # b
    <3>1. pc'[q] = pc[q] /\ ~alone'[q]
      BY <1>1, <2>2 DEF TypeInv, TypeOK
    <3>2. QED
      BY <1>1, <2>0, <3>1 DEF Owning
  <2>3. QED
    BY <2>1, <2>2
<1>5. QED
  BY <1>4 DEF Owners

\* The steps of a program that uses the writer by itself.
LEMMA LibraryOwning ==
  ASSUME TypeInv, Owners, Ordering, NEW b \in Builders,
         LibraryStart(b) \/ LibraryWrite(b) \/ LibraryClose(b)
  PROVE  Owners'
<1>1. /\ job'[b] = Library /\ outcome'[b] # "ok" /\ pc'[b] \notin Writes
      /\ UNCHANGED <<disk, alone>>
      /\ \A q \in Builders \ {b} :
           pc'[q] = pc[q] /\ outcome'[q] = outcome[q] /\ job'[q] = job[q] /\ cw'[q] = cw[q]
  <2>1. CASE LibraryStart(b)
    BY <2>1 DEF LibraryStart, TypeInv, TypeOK, Writes
  <2>2. CASE LibraryWrite(b) \/ LibraryClose(b)
    <3>1. /\ pc[b] = "library" /\ UNCHANGED <<disk, alone, outcome, job>>
          /\ \E w : cw' = [cw EXCEPT ![b] = w]
          /\ \E stage \in {"library", "close"} : pc' = [pc EXCEPT ![b] = stage]
      BY <2>2 DEF LibraryWrite, LibraryClose, At, Goto
    <3>2. job[b] = Library /\ outcome[b] # "ok"
      BY <3>1 DEF Ordering, Owners, Owning
    <3>3. QED
      BY <3>1, <3>2 DEF TypeInv, TypeOK, Writes
  <2>3. QED
    BY <2>1, <2>2
<1>2. ASSUME NEW q \in Builders PROVE Owning(q)'
  <2>0. Owning(q)
    BY DEF Owners
  <2>1. ASSUME alone[q], NEW p \in Builders \ {q}
        PROVE  pc'[p] \in {"idle", "open"} \/ job'[p] = Library
    BY <1>1, <2>0, <2>1 DEF Owning
  <2>2. CASE q = b
    BY <1>1, <2>1, <2>2 DEF Owning
  <2>3. CASE q # b
    BY <1>1, <2>0, <2>1, <2>3 DEF Owning
  <2>4. QED
    BY <2>2, <2>3
<1>3. QED
  BY <1>2 DEF Owners

LEMMA OwnersStep == TypeInv /\ Progress /\ Ordering /\ Owners /\ [Next]_vars => Owners'
<1> SUFFICES ASSUME TypeInv, Progress, Ordering, Owners, [Next]_vars PROVE Owners'
  OBVIOUS
<1>1. CASE UNCHANGED vars
  BY <1>1 DEF Owners, Owning, vars
<1>2. ASSUME NEW b \in Builders, Step(b) PROVE Owners'
  <2>1. CASE Call(b)
    BY <2>1, CallOwning
  <2>2. CASE Open(b)
    BY <2>2, OpenOwning
  <2>3. CASE PackDir(b) \/ PackFile(b)
    <3>1. \E w \in Writer, r \in Record : Emit(b, w) /\ w.out = Append(cw[b].out, r)
      BY <2>3, DirOut, FileOut
    <3>2. pc[b] \in Writes /\ UNCHANGED <<outcome, job, alone>>
      BY <2>3 DEF PackDir, PackFile, At, Goto, Writes
    <3>3. \E stage \in Writes : pc' = [pc EXCEPT ![b] = stage]
      BY <2>3 DEF PackDir, PackFile, Goto, Writes
    <3>4. QED
      BY <3>1, <3>2, <3>3, EmitOwning
  <2>4. CASE CloseCpio(b) \/ FailRead(b)
    <3>1. \E w \in Writer, r \in Record : Emit(b, w) /\ w.out = Append(cw[b].out, r)
      BY <2>4, EndOut
    <3>2. pc[b] \in Writes /\ UNCHANGED <<outcome, job, alone>>
      BY <2>4 DEF CloseCpio, FailRead, Goto, Writes
    <3>3. \E stage \in Writes : pc' = [pc EXCEPT ![b] = stage]
      BY <2>4 DEF CloseCpio, FailRead, Goto, Writes
    <3>4. QED
      BY <3>1, <3>2, <3>3, EmitOwning
  <2>5. CASE CloseGzip(b) \/ AbortGzip(b)
    <3>1. \E w \in Writer : Emit(b, w) /\ w.out = Append(cw[b].out, Footer)
      BY <2>5, FooterOut
    <3>2. Footer \in Record
      BY NameAssumption DEF Footer, Record, Kind
    <3>3. pc[b] \in Writes /\ UNCHANGED <<outcome, job, alone>>
      BY <2>5 DEF CloseGzip, AbortGzip, At, Goto, Writes
    <3>4. \E stage \in Writes \cup {"close"} : pc' = [pc EXCEPT ![b] = stage]
      BY <2>5 DEF CloseGzip, AbortGzip, Goto, Writes
    <3>5. QED
      BY <3>1, <3>2, <3>3, <3>4, EmitOwning
  <2>6. CASE CloseFile(b)
    <3>1. pc[b] = "close" /\ Return(b, "ok")
      BY <2>6 DEF CloseFile, At
    <3>2. ASSUME alone[b], job[b] # Library PROVE Packed(job[b], disk)
      <4>1. disk = Cells(cw[b].out)
        BY <3>1, <3>2 DEF Owners, Owning
      <4>2. QED
        BY <3>1, <3>2, <4>1, ClosedPacked
    <3>3. QED
      BY <3>1, <3>2, ReturnOwning
  <2>7. CASE FailOpen(b) \/ CloseFailed(b) \/ FailWrite(b) \/ Crash(b)
    <3>1. pc[b] # "idle" /\ (Return(b, "err") \/ Return(b, "crash"))
      BY <2>7 DEF FailOpen, CloseFailed, FailWrite, Crash, At
    <3>2. QED
      BY <3>1, ReturnOwning
  <2>8. CASE LibraryStart(b) \/ LibraryWrite(b) \/ LibraryClose(b)
    BY <2>8, LibraryOwning
  <2>9. QED
    BY <1>2, <2>1, <2>2, <2>3, <2>4, <2>5, <2>6, <2>7, <2>8 DEF Step
<1>3. QED
  BY <1>1, <1>2 DEF Next

\* When PackFilesToFile returns nil and nobody else opened dst meanwhile, dst is
\* the archive that was asked for, whatever the jobs and however many build.
THEOREM SuccessMeansPacked == Spec => []OkMeansPacked
<1>1. Init => Owners
  BY DEF Init, Owners, Owning, Writes
<1>2. Owners => OkMeansPacked
  BY DEF Owners, Owning, OkMeansPacked
<1>3. QED
  BY <1>1, <1>2, OwnersStep, TypeAlways, ProgressAlways, OrderAlways, PTL DEF Spec

\* ---------------------------------------------------------------------------
\* Builds of one job that overlap.

\* What a job writes after the records p: its next directory, its next file, the
\* end or the footer, each at the byte where p ends.
PosAfter(p) ==
  IF p = << >> THEN 0
  ELSE BodyEnd(HeaderEnd(p[Len(p)].at, p[Len(p)].name), p[Len(p)].len)
SeenIn(p, name) == \E i \in 1..Len(p) : p[i].kind = "dir" /\ p[i].name = name
FirstIn(files, p, i, k) ==
  LET unseen(j, n) == ~SeenIn(p, ParentDirs(files[j].path)[n])
  IN  /\ unseen(i, k)
      /\ \A j \in 1..i : \A n \in 1..Len(files[j].path) - 1 :
           unseen(j, n) => j = i /\ n >= k
AllIn(files, p) ==
  \A i \in 1..Len(files) : \A k \in 1..Len(files[i].path) - 1 :
    SeenIn(p, ParentDirs(files[i].path)[k])
\* The last n records of p are files, and the one before them is not.
Trail(p, n) ==
  /\ n \in 0..Len(p)
  /\ \A k \in Len(p) - n + 1..Len(p) : p[k].kind = "file"
  /\ n < Len(p) => p[Len(p) - n].kind # "file"
Rec(kind, name, mode, len, at) ==
  [kind |-> kind, name |-> name, mode |-> mode, at |-> at, size |-> len % Wrap, len |-> len]

DirNext(files, p, r) ==
  \E i \in 1..Len(files) : \E k \in 1..Len(files[i].path) - 1 :
    FirstIn(files, p, i, k) /\ r = Rec("dir", ParentDirs(files[i].path)[k], 493, 0, PosAfter(p))
FileNext(files, p, r) ==
  /\ AllIn(files, p)
  /\ \E n \in 0..Len(files) - 1 :
       Trail(p, n) /\ r = Rec("file", files[n + 1].path, Mode(files[n + 1]),
                              BodyLen[files[n + 1].source], PosAfter(p))
EndNext(files, p, r) ==
  AllIn(files, p) /\ Trail(p, Len(files)) /\ r = Rec("end", Trailer, 0, 0, PosAfter(p))
Successor(files, p, r) ==
  \/ /\ p # << >> => p[Len(p)].kind \in {"dir", "file"}
     /\ DirNext(files, p, r) \/ FileNext(files, p, r) \/ EndNext(files, p, r)
  \/ p # << >> /\ p[Len(p)].kind = "end" /\ r = Footer

\* The stream of a build of the job that has met no error.
Legit(files, s) == \A k \in 1..Len(s) : Successor(files, SubSeq(s, 1, k - 1), s[k])

LEMMA SameSeq ==
  ASSUME NEW S, NEW a \in Seq(S), NEW b \in Seq(S), Len(a) = Len(b),
         \A k \in 1..Len(a) : a[k] = b[k]
  PROVE  a = b
OBVIOUS

LEMMA TrailUnique ==
  ASSUME NEW p \in Seq(Record), NEW n, NEW m, Trail(p, n), Trail(p, m)
  PROVE  n = m
<1>1. Len(p) \in Nat /\ n \in 0..Len(p) /\ m \in 0..Len(p)
  BY DEF Trail
<1>2. ASSUME NEW i, NEW j, Trail(p, i), Trail(p, j), i < j PROVE FALSE
  <2>1. i \in 0..Len(p) /\ j \in 0..Len(p) /\ Len(p) - i \in Len(p) - j + 1..Len(p)
    BY <1>1, <1>2 DEF Trail
  <2>2. p[Len(p) - i].kind = "file"
    BY <1>2, <2>1 DEF Trail
  <2>3. p[Len(p) - i].kind # "file"
    BY <1>1, <1>2, <2>1 DEF Trail
  <2>4. QED
    BY <2>2, <2>3
<1>3. ~(n < m) /\ ~(m < n)
  BY <1>2
<1>4. QED
  BY <1>1, <1>3

LEMMA FirstUnique ==
  ASSUME NEW files, NEW p, NEW i \in 1..Len(files), NEW k \in 1..Len(files[i].path) - 1,
         NEW j \in 1..Len(files), NEW n \in 1..Len(files[j].path) - 1,
         Len(files) \in Nat, Len(files[i].path) \in Nat, Len(files[j].path) \in Nat,
         FirstIn(files, p, i, k), FirstIn(files, p, j, n)
  PROVE  i = j /\ k = n
<1>1. i \in Nat /\ j \in Nat /\ k \in Nat /\ n \in Nat
  OBVIOUS
<1>2. i \in 1..j => i = j /\ k >= n
  BY DEF FirstIn
<1>3. j \in 1..i => i = j /\ n >= k
  BY DEF FirstIn
<1>4. i \in 1..j \/ j \in 1..i
  BY <1>1
<1>5. i = j
  BY <1>2, <1>3, <1>4
<1>6. QED
  BY <1>1, <1>2, <1>3, <1>5

\* A job leaves no choice.
LEMMA OneSuccessor ==
  ASSUME NEW files \in Jobs, NEW p \in Seq(Record), NEW r, NEW q,
         Successor(files, p, r), Successor(files, p, q)
  PROVE  r = q
<1>1. Len(files) \in Nat /\ \A i \in 1..Len(files) : Len(files[i].path) \in Nat
  BY JobAssumption, PathAssumption
<1>2. \A i, j \in 1..Len(files) : \A k \in 1..Len(files[i].path) - 1 : \A n \in 1..Len(files[j].path) - 1 :
        FirstIn(files, p, i, k) /\ FirstIn(files, p, j, n) => i = j /\ k = n
  BY <1>1, FirstUnique
<1>3. \A n, m : Trail(p, n) /\ Trail(p, m) => n = m
  BY TrailUnique
<1>4. \A i \in 1..Len(files) : \A k \in 1..Len(files[i].path) - 1 :
        FirstIn(files, p, i, k) => ~AllIn(files, p)
  BY DEF FirstIn, AllIn
<1>5. DirNext(files, p, r) /\ DirNext(files, p, q) => r = q
  BY <1>2 DEF DirNext
<1>6. FileNext(files, p, r) /\ FileNext(files, p, q) => r = q
  BY <1>3 DEF FileNext
<1>7. EndNext(files, p, r) /\ EndNext(files, p, q) => r = q
  BY DEF EndNext
<1>8. \A x, y : DirNext(files, p, x) => ~FileNext(files, p, y) /\ ~EndNext(files, p, y)
  BY <1>4 DEF DirNext, FileNext, EndNext
<1>9. \A x, y : FileNext(files, p, x) => ~EndNext(files, p, y)
  <2>1. Len(files) \notin 0..Len(files) - 1
    BY <1>1
  <2>2. QED
    BY <1>3, <2>1 DEF FileNext, EndNext
<1>10. QED
  BY <1>5, <1>6, <1>7, <1>8, <1>9 DEF Successor

LEMMA LegitAppend ==
  ASSUME NEW files, NEW s \in Seq(Record), NEW r \in Record,
         Legit(files, s), Successor(files, s, r)
  PROVE  Legit(files, Append(s, r))
<1> DEFINE t == Append(s, r)
<1>1. Len(s) \in Nat /\ t \in Seq(Record) /\ Len(t) = Len(s) + 1 /\ t[Len(s) + 1] = r
      /\ \A k \in 1..Len(s) : t[k] = s[k]
  OBVIOUS
<1>2. \A k \in 1..Len(s) + 1 : SubSeq(t, 1, k - 1) = SubSeq(s, 1, k - 1)
  OBVIOUS
<1>3. SubSeq(s, 1, Len(s)) = s
  OBVIOUS
<1> HIDE DEF t
<1>4. ASSUME NEW k \in 1..Len(t) PROVE Successor(files, SubSeq(t, 1, k - 1), t[k])
  <2>1. CASE k = Len(s) + 1
    <3>1. k - 1 = Len(s)
      BY <1>1, <2>1
    <3>2. SubSeq(t, 1, k - 1) = s
      BY <1>1, <1>2, <1>3, <3>1, <2>1
    <3>3. QED
      BY <1>1, <2>1, <3>2
  <2>2. CASE k # Len(s) + 1
    <3>1. k \in 1..Len(s)
      BY <1>1, <2>2
    <3>2. SubSeq(t, 1, k - 1) = SubSeq(s, 1, k - 1) /\ t[k] = s[k]
      BY <1>1, <1>2, <3>1
    <3>3. QED
      BY <3>1, <3>2 DEF Legit
  <2>3. QED
    BY <2>1, <2>2
<1>5. QED
  BY <1>4 DEF Legit, t

\* Two streams of a job agree as far as both go.
LEMMA Agree ==
  ASSUME NEW files \in Jobs, NEW s \in Seq(Record), NEW t \in Seq(Record),
         Legit(files, s), Legit(files, t), NEW k \in 1..Len(s), k <= Len(t)
  PROVE  s[k] = t[k]
<1> DEFINE T == {i \in 1..Len(s) : i <= Len(t) /\ s[i] # t[i]}
<1>1. SUFFICES ASSUME T # {} PROVE FALSE
  OBVIOUS
<1>2. Len(s) \in Nat /\ Len(t) \in Nat /\ T \subseteq Nat
  OBVIOUS
<1>3. PICK i \in T : \A j \in T : i <= j
  BY <1>1, <1>2, LeastNat
<1>4. i \in 1..Len(s) /\ i \in 1..Len(t) /\ s[i] # t[i]
  BY <1>2
<1>5. \A j \in 1..i - 1 : s[j] = t[j]
  BY <1>2, <1>3, <1>4
<1>6. SubSeq(s, 1, i - 1) = SubSeq(t, 1, i - 1) /\ SubSeq(s, 1, i - 1) \in Seq(Record)
  BY <1>4, <1>5
<1>7. Successor(files, SubSeq(s, 1, i - 1), s[i]) /\ Successor(files, SubSeq(t, 1, i - 1), t[i])
  BY <1>4 DEF Legit
<1>8. QED
  BY <1>4, <1>6, <1>7, OneSuccessor

\* Nothing comes after the footer.
LEMMA FooterLast ==
  ASSUME NEW files, NEW s \in Seq(Record), Legit(files, s), NEW n \in 1..Len(s),
         s[n].kind = "footer"
  PROVE  n = Len(s)
<1> SUFFICES ASSUME n # Len(s) PROVE FALSE
  OBVIOUS
<1>1. n + 1 \in 1..Len(s) /\ n + 1 - 1 = n
  OBVIOUS
<1> DEFINE p == SubSeq(s, 1, n)
<1>2. p # << >> /\ Len(p) = n /\ p[n] = s[n]
  OBVIOUS
<1> HIDE DEF p
<1>3. Successor(files, p, s[n + 1])
  BY <1>1 DEF Legit, p
<1>4. QED
  BY <1>2, <1>3 DEF Successor

Good(b) ==
  /\ job[b] # Library
  /\ pc[b] \in {"dirs", "files", "footer", "close"} \/ (pc[b] = "idle" /\ outcome[b] = "ok")

Streams == \A b \in Builders :
  /\ Good(b) => Legit(job[b], cw[b].out)
  /\ pc[b] \in {"dirs", "files"} => cw[b].pos = PosAfter(cw[b].out)

\* Each cell is of the stream of some build, one that goes well unless it will
\* open the file again.
FromBuilds ==
  \A k \in 1..Len(disk) : disk[k] # << >> =>
    Len(disk[k]) = k /\ \E b \in Builders : Good(b) => Legit(job[b], disk[k])

\* All that the build has written is there.
HasIn(cells, n) == n <= Len(cells) /\ \A k \in 1..n : cells[k] # << >>
HasCells(n) == HasIn(disk, n)
Whole(files, s) ==
  s # << >> /\ Legit(files, s) /\ s[Len(s)].kind = "footer" /\ Packed(files, Cells(s))
Covers(b) ==
  Good(b) =>
    /\ pc[b] # "idle" => HasCells(Len(cw[b].out))
    /\ pc[b] = "idle" => \E s \in Seq(Record) : Whole(job[b], s) /\ HasCells(Len(s))

\* The build that emptied the file last has left no gap in it.
Covered ==
  /\ disk # << >> => disk[Len(disk)] # << >>
  /\ \E b \in Builders : Covers(b)

Overlap == Streams /\ FromBuilds /\ Covered

\* The builds that b is not see nothing of its step but the file.
OthersKeep(b) ==
  \A q \in Builders \ {b} :
    pc'[q] = pc[q] /\ outcome'[q] = outcome[q] /\ job'[q] = job[q] /\ cw'[q] = cw[q]

LEMMA OtherGood ==
  ASSUME NEW b, OthersKeep(b), NEW q \in Builders, q # b
  PROVE  Good(q)' = Good(q) /\ job'[q] = job[q] /\ cw'[q] = cw[q] /\ pc'[q] = pc[q]
BY DEF OthersKeep, Good

\* A step that leaves the file alone.
LEMMA QuietOverlap ==
  ASSUME Overlap, NEW b \in Builders, OthersKeep(b), disk' = disk,
         Good(b)' => Good(b) /\ job'[b] = job[b] /\ Legit(job'[b], cw'[b].out),
         pc'[b] \notin {"dirs", "files"},
         Covers(b) => Covers(b)'
  PROVE  Overlap'
<1>1. Streams'
  BY OtherGood DEF Overlap, Streams
<1>2. \A q \in Builders : Good(q)' => Good(q) /\ job'[q] = job[q]
  BY OtherGood
<1>3. FromBuilds'
  BY <1>2 DEF Overlap, FromBuilds
<1>4. ASSUME NEW q \in Builders, Covers(q) PROVE Covers(q)'
  <2>1. CASE q = b
    BY <1>4, <2>1
  <2>2. CASE q # b
    BY <1>4, <2>2, OtherGood DEF Covers, HasCells, HasIn
  <2>3. QED
    BY <2>1, <2>2
<1>5. Covered'
  BY <1>4 DEF Overlap, Covered
<1>6. QED
  BY <1>1, <1>3, <1>5 DEF Overlap

\* The stream s is stored in the cell n of what was old.
Stored(old, new, s, n) ==
  /\ Len(new) \in Nat /\ n \in 1..Len(new) /\ Len(new) >= Len(old)
  /\ Len(new) = n \/ Len(new) = Len(old)
  /\ new[n] = s
  /\ \A k \in 1..Len(new) : k # n =>
       /\ k <= Len(old) => new[k] = old[k]
       /\ ~(k <= Len(old)) => new[k] = << >>

LEMMA StoreFacts ==
  ASSUME NEW cells \in Seq(Seq(Record)), NEW s \in Seq(Record), s # << >>
  PROVE  Stored(cells, Store(cells, s), s, Len(s))
<1> DEFINE n == Len(s)
           m == IF Len(cells) > n THEN Len(cells) ELSE n
           new == Store(cells, s)
<1>1. n \in Nat /\ n > 0 /\ Len(cells) \in Nat
  OBVIOUS
<1>2. m \in Nat /\ n \in 1..m /\ m >= Len(cells) /\ (m = n \/ m = Len(cells))
  BY <1>1
<1>3. new = [k \in 1..m |-> IF k = n THEN s ELSE IF k <= Len(cells) THEN cells[k] ELSE << >>]
  BY DEF Store
<1> HIDE DEF n, m, new
<1>4. Len(new) = m
  BY <1>2, <1>3
<1>5. new[n] = s /\ \A k \in 1..m : k # n => new[k] = IF k <= Len(cells) THEN cells[k] ELSE << >>
  BY <1>2, <1>3
<1>6. QED
  BY <1>2, <1>4, <1>5 DEF n, new, Stored

\* A step that writes the next record of b.
LEMMA EmitOverlap ==
  ASSUME TypeInv, Overlap, NEW b \in Builders, NEW w \in Writer, NEW r \in Record,
         Emit(b, w), w.out = Append(cw[b].out, r), OthersKeep(b), job'[b] = job[b],
         pc'[b] # "idle", pc[b] # "idle",
         Good(b)' => Good(b) /\ Successor(job[b], cw[b].out, r),
         pc'[b] \in {"dirs", "files"} => w.pos = PosAfter(w.out)
  PROVE  Overlap'
<1> DEFINE out == cw[b].out
           n == Len(out) + 1
<1>1. /\ out \in Seq(Record) /\ w.out \in Seq(Record) /\ cw'[b] = w
      /\ Len(w.out) = n /\ w.out # << >> /\ Len(out) \in Nat
      /\ disk \in Seq(Seq(Record)) /\ disk' = Store(disk, w.out) /\ Len(disk) \in Nat
  <2>1. cw[b] \in Writer /\ cw'[b] = w /\ disk \in Seq(Seq(Record)) /\ disk' = Store(disk, w.out)
    BY DEF TypeInv, TypeOK, Emit
  <2>2. out \in Seq(Record) /\ w.out \in Seq(Record)
    BY <2>1 DEF Writer
  <2> HIDE DEF out
  <2>3. w.out = Append(out, r)
    BY DEF out
  <2>4. Len(w.out) = n /\ w.out # << >> /\ Len(out) \in Nat /\ Len(disk) \in Nat
    <3>1. Len(out) \in Nat /\ Len(Append(out, r)) = Len(out) + 1 /\ Append(out, r) # << >>
      BY <2>2
    <3>2. Len(disk) \in Nat
      BY <2>1
    <3>3. QED
      BY <2>3, <3>1, <3>2
  <2>5. QED
    BY <2>1, <2>2, <2>4
<1>2. Good(b)' => Legit(job[b], w.out)
  BY <1>1, LegitAppend DEF Overlap, Streams
<1> HIDE DEF n, out
<1>3. Stored(disk, disk', w.out, n)
  BY <1>1, StoreFacts
<1>4. /\ Len(disk') \in Nat /\ n \in 1..Len(disk') /\ Len(disk') >= Len(disk)
      /\ Len(disk') = n \/ Len(disk') = Len(disk)
      /\ disk'[n] = w.out
      /\ \A k \in 1..Len(disk') : k # n =>
           /\ k <= Len(disk) => disk'[k] = disk[k]
           /\ ~(k <= Len(disk)) => disk'[k] = << >>
  BY <1>3 DEF Stored
<1>5. Streams'
  <2>1. ASSUME NEW q \in Builders
        PROVE  /\ Good(q)' => Legit(job'[q], cw'[q].out)
               /\ pc'[q] \in {"dirs", "files"} => cw'[q].pos = PosAfter(cw'[q].out)
    <3>1. CASE q = b
      BY <1>1, <1>2, <3>1
    <3>2. CASE q # b
      BY <3>2, OtherGood DEF Overlap, Streams
    <3>3. QED
      BY <3>1, <3>2
  <2>2. QED
    BY <2>1 DEF Streams
<1>6. FromBuilds'
  <2>1. ASSUME NEW k \in 1..Len(disk'), disk'[k] # << >>
        PROVE  Len(disk'[k]) = k /\ \E q \in Builders : Good(q)' => Legit(job'[q], disk'[k])
    <3>1. CASE k = n
      BY <1>1, <1>2, <1>4, <3>1
    <3>2. CASE k # n
      <4>0. k <= Len(disk)
        BY <1>4, <2>1, <3>2
      <4>1. k \in 1..Len(disk) /\ disk'[k] = disk[k]
        BY <1>1, <1>4, <2>1, <3>2, <4>0
      <4>2. Len(disk[k]) = k /\ \E q \in Builders : Good(q) => Legit(job[q], disk[k])
        BY <2>1, <4>1 DEF Overlap, FromBuilds
      <4>3. \A q \in Builders : Good(q)' => Good(q) /\ job'[q] = job[q]
        BY OtherGood
      <4>4. QED
        BY <4>1, <4>2, <4>3
    <3>3. QED
      BY <3>1, <3>2
  <2>2. QED
    BY <2>1 DEF FromBuilds
<1>7. ASSUME NEW m \in Nat, HasIn(disk, m) PROVE HasIn(disk', m)
  <2>1. m <= Len(disk') /\ m <= Len(disk)
    BY <1>1, <1>4, <1>7 DEF HasIn
  <2>2. ASSUME NEW k \in 1..m PROVE disk'[k] # << >>
    <3>1. disk[k] # << >> /\ k <= Len(disk) /\ k \in 1..Len(disk')
      BY <1>1, <1>4, <1>7, <2>1 DEF HasIn
    <3>2. QED
      BY <1>1, <1>4, <3>1
  <2>3. QED
    BY <2>1, <2>2 DEF HasIn
<1>8. ASSUME NEW q \in Builders, Covers(q) PROVE Covers(q)'
  <2>1. CASE q = b
    <3>1. SUFFICES ASSUME Good(b)' PROVE HasIn(disk', n)
      BY <1>1, <2>1 DEF Covers, HasCells
    <3>2. HasIn(disk, Len(out))
      BY <1>8, <2>1, <3>1 DEF Covers, HasCells, out
    <3>3. HasIn(disk', Len(out))
      BY <1>1, <1>7, <3>2
    <3>4. ASSUME NEW k \in 1..n PROVE disk'[k] # << >>
      <4>1. k = n \/ k \in 1..Len(out)
        BY <1>1 DEF n
      <4>2. QED
        BY <1>1, <1>4, <3>3, <4>1 DEF HasIn
    <3>5. QED
      BY <1>4, <3>4 DEF HasIn
  <2>2. CASE q # b
    <3>1. Good(q)' = Good(q) /\ job'[q] = job[q] /\ cw'[q] = cw[q] /\ pc'[q] = pc[q]
      BY <2>2, OtherGood
    <3>2. Len(cw[q].out) \in Nat /\ \A s \in Seq(Record) : Len(s) \in Nat
      BY DEF TypeInv, TypeOK, Writer
    <3>3. QED
      BY <1>7, <1>8, <3>1, <3>2 DEF Covers, HasCells
  <2>3. QED
    BY <2>1, <2>2
<1>9. disk'[Len(disk')] # << >>
  <2>1. CASE Len(disk') = n
    BY <1>1, <1>4, <2>1
  <2>2. CASE Len(disk') # n
    <3>1. Len(disk') = Len(disk) /\ Len(disk) \in 1..Len(disk')
      BY <1>1, <1>4, <2>2 DEF n
    <3>2. disk # << >> /\ disk'[Len(disk)] = disk[Len(disk)]
      BY <1>1, <1>4, <2>2, <3>1
    <3>3. QED
      BY <3>1, <3>2 DEF Overlap, Covered
  <2>3. QED
    BY <2>1, <2>2
<1>10. Covered'
  BY <1>8, <1>9 DEF Overlap, Covered
<1>11. QED
  BY <1>5, <1>6, <1>10 DEF Overlap

\* ---------------------------------------------------------------------------
\* What a build that goes well writes next is its job's successor.

LEMMA PutRec ==
  ASSUME NEW w \in Writer, NEW kind \in Kind, NEW name \in Names, NEW mode \in Nat, NEW len \in Nat
  PROVE  LET v == Put(w, kind, name, mode, len)
             r == Rec(kind, name, mode, len, w.pos)
         IN  r \in Record /\ v.out = Append(w.out, r) /\ v.pos = PosAfter(v.out)
<1> DEFINE v == Put(w, kind, name, mode, len)
           r == Rec(kind, name, mode, len, w.pos)
<1>1. r \in Record /\ v.out = Append(w.out, r)
  BY PutOut DEF Rec
<1>2. v.pos = BodyEnd(HeaderEnd(w.pos, name), len)
  BY DEF Put
<1>3. r.at = w.pos /\ r.name = name /\ r.len = len
  BY DEF Rec
<1>4. w.out \in Seq(Record)
  BY DEF Writer
<1> HIDE DEF v, r
<1>5. /\ Len(Append(w.out, r)) = Len(w.out) + 1 /\ Append(w.out, r)[Len(w.out) + 1] = r
      /\ Append(w.out, r) # << >>
  BY <1>1, <1>4
<1>6. v.pos = PosAfter(v.out)
  BY <1>1, <1>2, <1>3, <1>5 DEF PosAfter
<1>7. QED
  BY <1>1, <1>6 DEF v, r

LEMMA StageFacts ==
  ASSUME TypeInv, Progress, NEW b \in Builders, pc[b] \in {"dirs", "files"}
  PROVE  /\ cw[b] \in Writer /\ cw[b].out \in Seq(Record) /\ job[b] \in Jobs
         /\ Trail(cw[b].out, next[b] - 1)
         /\ cw[b].out # << >> => cw[b].out[Len(cw[b].out)].kind \in {"dir", "file"}
         /\ \A name : name \in Seen(b) <=> SeenIn(cw[b].out, name)
<1> DEFINE out == cw[b].out
           n == next[b] - 1
<1>1. cw[b] \in Writer /\ job[b] \in Jobs /\ next[b] \in Nat \ {0}
  BY DEF TypeInv, TypeOK, Asking
<1>2. out \in Seq(Record) /\ Len(out) \in Nat /\ n \in Nat
  BY <1>1 DEF Writer
<1>3. Begun(job[b], out, n)
  BY DEF Progress, InProgress
<1>4. \A name : name \in Seen(b) <=> SeenIn(out, name)
  BY <1>1, SeenDir DEF SeenIn
<1> HIDE DEF out, n
<1>5. Len(out) >= n /\ \A k \in 1..Len(out) - n : out[k].kind = "dir"
  BY <1>3 DEF Begun
<1>6. ASSUME NEW k \in Len(out) - n + 1..Len(out) PROVE out[k].kind = "file"
  <2>1. k - (Len(out) - n) \in 1..n /\ Len(out) - n + (k - (Len(out) - n)) = k
    BY <1>2, <1>5
  <2>2. QED
    BY <1>3, <2>1 DEF Begun, IsFile
<1>7. n < Len(out) => out[Len(out) - n].kind # "file"
  <2>1. n < Len(out) => Len(out) - n \in 1..Len(out) - n
    BY <1>2
  <2>2. QED
    BY <1>5, <2>1
<1>8. Trail(out, n)
  BY <1>2, <1>5, <1>6, <1>7 DEF Trail
<1>9. out # << >> => out[Len(out)].kind \in {"dir", "file"}
  <2>1. SUFFICES ASSUME out # << >> PROVE out[Len(out)].kind \in {"dir", "file"}
    OBVIOUS
  <2>2. Len(out) \in 1..Len(out)
    BY <1>2, <2>1
  <2>3. Len(out) \in 1..Len(out) - n \/ Len(out) \in Len(out) - n + 1..Len(out)
    BY <1>2, <1>5, <2>2
  <2>4. QED
    BY <1>5, <1>6, <2>3
<1>10. QED
  BY <1>1, <1>2, <1>4, <1>8, <1>9 DEF out, n

LEMMA DirSuccessor ==
  ASSUME TypeInv, Progress, Streams, NEW b \in Builders, PackDir(b)
  PROVE  \E w \in Writer, r \in Record :
           /\ Emit(b, w) /\ w.out = Append(cw[b].out, r) /\ w.pos = PosAfter(w.out)
           /\ Successor(job[b], cw[b].out, r)
<1>1. PICK i \in 1..Len(job[b]) : \E k \in 1..Len(job[b][i].path) - 1 :
        /\ FirstUnseen(b, i, k)
        /\ Emit(b, WriteDir(cw[b], ParentDirs(job[b][i].path)[k], 493))
  BY DEF PackDir
<1>2. PICK k \in 1..Len(job[b][i].path) - 1 :
        /\ FirstUnseen(b, i, k)
        /\ Emit(b, WriteDir(cw[b], ParentDirs(job[b][i].path)[k], 493))
  BY <1>1
<1> DEFINE out == cw[b].out
           name == ParentDirs(job[b][i].path)[k]
           w == WriteDir(cw[b], name, 493)
           r == Rec("dir", name, 493, 0, cw[b].pos)
<1>3. pc[b] = "dirs"
  BY DEF PackDir, At
<1>4. /\ cw[b] \in Writer /\ out \in Seq(Record) /\ cw[b].pos = PosAfter(out)
      /\ out # << >> => out[Len(out)].kind \in {"dir", "file"}
      /\ \A x : x \in Seen(b) <=> SeenIn(out, x)
  BY <1>3, StageFacts DEF Streams
<1>5. name \in Names /\ w \in Writer
  <2>1. \A n \in 1..Len(job[b]) : \A m \in 1..Len(job[b][n].path) - 1 :
          /\ ParentDirs(job[b][n].path)[m] \in Names
          /\ WriteDir(cw[b], ParentDirs(job[b][n].path)[m], 493) \in Writer
    BY <1>3, DirType
  <2>2. QED
    BY <2>1
<1>6. FirstIn(job[b], out, i, k)
  BY <1>2, <1>4 DEF FirstUnseen, FirstIn
<1>7. DirNext(job[b], out, r)
  BY <1>4, <1>6 DEF DirNext
<1> HIDE DEF name
<1>8. r \in Record /\ w.out = Append(out, r) /\ w.pos = PosAfter(w.out)
  <2>1. "dir" \in Kind /\ 493 \in Nat /\ 0 \in Nat
    BY DEF Kind
  <2>2. \A v \in Writer, x \in Names :
          /\ Rec("dir", x, 493, 0, v.pos) \in Record
          /\ Put(v, "dir", x, 493, 0).out = Append(v.out, Rec("dir", x, 493, 0, v.pos))
          /\ Put(v, "dir", x, 493, 0).pos = PosAfter(Put(v, "dir", x, 493, 0).out)
    BY <2>1, PutRec
  <2>3. cw[b] \in Writer /\ name \in Names
    BY <1>4, <1>5
  <2>4. /\ Rec("dir", name, 493, 0, cw[b].pos) \in Record
        /\ Put(cw[b], "dir", name, 493, 0).out
             = Append(cw[b].out, Rec("dir", name, 493, 0, cw[b].pos))
        /\ Put(cw[b], "dir", name, 493, 0).pos = PosAfter(Put(cw[b], "dir", name, 493, 0).out)
    BY <2>2, <2>3
  <2>5. QED
    BY <2>4 DEF WriteDir
<1>9. Emit(b, w)
  BY <1>2 DEF name
<1> HIDE DEF w, r
<1>10. Successor(job[b], out, r)
  BY <1>4, <1>7 DEF Successor
<1>11. QED
  BY <1>5, <1>8, <1>9, <1>10

LEMMA FileSuccessor ==
  ASSUME TypeInv, Progress, Streams, NEW b \in Builders, PackFile(b)
  PROVE  \E w \in Writer, r \in Record :
           /\ Emit(b, w) /\ w.out = Append(cw[b].out, r) /\ w.pos = PosAfter(w.out)
           /\ Successor(job[b], cw[b].out, r)
<1> DEFINE f == job[b][next[b]]
           out == cw[b].out
           w == WriteFile(cw[b], f.path, Mode(f), BodyLen[f.source])
           r == Rec("file", f.path, Mode(f), BodyLen[f.source], cw[b].pos)
<1>1. pc[b] \in {"dirs", "files"} /\ AllSeen(b) /\ Emit(b, w)
  BY DEF PackFile
<1>2. next[b] \in 1..Len(job[b]) /\ w \in Writer
  BY NextType DEF PackFile
<1>3. /\ cw[b] \in Writer /\ out \in Seq(Record) /\ job[b] \in Jobs /\ cw[b].pos = PosAfter(out)
      /\ Trail(out, next[b] - 1) /\ (out # << >> => out[Len(out)].kind \in {"dir", "file"})
      /\ \A x : x \in Seen(b) <=> SeenIn(out, x)
  BY <1>1, StageFacts DEF Streams
<1>4. f.path \in Names /\ f.mode \in Nat /\ BodyLen[f.source] \in Nat
  BY <1>2, <1>3, FileType, JobAssumption DEF TypeInv, TypeOK
<1>5. Mode(f) \in Nat /\ "file" \in Kind
  BY <1>4 DEF Mode, Kind
<1>6. AllIn(job[b], out)
  BY <1>1, <1>3 DEF AllSeen, AllIn
<1>7. next[b] - 1 \in 0..Len(job[b]) - 1 /\ next[b] - 1 + 1 = next[b]
  BY <1>2
<1>8. FileNext(job[b], out, r)
  BY <1>3, <1>6, <1>7 DEF FileNext
<1> HIDE DEF f
<1>9. r \in Record /\ w.out = Append(out, r) /\ w.pos = PosAfter(w.out)
  BY <1>3, <1>4, <1>5, PutRec DEF WriteFile
<1> HIDE DEF w, r
<1>10. Successor(job[b], out, r)
  BY <1>3, <1>8 DEF Successor
<1>11. QED
  BY <1>1, <1>2, <1>9, <1>10

LEMMA EndSuccessor ==
  ASSUME TypeInv, Progress, Streams, NEW b \in Builders, CloseCpio(b)
  PROVE  \E w \in Writer, r \in Record :
           /\ Emit(b, w) /\ w.out = Append(cw[b].out, r)
           /\ Successor(job[b], cw[b].out, r)
<1> DEFINE out == cw[b].out
           w == Close(cw[b])
           r == Rec("end", Trailer, 0, 0, cw[b].pos)
<1>1. pc[b] \in {"dirs", "files"} /\ AllSeen(b) /\ Emit(b, w) /\ next[b] > Len(job[b])
  BY DEF CloseCpio
<1>2. /\ cw[b] \in Writer /\ out \in Seq(Record) /\ job[b] \in Jobs /\ cw[b].pos = PosAfter(out)
      /\ Trail(out, next[b] - 1) /\ (out # << >> => out[Len(out)].kind \in {"dir", "file"})
      /\ \A x : x \in Seen(b) <=> SeenIn(out, x)
  BY <1>1, StageFacts DEF Streams
<1>3. next[b] - 1 = Len(job[b])
  <2>1. next[b] - 1 <= Len(job[b]) /\ next[b] \in Nat
    BY <1>1 DEF Progress, InProgress, TypeInv, TypeOK
  <2>2. Len(job[b]) \in Nat
    BY <1>2, JobAssumption
  <2>3. QED
    BY <1>1, <2>1, <2>2
<1>4. AllIn(job[b], out)
  BY <1>1, <1>2 DEF AllSeen, AllIn
<1>5. EndNext(job[b], out, r)
  BY <1>2, <1>3, <1>4 DEF EndNext
<1>6. r \in Record /\ w.out = Append(out, r)
  <2>1. "end" \in Kind /\ 0 \in Nat /\ Trailer \in Names
    BY NameAssumption DEF Kind
  <2>2. r \in Record /\ Put(cw[b], "end", Trailer, 0, 0).out = Append(out, r)
    BY <1>2, <2>1, PutRec
  <2>3. w.out = Put(cw[b], "end", Trailer, 0, 0).out
    BY DEF Close, Put
  <2>4. QED
    BY <2>2, <2>3
<1>7. w \in Writer
  BY <1>2, CloseType
<1> HIDE DEF w, r
<1>8. Successor(job[b], out, r)
  BY <1>2, <1>5 DEF Successor
<1>9. QED
  BY <1>1, <1>6, <1>7, <1>8

LEMMA FooterSuccessor ==
  ASSUME TypeInv, Progress, NEW b \in Builders, pc[b] = "footer"
  PROVE  Successor(job[b], cw[b].out, Footer)
<1>1. PICK s \in Seq(Record), e \in Record : e.kind = "end" /\ cw[b].out = Append(s, e)
  BY DEF Progress, InProgress
<1>2. /\ Append(s, e) # << >> /\ Len(Append(s, e)) = Len(s) + 1
      /\ Append(s, e)[Len(s) + 1] = e
  OBVIOUS
<1>3. cw[b].out # << >> /\ cw[b].out[Len(cw[b].out)].kind = "end"
  BY <1>1, <1>2
<1>4. QED
  BY <1>3 DEF Successor

LEMMA StepKeeps ==
  ASSUME TypeInv, NEW b \in Builders, Step(b)
  PROVE  OthersKeep(b)
<1>1. /\ pc \in [Builders -> Stage] /\ job \in [Builders -> Jobs \cup {Library}]
      /\ cw \in [Builders -> Writer] /\ outcome \in [Builders -> {"none", "ok", "err", "crash"}]
  BY DEF TypeInv, TypeOK
<1>2. CASE Call(b)
  BY <1>1, <1>2 DEF Call, OthersKeep
<1>3. CASE Open(b)
  BY <1>1, <1>3 DEF Open, OthersKeep
<1>4. CASE PackDir(b)
  BY <1>1, <1>4 DEF PackDir, Emit, Goto, OthersKeep
<1>5. CASE PackFile(b)
  BY <1>1, <1>5 DEF PackFile, Emit, Goto, OthersKeep
<1>6. CASE CloseCpio(b) \/ FailRead(b)
  BY <1>1, <1>6 DEF CloseCpio, FailRead, Emit, Goto, OthersKeep
<1>7. CASE CloseGzip(b) \/ AbortGzip(b)
  BY <1>1, <1>7 DEF CloseGzip, AbortGzip, Emit, Goto, OthersKeep
<1>8. CASE CloseFile(b) \/ FailOpen(b) \/ CloseFailed(b) \/ FailWrite(b) \/ Crash(b)
  BY <1>1, <1>8 DEF CloseFile, FailOpen, CloseFailed, FailWrite, Crash, Return, OthersKeep
<1>9. CASE LibraryStart(b) \/ LibraryClose(b)
  BY <1>1, <1>9 DEF LibraryStart, LibraryClose, Goto, OthersKeep
<1>10. CASE LibraryWrite(b)
  BY <1>1, <1>10 DEF LibraryWrite, Goto, OthersKeep
<1>11. QED
  BY <1>2, <1>3, <1>4, <1>5, <1>6, <1>7, <1>8, <1>9, <1>10 DEF Step

\* To open the file is to begin its only stream.
LEMMA OpenOverlap ==
  ASSUME TypeInv, Progress, Overlap, NEW b \in Builders, OthersKeep(b), Open(b)
  PROVE  Overlap'
<1>1. pc'[b] = "dirs" /\ disk' = << >> /\ job' = job /\ cw' = cw
  BY DEF Open, TypeInv, TypeOK
<1>2. cw[b] = NewWriter
  BY DEF Open, At, Progress, InProgress
<1>3. cw'[b].out = << >> /\ cw'[b].pos = PosAfter(cw'[b].out)
  BY <1>1, <1>2 DEF NewWriter, PosAfter
<1>4. \A files : Legit(files, << >>)
  BY DEF Legit
<1>5. ASSUME NEW q \in Builders
      PROVE  /\ Good(q)' => Legit(job'[q], cw'[q].out)
             /\ pc'[q] \in {"dirs", "files"} => cw'[q].pos = PosAfter(cw'[q].out)
  <2>1. CASE q = b
    BY <1>3, <1>4, <2>1
  <2>2. CASE q # b
    BY <2>2, OtherGood DEF Overlap, Streams
  <2>3. QED
    BY <2>1, <2>2
<1>6. Streams'
  BY <1>5 DEF Streams
<1>7. FromBuilds'
  BY <1>1 DEF FromBuilds
<1>8. HasIn(disk', Len(cw'[b].out))
  BY <1>1, <1>3 DEF HasIn
<1>9. Covers(b)'
  BY <1>1, <1>8 DEF Covers, HasCells
<1>10. Covered'
  BY <1>1, <1>9 DEF Covered
<1>11. QED
  BY <1>6, <1>7, <1>10 DEF Overlap

\* The stream of a build that returns nil is whole.
LEMMA ClosedWhole ==
  ASSUME TypeInv, Progress, Ordering, Streams, NEW b \in Builders, pc[b] = "close",
         job[b] # Library
  PROVE  cw[b].out \in Seq(Record) /\ Whole(job[b], cw[b].out)
<1>1. cw[b].out \in Seq(Record)
  BY DEF TypeInv, TypeOK, Writer
<1>2. Legit(job[b], cw[b].out)
  BY DEF Streams, Good
<1>3. Packed(job[b], Cells(cw[b].out))
  BY ClosedPacked
<1>4. PICK s \in Seq(Record), e \in Record : cw[b].out = Append(Append(s, e), Footer)
  BY DEF Progress, InProgress
<1>5. cw[b].out # << >> /\ cw[b].out[Len(cw[b].out)] = Footer
  <2>1. Append(s, e) \in Seq(Record) /\ Footer \in Record
    BY NameAssumption DEF Footer, Record, Kind
  <2>2. \A t \in Seq(Record) : Append(t, Footer) # << >> /\ Append(t, Footer)[Len(Append(t, Footer))] = Footer
    BY <2>1
  <2>3. QED
    BY <1>4, <2>1, <2>2
<1>6. QED
  BY <1>1, <1>2, <1>3, <1>5 DEF Whole, Footer

LEMMA CloseOverlap ==
  ASSUME TypeInv, Progress, Ordering, Overlap, NEW b \in Builders, OthersKeep(b), CloseFile(b)
  PROVE  Overlap'
<1>1. /\ pc[b] = "close" /\ pc'[b] = "idle" /\ outcome'[b] = "ok" /\ cw'[b] = NewWriter
      /\ disk' = disk /\ job' = job
  BY DEF CloseFile, At, Return, TypeInv, TypeOK
<1>2. Legit(job'[b], cw'[b].out)
  BY <1>1 DEF Legit, NewWriter
<1>3. Good(b)' => job[b] # Library /\ Good(b)
  BY <1>1 DEF Good
<1>4. ASSUME Covers(b) PROVE Covers(b)'
  <2>1. SUFFICES ASSUME Good(b)'
                 PROVE  \E s \in Seq(Record) : Whole(job'[b], s) /\ HasIn(disk', Len(s))
    BY <1>1 DEF Covers, HasCells
  <2>2. cw[b].out \in Seq(Record) /\ Whole(job[b], cw[b].out)
    BY <1>1, <1>3, <2>1, ClosedWhole DEF Overlap
  <2>3. HasIn(disk, Len(cw[b].out))
    BY <1>1, <1>3, <1>4, <2>1 DEF Covers, HasCells
  <2>4. QED
    BY <1>1, <2>2, <2>3
<1>5. QED
  BY <1>1, <1>2, <1>3, <1>4, QuietOverlap

\* A step to where no build goes well, that leaves the file alone.
LEMMA LostOverlap ==
  ASSUME TypeInv, Progress, Overlap, NEW b \in Builders, OthersKeep(b),
         Call(b) \/ FailOpen(b) \/ CloseFailed(b) \/ FailWrite(b) \/ Crash(b)
           \/ LibraryStart(b) \/ LibraryWrite(b) \/ LibraryClose(b)
  PROVE  Overlap'
<1>1. /\ pc \in [Builders -> Stage] /\ job \in [Builders -> Jobs \cup {Library}]
      /\ outcome \in [Builders -> {"none", "ok", "err", "crash"}]
  BY DEF TypeInv, TypeOK
<1>2. disk' = disk /\ pc'[b] \notin {"dirs", "files"} /\ ~Good(b)'
  <2>1. CASE Call(b)
    BY <1>1, <2>1 DEF Call, Good
  <2>2. CASE FailOpen(b) \/ CloseFailed(b) \/ FailWrite(b) \/ Crash(b)
    BY <1>1, <2>2 DEF FailOpen, CloseFailed, FailWrite, Crash, Return, Good
  <2>3. CASE LibraryStart(b)
    BY <1>1, <2>3 DEF LibraryStart, Good
  <2>4. CASE LibraryWrite(b)
    BY <1>1, <2>4 DEF LibraryWrite, Goto, Good
  <2>5. CASE LibraryClose(b)
    <3>1. job[b] = Library
      BY <2>5 DEF LibraryClose, At, Progress, InProgress
    <3>2. QED
      BY <1>1, <2>5, <3>1 DEF LibraryClose, Goto, Good
  <2>6. QED
    BY <2>1, <2>2, <2>3, <2>4, <2>5
<1>3. Covers(b)'
  BY <1>2 DEF Covers
<1>4. QED
  BY <1>2, <1>3, QuietOverlap

LEMMA OverlapStep == TypeInv /\ Progress /\ Ordering /\ Overlap /\ [Next]_vars => Overlap'
<1> SUFFICES ASSUME TypeInv, Progress, Ordering, Overlap, [Next]_vars PROVE Overlap'
  OBVIOUS
<1>1. CASE UNCHANGED vars
  BY <1>1 DEF Overlap, Streams, FromBuilds, Covered, Covers, Good, HasCells, vars
<1>2. ASSUME NEW b \in Builders, Step(b) PROVE Overlap'
  <2>0. OthersKeep(b) /\ pc \in [Builders -> Stage] /\ Streams
    BY <1>2, StepKeeps DEF TypeInv, TypeOK, Overlap
  <2>1. CASE Open(b)
    BY <2>0, <2>1, OpenOverlap
  <2>2. CASE PackDir(b) \/ PackFile(b)
    <3>1. PICK w \in Writer, r \in Record :
            /\ Emit(b, w) /\ w.out = Append(cw[b].out, r) /\ w.pos = PosAfter(w.out)
            /\ Successor(job[b], cw[b].out, r)
      BY <2>0, <2>2, DirSuccessor, FileSuccessor
    <3>2. pc[b] \in {"dirs", "files"} /\ pc'[b] \in {"dirs", "files"} /\ job' = job
      BY <2>0, <2>2 DEF PackDir, PackFile, At, Goto
    <3>3. Good(b)' => Good(b)
      BY <3>2 DEF Good
    <3>4. QED
      BY <2>0, <3>1, <3>2, <3>3, EmitOverlap
  <2>3. CASE CloseCpio(b)
    <3>1. PICK w \in Writer, r \in Record :
            /\ Emit(b, w) /\ w.out = Append(cw[b].out, r)
            /\ Successor(job[b], cw[b].out, r)
      BY <2>0, <2>3, EndSuccessor
    <3>2. pc[b] \in {"dirs", "files"} /\ pc'[b] = "footer" /\ job' = job
      BY <2>0, <2>3 DEF CloseCpio, Goto
    <3>3. Good(b)' => Good(b)
      BY <3>2 DEF Good
    <3>4. QED
      BY <2>0, <3>1, <3>2, <3>3, EmitOverlap
  <2>4. CASE CloseGzip(b)
    <3>1. PICK w \in Writer : Emit(b, w) /\ w.out = Append(cw[b].out, Footer)
      BY <2>4, FooterOut
    <3>2. pc[b] = "footer" /\ pc'[b] = "close" /\ job' = job /\ Footer \in Record
      BY <2>0, <2>4, NameAssumption DEF CloseGzip, At, Goto, Footer, Record, Kind
    <3>3. Good(b)' => Good(b)
      BY <3>2 DEF Good
    <3>4. Successor(job[b], cw[b].out, Footer)
      BY <3>2, FooterSuccessor
    <3>5. QED
      BY <2>0, <3>1, <3>2, <3>3, <3>4, EmitOverlap
  <2>5. CASE FailRead(b) \/ AbortGzip(b)
    <3>1. \E w \in Writer, r \in Record : Emit(b, w) /\ w.out = Append(cw[b].out, r)
      <4>1. Footer \in Record
        BY NameAssumption DEF Footer, Record, Kind
      <4>2. QED
        BY <2>5, <4>1, EndOut, FooterOut
    <3>2. pc[b] # "idle" /\ pc'[b] \in {"abort", "failed"} /\ job' = job
      BY <2>0, <2>5 DEF FailRead, AbortGzip, At, Goto
    <3>3. ~Good(b)'
      BY <3>2 DEF Good
    <3>4. QED
      BY <2>0, <3>1, <3>2, <3>3, EmitOverlap
  <2>6. CASE CloseFile(b)
    BY <2>0, <2>6, CloseOverlap
  <2>7. CASE Call(b) \/ FailOpen(b) \/ CloseFailed(b) \/ FailWrite(b) \/ Crash(b)
               \/ LibraryStart(b) \/ LibraryWrite(b) \/ LibraryClose(b)
    BY <2>0, <2>7, LostOverlap
  <2>8. QED
    BY <1>2, <2>1, <2>2, <2>3, <2>4, <2>5, <2>6, <2>7 DEF Step
<1>3. QED
  BY <1>1, <1>2 DEF Next

LEMMA OverlapInit == Init => Overlap
<1> SUFFICES ASSUME Init PROVE Overlap
  OBVIOUS
<1>1. PICK b \in Builders : TRUE
  BY BuilderAssumption
<1>2. \A q \in Builders : ~Good(q) /\ pc[q] = "idle"
  BY DEF Init, Good
<1>3. disk = << >>
  BY DEF Init
<1>4. QED
  BY <1>1, <1>2, <1>3 DEF Overlap, Streams, FromBuilds, Covered, Covers

\* Where all builds were of one job and went well, the file is their stream.
LEMMA AllPacked ==
  ASSUME TypeInv, Overlap, NEW j \in Jobs,
         \A b \in Builders : At(b, "idle") /\ outcome[b] = "ok" /\ job[b] = j
  PROVE  Packed(j, disk)
<1>1. \A b \in Builders : Good(b) /\ job[b] = j /\ pc[b] = "idle"
  BY JobAssumption DEF Good, At
<1>2. PICK s \in Seq(Record) : Whole(j, s) /\ HasIn(disk, Len(s))
  BY <1>1 DEF Overlap, Covered, Covers, HasCells
<1>3. disk \in Seq(Seq(Record)) /\ Len(s) \in Nat /\ Len(disk) \in Nat
      /\ Len(s) <= Len(disk) /\ Len(s) \in 1..Len(s)
  BY <1>2 DEF TypeInv, TypeOK, HasIn, Whole
<1>4. ASSUME NEW k \in 1..Len(disk), disk[k] # << >>
      PROVE  disk[k] \in Seq(Record) /\ Len(disk[k]) = k /\ Legit(j, disk[k])
  <2>1. disk[k] \in Seq(Record)
    BY <1>3
  <2>2. Len(disk[k]) = k /\ \E b \in Builders : Good(b) => Legit(job[b], disk[k])
    BY <1>4 DEF Overlap, FromBuilds
  <2>3. QED
    BY <1>1, <2>1, <2>2
<1>5. Legit(j, s) /\ s[Len(s)].kind = "footer"
  BY <1>2 DEF Whole
<1>6. ASSUME NEW k \in 1..Len(s) PROVE disk[k] = SubSeq(s, 1, k)
  <2>1. k \in 1..Len(disk) /\ disk[k] # << >>
    BY <1>2, <1>3 DEF HasIn
  <2>2. disk[k] \in Seq(Record) /\ Len(disk[k]) = k /\ Legit(j, disk[k])
    BY <1>4, <2>1
  <2>3. \A i \in 1..k : disk[k][i] = s[i]
    BY <1>3, <1>5, <2>2, Agree
  <2> DEFINE t == disk[k]
  <2> HIDE DEF t
  <2>4. t \in Seq(Record) /\ Len(t) = k /\ \A i \in 1..k : t[i] = s[i]
    BY <2>2, <2>3 DEF t
  <2>5. t = SubSeq(s, 1, k)
    BY <1>3, <2>4
  <2>6. QED
    BY <2>5 DEF t
<1>7. Len(disk) = Len(s)
  <2> DEFINE t == disk[Len(disk)]
  <2>1. disk # << >> /\ Len(disk) \in 1..Len(disk)
    BY <1>3
  <2>2. t # << >>
    BY <2>1 DEF Overlap, Covered
  <2>3. t \in Seq(Record) /\ Len(t) = Len(disk) /\ Legit(j, t)
    BY <1>4, <2>1, <2>2
  <2> HIDE DEF t
  <2>4. s[Len(s)] = t[Len(s)]
    BY <1>3, <1>5, <2>3, Agree
  <2>5. Len(s) \in 1..Len(t)
    BY <1>3, <2>3
  <2>6. Len(s) = Len(t)
    BY <1>5, <2>3, <2>4, <2>5, FooterLast
  <2>7. QED
    BY <2>3, <2>6
<1>8. disk = Cells(s)
  <2>1. Cells(s) \in Seq(Seq(Record)) /\ Len(Cells(s)) = Len(s)
        /\ \A k \in 1..Len(s) : Cells(s)[k] = SubSeq(s, 1, k)
    BY DEF Cells
  <2> DEFINE c == Cells(s)
  <2> HIDE DEF c
  <2>2. c \in Seq(Seq(Record)) /\ Len(c) = Len(disk) /\ \A k \in 1..Len(disk) : c[k] = disk[k]
    BY <1>6, <1>7, <2>1 DEF c
  <2>3. c = disk
    BY <1>3, <2>2, SameSeq
  <2>4. QED
    BY <2>3 DEF c
<1>9. QED
  BY <1>2, <1>8 DEF Whole

\* Builds of one job that overlap at one path tear the file in between, but once
\* all of them have returned nil it is the archive, however many they are and
\* whatever the job.
THEOREM OverlapsConverge == Spec => []OverlapConverges
<1>1. TypeInv /\ Overlap => OverlapConverges
  BY AllPacked DEF OverlapConverges
<1>2. QED
  BY <1>1, OverlapInit, OverlapStep, TypeAlways, ProgressAlways, OrderAlways, PTL DEF Spec
=============================================================================
