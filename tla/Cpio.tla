-------------------------------- MODULE Cpio --------------------------------
(***************************************************************************)
(* The newc archive that package cpio writes (cpio/cpio.go), as the row of *)
(* its records and the byte at which each begins, and how the kernel walks *)
(* it: from each header by the sizes that header declares.                 *)
(*                                                                         *)
(* The fixed fields of a header are one length; the inode number is left   *)
(* out, since every record has one link and no reader compares it.         *)
(***************************************************************************)
EXTENDS Naturals, Sequences

CONSTANTS
  Names,        \* the paths an archive may hold
  NameLen,      \* NameLen[n]: the bytes of the path n
  Trailer,      \* the name that ends an archive
  Wrap          \* the values of the size field, 2^32

ASSUME NameAssumption ==
  /\ NameLen \in [Names -> Nat]
  /\ Trailer \in Names
ASSUME WrapAssumption == Wrap \in Nat \ {0}

FixedLen == 110
\* The least multiple of n from pos on.
Pad(pos, n) == pos + ((n - (pos % n)) % n)

Kind == {"dir", "file", "link", "node", "end", "footer"}
Record == [kind : Kind, name : Names, mode : Nat, at : Nat, size : Nat, len : Nat]
Writer == [pos : Nat, out : Seq(Record)]

NewWriter == [pos |-> 0, out |-> << >>]

\* The header that begins at pos ends here, and so does a body that starts at pos.
HeaderEnd(pos, name) == Pad(pos + FixedLen + NameLen[name] + 1, 4)
BodyEnd(pos, len) == Pad(pos + len, 4)

\* Mutant: the body is not padded.
PutUnpadded(cw, kind, name, mode, len) ==
  [pos |-> HeaderEnd(cw.pos, name) + len,
   out |-> Append(cw.out, [kind |-> kind, name |-> name, mode |-> mode,
                           at |-> cw.pos, size |-> len % Wrap, len |-> len])]

\* A header, and a body of len bytes: what the header declares is its low 32 bits.
Put(cw, kind, name, mode, len) ==
  [pos |-> BodyEnd(HeaderEnd(cw.pos, name), len),
   out |-> Append(cw.out, [kind |-> kind, name |-> name, mode |-> mode,
                           at |-> cw.pos, size |-> len % Wrap, len |-> len])]

WriteFile(cw, name, mode, len) == Put(cw, "file", name, mode, len)
WriteDir(cw, name, mode) == Put(cw, "dir", name, mode, 0)
WriteSymlink(cw, name, target, mode) == Put(cw, "link", name, mode, NameLen[target])
WriteNod(cw, name, mode) == Put(cw, "node", name, mode, 0)
\* The trailer, and zeros up to a block.
Close(cw) ==
  LET end == Put(cw, "end", Trailer, 0, 0)
  IN  [end EXCEPT !.pos = Pad(@, 512)]

-----------------------------------------------------------------------------
(* The reader, which is outside the code.                                  *)

NextHeader(r) == BodyEnd(HeaderEnd(r.at, r.name), r.size)

\* Walking from the first byte meets every header and nothing else; the footer
\* of a compressed archive is not one.
Walks(out) ==
  \A k \in 1..Len(out) : out[k].kind # "footer" =>
    out[k].at = IF k = 1 THEN 0 ELSE NextHeader(out[k - 1])

\* Every header declares the whole of its body.
Fits(out) == \A k \in 1..Len(out) : out[k].len < Wrap
=============================================================================
