------------------------------ MODULE Reference ------------------------------
(***************************************************************************)
(* From the reference a caller gives to the image it gets (pull.go,        *)
(* cache.go): the shorthand expanded, the registry swapped for a mirror,   *)
(* the transport and the platform chosen, and the cache entry that calls   *)
(* of other references and under other mirrors may have filled.            *)
(*                                                                         *)
(* A reference is the sequence of its separators and the words between     *)
(* them.  A call is one step; Pull.tla has its interleavings.              *)
(***************************************************************************)
EXTENDS Naturals, Sequences, SequencesExt

CONSTANTS
  Words,        \* the words and the separators of references
  Refs,         \* the references that callers give
  Dotted,       \* the words with a dot in them
  Mirrors,      \* the values of WEFT_MICROVM_REGISTRY_MIRROR, << >> for unset
  SyncHosts,    \* the registries that fetch what they lack from another one
  PlainHosts,   \* the registries that speak HTTP and not TLS
  Loopback,     \* the words for the loopback host
  Descriptors,  \* what a registry may have under a tag
  Arch,         \* the architecture of the host
  None,         \* no call, no entry, no platform that matches
  MaxCalls      \* bound on the calls

ASSUME BoundAssumption == MaxCalls \in Nat
ASSUME WordAssumption ==
  {"/", ":", "@", "library", "latest", "docker.io", "registry-1.docker.io"} \subseteq Words
ASSUME RefAssumption == Refs \subseteq Seq(Words) /\ Mirrors \subseteq Seq(Words)
\* An index lists manifests and indexes, each with its platform or without.
ASSUME DescriptorAssumption ==
  \A d \in Descriptors :
    /\ d.kind \in {"manifest", "index"}
    /\ d.kind = "index" =>
         d.of \in Seq([kind : {"manifest", "index"}, arch : STRING, os : STRING])

VARIABLES
  entries,      \* entries[k]: the image in the cache entry k
  synced,       \* synced[s]: where the mirror s has had each name and tag from
  call,         \* the last call: what it asked for and got
  count         \* the calls made so far

vars == <<entries, synced, call, count>>

-----------------------------------------------------------------------------
(* The pure functions.                                                     *)

\* strings.Index, strings.Cut: what stands before the first of the marks, and
\* from it on.
FirstOf(s, marks) == SelectInSeq(s, LAMBDA t : t \in marks)
Before(s, marks) == IF FirstOf(s, marks) = 0 THEN s ELSE SubSeq(s, 1, FirstOf(s, marks) - 1)
From(s, marks) == SubSeq(s, Len(Before(s, marks)) + 1, Len(s))
Drop(s, n) == SubSeq(s, n + 1, Len(s))

\* What follows an @ is a digest, which has no slash: NewRepository refuses others.
ASSUME DigestAssumption == \A r \in Refs : ~Contains(From(r, {"@"}), "/")

DockerHub == <<"registry-1.docker.io">>
NamesHost(s) == \E t \in {s[k] : k \in 1..Len(s)} : t = ":" \/ t \in Dotted

ExpandDockerHubShorthand(r) ==
  IF IsPrefix(<<"docker.io", "/">>, r)
  THEN IF Contains(Before(Drop(r, 2), {":", "@"}), "/")
       THEN DockerHub \o Drop(r, 1)
       ELSE DockerHub \o <<"/", "library">> \o Drop(r, 1)
  ELSE IF ~Contains(r, "/") THEN DockerHub \o <<"/", "library", "/">> \o r
  ELSE IF NamesHost(Before(r, {"/"})) THEN r
  ELSE DockerHub \o <<"/">> \o r

\* The variable without its scheme and the slashes around it.
MirrorHost(m) ==
  LET host == IF Contains(m, "://") THEN Drop(From(m, {"://"}), 1) ELSE m
      kept == {k \in 1..Len(host) : host[k] # "/"}
  IN  IF kept = {} THEN << >> ELSE SubSeq(host, Min(kept), Max(kept))

\* "The env var carries either a bare host or a scheme-prefixed URL" (pull.go:92).
ASSUME MirrorAssumption == \A m \in Mirrors : ~Contains(MirrorHost(m), "/")

\* Mutant: the host is put in front of whatever was there.
RewritePrefixed(m, c) == IF MirrorHost(m) = << >> THEN c ELSE MirrorHost(m) \o <<"/">> \o c

RewriteForMirror(m, c) ==
  IF MirrorHost(m) = << >> \/ Before(c, {"/"}) = MirrorHost(m) THEN c
  ELSE IF ~Contains(c, "/") THEN MirrorHost(m) \o <<"/", "library", "/">> \o c
  ELSE MirrorHost(m) \o From(c, {"/"})

\* Mutant: the mirror is put in before the shorthand is expanded.
CanonicalSwapped(r, m) == ExpandDockerHubShorthand(RewriteForMirror(m, r))
Canonical(r, m) == RewriteForMirror(m, ExpandDockerHubShorthand(r))

\* remote.NewRepository, and the tag a reference has when it names none.
Parsed(c) ==
  LET path == Drop(From(c, {"/"}), 1)
      marks == {":", "@"}
  IN  [host |-> Before(c, {"/"}), name |-> Before(path, marks),
       tag |-> IF From(path, marks) = << >> THEN <<":", "latest">> ELSE From(path, marks)]

\* newRepository: TLS, but for the loopback host.
PlainHTTP(image) == Before(image.host, {":"}) \in {<<w>> : w \in Loopback}

\* Mutant: an entry that does not name its system is passed over.
PlatformStrict(d) ==
  LET fits == {k \in 1..Len(d.of) : d.of[k].arch = Arch /\ d.of[k].os = "linux"}
  IN  IF d.kind # "index" THEN d ELSE IF fits = {} THEN None ELSE d.of[Min(fits)]

\* resolvePlatform: the first manifest of an index that is for this host.
ResolvePlatform(d) ==
  LET fits == {k \in 1..Len(d.of) : d.of[k].arch = Arch /\ d.of[k].os \in {"", "linux"}}
  IN  IF d.kind # "index" THEN d ELSE IF fits = {} THEN None ELSE d.of[Min(fits)]

Refsafe(r) == [k \in 1..Len(r) |-> IF r[k] \in {"/", ":"} THEN "_" ELSE r[k]]

-----------------------------------------------------------------------------
(* What a reference means, by the rules at expandDockerHubShorthand.       *)

Meant(r) ==
  LET host == IF Contains(r, "/") /\ NamesHost(Before(r, {"/"})) THEN Before(r, {"/"})
              ELSE <<"docker.io">>
      rest == IF IsPrefix(host \o <<"/">>, r) THEN Drop(r, Len(host) + 1) ELSE r
      name == Before(rest, {":", "@"})
      tag == From(rest, {":", "@"})
  IN  [host |-> IF host = <<"docker.io">> THEN DockerHub ELSE host,
       name |-> IF host = <<"docker.io">> /\ ~Contains(name, "/")
                THEN <<"library", "/">> \o name ELSE name,
       tag |-> IF tag = << >> THEN <<":", "latest">> ELSE tag]

Meaning == [r \in Refs |-> Meant(r)]
Request == [r \in Refs |-> [m \in Mirrors |-> Parsed(Canonical(r, m))]]
Key == [r \in Refs |-> Refsafe(r)]

Images == {Meaning[r] : r \in Refs}
Keys == {Key[r] : r \in Refs}
Labels == {<<i.name, i.tag>> : i \in Images}

ASSUME NoneAssumption ==
  /\ None \notin Images \cup Descriptors
  /\ \A d \in Descriptors : d.kind = "index" => \A k \in 1..Len(d.of) : None # d.of[k]

Call == [ref : Refs, mirror : Mirrors, at : Descriptors \cup {None}, got : Images \cup {None}]

TypeOK ==
  /\ entries \in [Keys -> Images \cup {None}]
  /\ synced \in [SyncHosts -> [Labels -> Images \cup {None}]]
  /\ call \in Call \cup {None}
  /\ count \in 0..MaxCalls

Init ==
  /\ entries = [k \in Keys |-> None]
  /\ synced = [s \in SyncHosts |-> [l \in Labels |-> None]]
  /\ call = None
  /\ count = 0

-----------------------------------------------------------------------------
Label(image) == <<image.name, image.tag>>

\* What a registry has for a request: its own image, or, at a mirror, what it
\* has had before or now gets from any registry with that name and tag.
Source(image) ==
  IF image.host \notin SyncHosts THEN {image} \cap Images
  ELSE IF Label(image) \notin Labels THEN {}
  ELSE IF synced[image.host][Label(image)] # None THEN {synced[image.host][Label(image)]}
  ELSE {i \in Images : Label(i) = Label(image)}

Made(r, m, d, got) ==
  /\ call' = [ref |-> r, mirror |-> m, at |-> d, got |-> got]
  /\ count < MaxCalls /\ count' = count + 1

\* Mutant: the name of the entry is taken for what it holds.
CachedName(r, m) ==
  /\ entries[Key[r]] # None
  /\ Made(r, m, None, Key[r])
  /\ UNCHANGED <<entries, synced>>

\* The sentinel is there: whatever the entry holds is the image.
Cached(r, m) ==
  /\ entries[Key[r]] # None
  /\ Made(r, m, None, entries[Key[r]])
  /\ UNCHANGED <<entries, synced>>

\* The registry answers: its descriptor leads to a manifest, or the pull fails.
\* An index inside an index is decoded as a manifest, which then has no config.
Fetch(r, m) ==
  LET image == Request[r][m]
  IN  /\ entries[Key[r]] = None
      /\ PlainHTTP(image) = (image.host \in PlainHosts)
      /\ \E from \in Source(image), d \in Descriptors :
           /\ synced' = [s \in SyncHosts |-> IF s = image.host
                           THEN [synced[s] EXCEPT ![Label(image)] = from] ELSE synced[s]]
           /\ LET good == ResolvePlatform(d) # None /\ ResolvePlatform(d).kind = "manifest"
              IN  /\ Made(r, m, d, IF good THEN from ELSE None)
                  /\ entries' = IF good THEN [entries EXCEPT ![Key[r]] = from] ELSE entries

\* Nothing is there, or nobody speaks the protocol.
Refused(r, m) ==
  LET image == Request[r][m]
  IN  /\ entries[Key[r]] = None
      /\ Source(image) = {} \/ PlainHTTP(image) # (image.host \in PlainHosts)
      /\ Made(r, m, None, None)
      /\ UNCHANGED <<entries, synced>>

\* "Forced re-pull = the caller rm -rf the cache entry first."
Forget(k) ==
  /\ entries[k] # None
  /\ entries' = [entries EXCEPT ![k] = None]
  /\ call' = None
  /\ UNCHANGED <<synced, count>>

Next ==
  \/ \E r \in Refs, m \in Mirrors : Cached(r, m) \/ Fetch(r, m) \/ Refused(r, m)
  \/ \E k \in Keys : Forget(k)

Spec == Init /\ [][Next]_vars

-----------------------------------------------------------------------------
(* What holds.                                                             *)

\* Another reference has the same cache entry: refsafe maps / and : alike.
Shared(r) == \E s \in Refs : Key[s] = Key[r] /\ Meaning[s] # Meaning[r]
\* Another registry has an image of the same name and tag, and a mirror is set or
\* the reference names a registry that fetches what it lacks from another.
Twin(r) ==
  /\ \E i \in Images : i.host # Meaning[r].host /\ Label(i) = Label(Meaning[r])
  /\ \E m \in Mirrors : MirrorHost(m) # << >> \/ Meaning[r].host \in SyncHosts

\* Whichever calls came before, under whichever mirrors, a caller gets the image
\* its reference means, unless the reference shares its cache entry or a mirror
\* may have a twin of the image; a twin has its name and its tag.
OwnImage ==
  call # None /\ call.got # None =>
    \/ call.got = Meaning[call.ref]
    \/ Shared(call.ref)
    \/ Twin(call.ref) /\ Label(call.got) = Label(Meaning[call.ref])

\* With a mirror every request goes to it ("never crosses the cluster boundary",
\* pull.go:89), and it is for the name and the tag that the reference means.
InCluster ==
  call # None =>
    LET host == MirrorHost(call.mirror)
        asked == Request[call.ref][call.mirror]
    IN  asked = IF host = << >> THEN Meaning[call.ref]
                ELSE [Meaning[call.ref] EXCEPT !.host = host]

\* An index gives the caller an image of its platform whenever it lists one that
\* is not itself an index; what it lists for others is never taken.
OwnPlatform ==
  call # None /\ call.at # None /\ call.at.kind = "index" =>
    LET d == call.at
        mine(k) == d.of[k].arch = Arch /\ (d.of[k].os = "linux" \/ d.of[k].os = "")
        listed == {d.of[k].kind : k \in {j \in 1..Len(d.of) : mine(j)}}
    IN  /\ listed = {"manifest"} => call.got # None
        /\ "manifest" \notin listed => call.got = None
=============================================================================
