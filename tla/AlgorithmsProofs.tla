-------------------------- MODULE AlgorithmsProofs --------------------------
(***************************************************************************)
(* What Classifier, Settings, Charts, DiskIo and Endpoints promise, for    *)
(* any texts, files, samples, relations, endpoints, limits and bounds. Of  *)
(* Settings: whatever entries a file holds, what is mounted is reached by  *)
(* its own path and connects with its own string. Of DiskIo: the retained  *)
(* reading and the rows of the tick under way are readings of the same     *)
(* counters, one later than the other. Of Charts: the segments of a series *)
(* are its samples in their order, and every sample was fetched while the  *)
(* refresh took place. Of Endpoints: every way to write an endpoint down   *)
(* is read as that endpoint, since a part never holds what ends it, and    *)
(* the marks of a key and of a label cut it in one way only. Of            *)
(* Classifier: the tokens of an ordinary text are those that Postgres      *)
(* reads, and such a text runs while the window is closed only if it reads *)
(* or something named in it is overlooked; what the code computes from     *)
(* left to right is a function, because it always goes on further right    *)
(* (FromTheRight, RecursionExists).                                        *)
(***************************************************************************)
EXTENDS Algorithms, FiniteSums, SequenceTheorems, TLAPS

LEMMA Greatest ==
    ASSUME NEW n \in Nat, NEW T \in SUBSET (1..n), T # {}
    PROVE  \E i \in T : \A j \in T : j <= i
<1>. DEFINE M == {n - i : i \in T}
<1>1. M \in SUBSET Nat /\ M # {}
  <2>1. \A i \in T : i \in 1..n /\ n - i \in Nat
    OBVIOUS
  <2>. QED
    BY <2>1
<1>2. PICK m \in M : \A k \in M : m <= k
  BY <1>1, LeastNatural
<1>3. PICK i \in T : m = n - i
  OBVIOUS
<1>4. \A j \in T : n - j \in M
  OBVIOUS
<1>5. \A j \in T : j <= i
  BY <1>2, <1>3, <1>4
<1>. QED
  BY <1>5

-----------------------------------------------------------------------------
(* Paths.                                                                  *)

LEMMA TrimDrops == \A p : Trim(p) = Reverse(DropLast(Reverse(DropLast(p, {Blank})), {Blank}))
  BY DEF Trim, Blank

LEMMA BlanksAround ==
    ASSUME NEW path \in Spelling
    PROVE  /\ path \in Seq(Unit)
           /\ \A i \in DOMAIN path : path[i] = Blank =>
                 \/ \A j \in 1..i : path[j] = Blank
                 \/ \A j \in i..Len(path) : path[j] = Blank
  BY EntriesAssumption DEF Blank

LEMMA SlashIsUnit == "/" \in Unit
  BY DEF Unit

\* What is left of a sequence is the front of it, up to the last unit that is
\* not to be dropped.
IsFront(d, p, units) ==
    /\ d \in Seq(Unit) /\ Len(d) \in Nat /\ Len(p) \in Nat /\ Len(d) <= Len(p)
    /\ \A i \in 1..Len(d) : d[i] = p[i]
    /\ Len(d) > 0 => d[Len(d)] \notin units
    /\ \A i \in (Len(d) + 1)..Len(p) : p[i] \in units

LEMMA DropLastIs ==
    ASSUME NEW p \in Seq(Unit), NEW units
    PROVE  IsFront(DropLast(p, units), p, units)
<1>. DEFINE d == DropLast(p, units)
            keep == {i \in DOMAIN p : p[i] \notin units}
<1>1. CASE keep = {}
  BY <1>1 DEF DropLast, IsFront
<1>2. CASE keep # {}
  <2>1. keep \in SUBSET (1..Len(p))
    OBVIOUS
  <2>2. \E i \in keep : \A j \in keep : j <= i
    BY <1>2, <2>1, Greatest, LenProperties
  <2>3. PICK m \in keep : m = (CHOOSE i \in keep : \A j \in keep : j <= i) /\ \A j \in keep : j <= m
    BY <2>2
  <2>4. d = SubSeq(p, 1, m)
    BY <1>2, <2>3 DEF DropLast
  <2>5. m \in 1..Len(p)
    BY <2>1
  <2>6. d \in Seq(Unit) /\ Len(d) = m /\ \A i \in 1..m : d[i] = p[i]
    BY <2>4, <2>5, SubSeqProperties
  <2>. QED
    BY <2>3, <2>5, <2>6 DEF IsFront
<1>. QED
  BY <1>1, <1>2

IsMirror(d, p) ==
    /\ d \in Seq(Unit) /\ Len(d) = Len(p) /\ Len(p) \in Nat
    /\ \A i \in 1..Len(p) : d[i] = p[Len(p) - i + 1]

LEMMA ReverseIs ==
    ASSUME NEW p \in Seq(Unit)
    PROVE  IsMirror(Reverse(p), p)
  BY DEF Reverse, IsMirror

\* Nothing is trimmed from a path with no blank at either end.
LEMMA NothingToDrop ==
    ASSUME NEW p \in Seq(Unit), NEW units, Len(p) > 0, p[Len(p)] \notin units
    PROVE  DropLast(p, units) = p
<1>1. IsFront(DropLast(p, units), p, units)
  BY DropLastIs
<1>. QED
  <2>. DEFINE d == DropLast(p, units)
  <2>. HIDE DEF d
  <2>1. /\ d \in Seq(Unit) /\ Len(d) \in Nat /\ Len(p) \in Nat /\ Len(d) <= Len(p)
        /\ \A i \in 1..Len(d) : d[i] = p[i]
        /\ \A i \in (Len(d) + 1)..Len(p) : p[i] \in units
    BY <1>1 DEF IsFront, d
  <2>2. Len(d) = Len(p)
    BY <2>1
  <2>3. d = p
    BY <2>1, <2>2, SeqEqual
  <2>. QED
    BY <2>3 DEF d

LEMMA MirroredTwice ==
    ASSUME NEW p \in Seq(Unit), NEW q, IsMirror(q, p), NEW r, IsMirror(r, q)
    PROVE  r = p
<1>1. r \in Seq(Unit) /\ Len(r) = Len(p) /\ Len(q) = Len(p) /\ Len(p) \in Nat
  BY DEF IsMirror
<1>2. ASSUME NEW i \in 1..Len(p) PROVE r[i] = p[i]
  <2>. DEFINE j == Len(p) - i + 1
  <2>1. j \in 1..Len(p) /\ Len(p) - j + 1 = i
    BY <1>1
  <2>2. q[j] = p[Len(p) - j + 1]
    BY <2>1 DEF IsMirror
  <2>3. r[i] = q[j]
    BY <1>1 DEF IsMirror
  <2>. QED
    BY <2>1, <2>2, <2>3
<1>. QED
  BY <1>1, <1>2, SeqEqual

LEMMA NothingToTrim ==
    ASSUME NEW p \in Seq(Unit), Len(p) > 0, p[1] # Blank, p[Len(p)] # Blank
    PROVE  Trim(p) = p
<1>1. DropLast(p, {Blank}) = p
  BY NothingToDrop
<1>2. IsMirror(Reverse(p), p)
  BY ReverseIs
<1>3. DropLast(Reverse(p), {Blank}) = Reverse(p)
  <2>1. Reverse(p) \in Seq(Unit) /\ Len(Reverse(p)) > 0 /\ Reverse(p)[Len(Reverse(p))] \notin {Blank}
    <3>1. Reverse(p) \in Seq(Unit) /\ Len(Reverse(p)) = Len(p) /\ Len(p) \in Nat
      BY <1>2 DEF IsMirror
    <3>2. \A i \in 1..Len(p) : Reverse(p)[i] = p[Len(p) - i + 1]
      BY <1>2 DEF IsMirror
    <3>3. Len(p) \in 1..Len(p) /\ Len(p) - Len(p) + 1 = 1
      <4>1. \A n \in Nat : n > 0 => n \in 1..n /\ n - n + 1 = 1
        OBVIOUS
      <4>. QED
        BY <3>1, <4>1
    <3>4. Reverse(p)[Len(p)] = p[1]
      BY <3>2, <3>3
    <3>. QED
      BY <3>1, <3>4
  <2>. QED
    BY <2>1, NothingToDrop
<1>4. Reverse(Reverse(p)) = p
  <2>1. IsMirror(Reverse(Reverse(p)), Reverse(p))
    BY <1>2, ReverseIs DEF IsMirror
  <2>. QED
    BY <1>2, <2>1, MirroredTwice
<1>. QED
  BY <1>1, <1>3, <1>4, TrimDrops

\* What is trimmed is a stretch of the path, from its first unit that is no
\* blank to its last.
IsStretch(t, p, off) ==
    /\ off \in Nat /\ Len(p) \in Nat /\ off + Len(t) <= Len(p)
    /\ p[off + 1] # Blank /\ p[off + Len(t)] # Blank
    /\ \A i \in 1..Len(t) : t[i] = p[off + i]

LEMMA TrimIs ==
    ASSUME NEW p \in Seq(Unit)
    PROVE  /\ Trim(p) \in Seq(Unit)
           /\ Len(Trim(p)) > 0 => \E off : IsStretch(Trim(p), p, off)
<1>1. PICK a : a = DropLast(p, {Blank}) /\ IsFront(a, p, {Blank})
  BY DropLastIs
<1>2. PICK b : b = Reverse(a) /\ IsMirror(b, a)
  BY <1>1, ReverseIs DEF IsFront
<1>3. PICK c : c = DropLast(b, {Blank}) /\ IsFront(c, b, {Blank})
  BY <1>2, DropLastIs DEF IsMirror
<1>4. PICK t : t = Reverse(c) /\ IsMirror(t, c)
  BY <1>3, ReverseIs DEF IsFront
<1>5. t = Trim(p) /\ t \in Seq(Unit)
  BY <1>1, <1>2, <1>3, <1>4, TrimDrops DEF IsMirror
<1>6. ASSUME Len(t) > 0
      PROVE  IsStretch(t, p, Len(a) - Len(c))
  <2>. DEFINE off == Len(a) - Len(c)
  <2>1. /\ Len(a) \in Nat /\ Len(c) \in Nat /\ Len(p) \in Nat /\ Len(t) = Len(c) /\ Len(b) = Len(a)
        /\ Len(a) <= Len(p) /\ Len(c) <= Len(a)
    BY <1>1, <1>2, <1>3, <1>4 DEF IsFront, IsMirror
  <2>2. off \in Nat /\ off + Len(t) = Len(a)
    BY <2>1
  <2>3. ASSUME NEW i \in 1..Len(t)
        PROVE  /\ t[i] = c[Len(c) - i + 1] /\ Len(c) - i + 1 \in 1..Len(c)
               /\ t[i] = p[off + i] /\ off + i \in 1..Len(a)
    <3>1. t[i] = c[Len(c) - i + 1] /\ Len(c) - i + 1 \in 1..Len(c)
      BY <1>4, <2>1 DEF IsMirror
    <3>2. c[Len(c) - i + 1] = b[Len(c) - i + 1] /\ Len(c) - i + 1 \in 1..Len(a)
      <4>1. \A j \in 1..Len(c) : c[j] = b[j]
        BY <1>3 DEF IsFront
      <4>2. Len(c) - i + 1 \in 1..Len(a)
        BY <2>1
      <4>. QED
        BY <3>1, <4>1, <4>2
    <3>3. b[Len(c) - i + 1] = a[Len(a) - (Len(c) - i + 1) + 1]
      BY <1>2, <3>2 DEF IsMirror
    <3>4. Len(a) - (Len(c) - i + 1) + 1 = off + i /\ off + i \in 1..Len(a)
      BY <2>1
    <3>5. a[off + i] = p[off + i]
      BY <1>1, <3>4 DEF IsFront
    <3>. QED
      BY <3>1, <3>2, <3>3, <3>4, <3>5
  <2>4. 1 \in 1..Len(t) /\ Len(t) \in 1..Len(t)
    BY <1>6, <2>1
  <2>5. c[Len(c)] # Blank /\ a[Len(a)] # Blank
    <3>1. Len(c) > 0 /\ Len(a) > 0
      BY <1>6, <2>1
    <3>2. Len(c) > 0 => c[Len(c)] \notin {Blank}
      BY <1>3 DEF IsFront
    <3>3. Len(a) > 0 => a[Len(a)] \notin {Blank}
      BY <1>1 DEF IsFront
    <3>. QED
      BY <3>1, <3>2, <3>3
  <2>6. p[off + 1] # Blank
    <3>1. t[1] = c[Len(c) - 1 + 1] /\ t[1] = p[off + 1]
      BY <2>3, <2>4
    <3>2. Len(c) - 1 + 1 = Len(c)
      BY <2>1
    <3>. QED
      BY <2>5, <3>1, <3>2
  <2>7. p[off + Len(t)] # Blank
    <3>1. \A i \in 1..Len(a) : a[i] = p[i]
      BY <1>1 DEF IsFront
    <3>2. Len(a) \in 1..Len(a)
      BY <2>1, <2>2, <2>3, <2>4
    <3>. QED
      BY <2>2, <2>5, <3>1, <3>2
  <2>. QED
    BY <2>1, <2>2, <2>3, <2>6, <2>7 DEF IsStretch
<1>. QED
  BY <1>5, <1>6

\* A path in the form NormalizePath gives it.
IsNormal(q) == /\ q \in Seq(Unit) /\ Len(q) \in Nat /\ Len(q) > 0 /\ q[1] = "/"
               /\ q # <<"/">> => q[Len(q)] \notin {"/", Blank}

LEMMA NormalizedIsNormal ==
    ASSUME NEW path \in Spelling
    PROVE  IsNormal(NormalizePath(path))
<1>1. path \in Seq(Unit) /\ Len(path) \in Nat
  BY BlanksAround, LenProperties
<1>2. PICK t : t = Trim(path) /\ t \in Seq(Unit)
               /\ (Len(t) > 0 => \E off : IsStretch(t, path, off))
  BY <1>1, TrimIs
<1>3. PICK p : p = DropLast(t, {"/"}) /\ IsFront(p, t, {"/"})
  BY <1>2, DropLastIs
<1>4. p \in Seq(Unit) /\ Len(p) \in Nat /\ Len(t) \in Nat /\ Len(p) <= Len(t)
  BY <1>3 DEF IsFront
<1>5. ASSUME Len(p) > 0 PROVE p[Len(p)] \notin {"/", Blank}
  <2>1. PICK off : IsStretch(t, path, off)
    BY <1>2, <1>4, <1>5
  <2>2. p[Len(p)] # "/"
    BY <1>3, <1>5 DEF IsFront
  <2>3. p[Len(p)] = t[Len(p)] /\ Len(p) \in 1..Len(t)
    BY <1>3, <1>4, <1>5 DEF IsFront
  <2>4. t[Len(p)] = path[off + Len(p)]
    BY <2>1, <2>3 DEF IsStretch
  <2>. DEFINE i == off + Len(p)
  <2>5. /\ off \in Nat /\ off + Len(t) <= Len(path)
        /\ path[off + 1] # Blank /\ path[off + Len(t)] # Blank
    BY <2>1 DEF IsStretch
  <2>6. /\ i \in 1..Len(path) /\ off + 1 \in 1..i /\ off + Len(t) \in i..Len(path)
        /\ DOMAIN path = 1..Len(path)
    BY <1>1, <1>4, <1>5, <2>5
  <2>7. path[i] # Blank
    BY <2>5, <2>6, BlanksAround
  <2>. QED
    BY <2>2, <2>3, <2>4, <2>7
<1>6. CASE p # << >> /\ p[1] = "/"
  <2>1. NormalizePath(path) = p
    BY <1>2, <1>3, <1>6 DEF NormalizePath
  <2>2. Len(p) > 0
    BY <1>4, <1>6, EmptySeq
  <2>. QED
    BY <1>4, <1>5, <1>6, <2>1, <2>2 DEF IsNormal
<1>7. CASE ~(p # << >> /\ p[1] = "/")
  <2>. DEFINE q == <<"/">> \o p
  <2>1. NormalizePath(path) = q
    BY <1>2, <1>3, <1>7 DEF NormalizePath
  <2>2. q \in Seq(Unit) /\ Len(q) = Len(p) + 1 /\ q[1] = "/"
    BY <1>4, SlashIsUnit
  <2>3. Len(p) > 0 => q[Len(q)] = p[Len(p)]
    BY <1>4
  <2>4. Len(p) = 0 => q = <<"/">>
    BY <1>4
  <2>. HIDE DEF q
  <2>. QED
    BY <1>4, <1>5, <2>1, <2>2, <2>3, <2>4 DEF IsNormal
<1>. QED
  BY <1>6, <1>7

LEMMA NormalStays ==
    ASSUME NEW q, IsNormal(q), q # <<"/">>
    PROVE  NormalizePath(q) = q
<1>1. q \in Seq(Unit) /\ Len(q) \in Nat /\ Len(q) > 0 /\ q[1] = "/" /\ q[Len(q)] \notin {"/", Blank}
  BY DEF IsNormal
<1>2. Trim(q) = q
  <2>1. q[1] # Blank
    BY <1>1 DEF Blank
  <2>. QED
    BY <1>1, <2>1, NothingToTrim
<1>3. DropLast(q, {"/"}) = q
  BY <1>1, NothingToDrop
<1>. QED
  BY <1>1, <1>2, <1>3 DEF NormalizePath

LEMMA LowerTwice == \A p : Lower(Lower(p)) = Lower(p) /\ (Reserved(Lower(p)) <=> Reserved(p))
<1>1. \A u \in DOMAIN LowerCase : LowerCase[u] \notin DOMAIN LowerCase
  BY DEF LowerCase
<1>2. ASSUME NEW p PROVE Lower(Lower(p)) = Lower(p)
  BY <1>1 DEF Lower
<1>. QED
  BY <1>2 DEF Reserved

\* First finds an element, the only one if there is but one.
LEMMA FirstIs ==
    ASSUME NEW T \in SUBSET Nat
    PROVE  /\ T # {} => First(T) \in T
           /\ \A i \in T : T = {i} => First(T) = i
<1>1. T # {} => \E i \in T : \A j \in T : i <= j
  BY LeastNatural
<1>. QED
  BY <1>1 DEF First

-----------------------------------------------------------------------------
(* Settings.                                                               *)

\* What is mounted has a path of its own that no other route takes, and a
\* string to connect with.
MountsInv ==
    /\ DOMAIN mounts \subseteq Nat
    /\ \A i \in DOMAIN mounts : /\ IsNormal(mounts[i].path) /\ mounts[i].path # <<"/">>
                                /\ ~Reserved(mounts[i].path) /\ mounts[i].conn_string # ""
    /\ \A i, j \in DOMAIN mounts : i # j => ~PathsAreEqual(mounts[i].path, mounts[j].path)

\* What a connection may be made with has been written for the mount.
NamesInv ==
    /\ file \in Files /\ DOMAIN connected = DOMAIN mounts
    /\ mounts # <<>> => Names(file) \subseteq named
    /\ \A i \in DOMAIN mounts : <<Lower(mounts[i].path), mounts[i].conn_string>> \in named
    /\ OwnConnection

SettingsInv == MountsInv /\ NamesInv

LEMMA ServedByInv ==
    ASSUME MountsInv PROVE MountsAreServed
<1>. DEFINE Equal(path) == {i \in DOMAIN mounts : PathsAreEqual(mounts[i].path, path)}
<1>1. \A path : Equal(path) \in SUBSET Nat
  BY DEF MountsInv
<1>2. ASSUME NEW i \in DOMAIN mounts
      PROVE  First(Equal(mounts[i].path)) = i /\ First(Equal(Lower(mounts[i].path))) = i
  <2>1. Equal(mounts[i].path) = {i}
    BY DEF MountsInv, PathsAreEqual
  <2>2. Equal(Lower(mounts[i].path)) = Equal(mounts[i].path)
    BY LowerTwice DEF PathsAreEqual
  <2>. HIDE DEF Equal
  <2>. QED
    BY <1>1, <2>1, <2>2, FirstIs
<1>3. ASSUME NEW i \in DOMAIN mounts
      PROVE  /\ Route(mounts[i].path) = i /\ GetDb(mounts[i].path) = i
             /\ Route(Lower(mounts[i].path)) = i
  <2>1. NormalizePath(mounts[i].path) = mounts[i].path
    BY NormalStays DEF MountsInv
  <2>2. ~Reserved(mounts[i].path) /\ ~Reserved(Lower(mounts[i].path))
    BY LowerTwice DEF MountsInv
  <2>. QED
    BY <1>2, <2>1, <2>2 DEF Route, GetDb
<1>4. ASSUME NEW path \in Spelling, GetDb(path) # 0
      PROVE  Route(NormalizePath(path)) = GetDb(path)
  <2>1. GetDb(path) = First(Equal(NormalizePath(path)))
    BY DEF GetDb
  <2>2. PICK i \in DOMAIN mounts : PathsAreEqual(mounts[i].path, NormalizePath(path))
    BY <1>4, <2>1 DEF First
  <2>3. ~Reserved(NormalizePath(path))
    <3>1. ~Reserved(mounts[i].path)
      BY DEF MountsInv
    <3>2. Lower(mounts[i].path) = Lower(NormalizePath(path))
      BY <2>2 DEF PathsAreEqual
    <3>. QED
      BY <3>1, <3>2 DEF Reserved
  <2>. QED
    BY <2>1, <2>3 DEF Route
<1>. QED
  BY <1>3, <1>4 DEF MountsAreServed

LEMMA FilesAre ==
    ASSUME NEW entries \in Files
    PROVE  /\ DOMAIN entries \subseteq Nat
           /\ \A i \in DOMAIN entries : entries[i] \in Entries /\ entries[i].path \in Spelling
<1>1. PICK n \in 0..MaxFile : entries \in [1..n -> Entries]
  BY DEF Files
<1>2. MaxFile \in Nat
  BY EntriesAssumption
<1>. QED
  BY <1>1, <1>2 DEF Spelling

LEMMA EmptyFile == << >> \in Files
<1>1. MaxFile \in Nat
  BY EntriesAssumption
<1>2. 0 \in 0..MaxFile /\ << >> \in [1..0 -> Entries]
  BY <1>1
<1>. QED
  BY <1>2 DEF Files

\* A file is mounted with what it says, and only if every entry can be served.
LEMMA MountedAre ==
    ASSUME NEW entries \in Files, NEW m, m = GetMounts(entries), m # <<>>
    PROVE  /\ DOMAIN m = DOMAIN entries /\ DOMAIN m \subseteq Nat
           /\ \A i \in DOMAIN m : /\ IsNormal(m[i].path) /\ m[i].path # <<"/">>
                                  /\ ~Reserved(m[i].path) /\ m[i].conn_string # ""
                                  /\ <<Lower(m[i].path), m[i].conn_string>> \in Names(entries)
           /\ \A i, j \in DOMAIN m : i # j => ~PathsAreEqual(m[i].path, m[j].path)
<1>1. /\ \A i \in DOMAIN entries : Valid(entries[i])
      /\ Distinct(entries)
      /\ m = [i \in DOMAIN entries |-> [path |-> NormalizePath(entries[i].path),
                                        conn_string |-> entries[i].conn_string]]
  BY DEF GetMounts
<1>2. DOMAIN m = DOMAIN entries /\ DOMAIN m \subseteq Nat
  BY <1>1, FilesAre
<1>3. \A i \in DOMAIN m : /\ m[i].path = NormalizePath(entries[i].path)
                          /\ m[i].conn_string = entries[i].conn_string
  BY <1>1
<1>4. ASSUME NEW i \in DOMAIN m
      PROVE  /\ IsNormal(m[i].path) /\ m[i].path # <<"/">>
             /\ ~Reserved(m[i].path) /\ m[i].conn_string # ""
             /\ <<Lower(m[i].path), m[i].conn_string>> \in Names(entries)
  <2>1. IsNormal(m[i].path)
    BY <1>2, <1>3, FilesAre, NormalizedIsNormal
  <2>2. m[i].path # <<"/">> /\ ~Reserved(m[i].path) /\ m[i].conn_string # ""
    BY <1>1, <1>2, <1>3 DEF Valid
  <2>3. <<Lower(m[i].path), m[i].conn_string>> \in Names(entries)
    BY <1>2, <1>3 DEF Names
  <2>. QED
    BY <2>1, <2>2, <2>3
<1>5. \A i, j \in DOMAIN m : i # j => ~PathsAreEqual(m[i].path, m[j].path)
  BY <1>1, <1>2, <1>3 DEF Distinct
<1>. QED
  BY <1>2, <1>4, <1>5

\* The string a mount connects with is one that has been written for it.
LEMMA ConnectsWithItsOwn ==
    ASSUME SettingsInv, NEW i \in DOMAIN mounts
    PROVE  ConnString(i) # "" /\ <<Lower(mounts[i].path), ConnString(i)>> \in named
<1>1. mounts # <<>> /\ mounts[i].conn_string # ""
      /\ <<Lower(mounts[i].path), mounts[i].conn_string>> \in named
      /\ file \in Files /\ Names(file) \subseteq named
  <2>1. mounts # <<>>
    OBVIOUS
  <2>. QED
    BY <2>1 DEF SettingsInv, MountsInv, NamesInv
<1>. DEFINE live == FindConnString(file, mounts[i].path)
<1>2. ASSUME live # "" PROVE <<Lower(mounts[i].path), live>> \in named
  <2>. DEFINE found == {k \in DOMAIN file : PathsAreEqual(NormalizePath(file[k].path), mounts[i].path)}
              k == Entry(file, mounts[i].path)
  <2>1. k = First(found) /\ k # 0 /\ live = file[k].conn_string
    BY <1>2 DEF FindConnString, Entry
  <2>2. found \in SUBSET Nat /\ found # {}
    BY <1>1, <2>1, FilesAre DEF First
  <2>3. k \in found
    BY <2>1, <2>2, FirstIs
  <2>4. <<Lower(NormalizePath(file[k].path)), live>> \in Names(file)
    BY <2>1, <2>3 DEF Names
  <2>5. Lower(NormalizePath(file[k].path)) = Lower(mounts[i].path)
    BY <2>3 DEF PathsAreEqual
  <2>. QED
    BY <1>1, <2>4, <2>5
<1>. QED
  BY <1>1, <1>2 DEF ConnString

\* Nothing can be wrong while no server runs.
LEMMA DownIsFine ==
    ASSUME mounts = <<>>, connected = <<>>, file \in Files PROVE SettingsInv
<1>1. DOMAIN mounts = {} /\ DOMAIN connected = {}
  OBVIOUS
<1>. QED
  BY <1>1 DEF SettingsInv, MountsInv, NamesInv, OwnConnection

LEMMA InitSettings ==
    ASSUME Init PROVE SettingsInv
<1>1. mounts = <<>> /\ connected = <<>> /\ file \in Files
  BY EmptyFile DEF Init, NoServer, SettingsInit
<1>. QED
  BY <1>1, DownIsFine

LEMMA StepSettings ==
    ASSUME SettingsInv, SettingsNext PROVE SettingsInv'
<1>1. CASE Start
  <2>1. /\ mounts' = GetMounts(file) /\ mounts' # <<>> /\ connected' = [i \in DOMAIN file |-> ""]
        /\ named' = Names(file) /\ file' = file /\ file \in Files
    BY <1>1 DEF Start, SettingsInv, NamesInv
  <2>2. /\ DOMAIN mounts' = DOMAIN file /\ DOMAIN mounts' \subseteq Nat
        /\ \A i \in DOMAIN mounts' : /\ IsNormal(mounts'[i].path) /\ mounts'[i].path # <<"/">>
                                     /\ ~Reserved(mounts'[i].path) /\ mounts'[i].conn_string # ""
                                     /\ <<Lower(mounts'[i].path), mounts'[i].conn_string>> \in Names(file)
        /\ \A i, j \in DOMAIN mounts' : i # j => ~PathsAreEqual(mounts'[i].path, mounts'[j].path)
    BY <2>1, MountedAre
  <2>3. MountsInv'
    BY <2>2 DEF MountsInv
  <2>4. NamesInv'
    BY <2>1, <2>2 DEF NamesInv, OwnConnection, Names
  <2>. QED
    BY <2>3, <2>4 DEF SettingsInv
<1>2. CASE Stop
  <2>1. mounts' = <<>> /\ connected' = <<>> /\ file' = file /\ file \in Files
    BY <1>2 DEF Stop, SettingsInv, NamesInv
  <2>2. DOMAIN mounts' = {} /\ DOMAIN connected' = {}
    BY <2>1
  <2>. QED
    BY <2>1, <2>2 DEF SettingsInv, MountsInv, NamesInv, OwnConnection
<1>3. CASE \E entries \in Files : Edit(entries)
  <2>1. PICK entries \in Files : Edit(entries)
    BY <1>3
  <2>2. /\ file' = entries /\ mounts' = mounts /\ connected' = connected
        /\ named' = IF mounts = <<>> THEN {} ELSE named \cup Names(entries)
    BY <2>1 DEF Edit
  <2>3. MountsInv'
    BY <2>2 DEF SettingsInv, MountsInv
  <2>4. CASE mounts = <<>>
    <3>1. DOMAIN mounts' = {}
      BY <2>2, <2>4
    <3>2. NamesInv'
      BY <2>2, <2>4, <3>1 DEF SettingsInv, NamesInv, OwnConnection
    <3>. QED
      BY <2>3, <3>2 DEF SettingsInv
  <2>5. CASE mounts # <<>>
    <3>1. Names(file)' = Names(entries)
      BY <2>2 DEF Names
    <3>2. NamesInv'
      BY <2>2, <2>5, <3>1 DEF SettingsInv, NamesInv, OwnConnection
    <3>. QED
      BY <2>3, <3>2 DEF SettingsInv
  <2>. QED
    BY <2>3, <2>4, <2>5 DEF SettingsInv
<1>4. CASE \E i \in DOMAIN mounts : Connect(i)
  <2>1. PICK i \in DOMAIN mounts : Connect(i)
    BY <1>4
  <2>2. /\ connected' = [connected EXCEPT ![i] = ConnString(i)]
        /\ file' = file /\ mounts' = mounts /\ named' = named
    BY <2>1 DEF Connect
  <2>3. MountsInv'
    BY <2>2 DEF SettingsInv, MountsInv
  <2>4. <<Lower(mounts[i].path), ConnString(i)>> \in named
    BY ConnectsWithItsOwn
  <2>5. OwnConnection'
    BY <2>2, <2>4 DEF SettingsInv, NamesInv, OwnConnection
  <2>6. Names(file)' = Names(file)
    BY <2>2 DEF Names
  <2>7. NamesInv'
    BY <2>2, <2>5, <2>6 DEF SettingsInv, NamesInv
  <2>. QED
    BY <2>3, <2>7 DEF SettingsInv
<1>. QED
  BY <1>1, <1>2, <1>3, <1>4 DEF SettingsNext

-----------------------------------------------------------------------------
(* Ranking.                                                                *)

\* What TablesIo returns, whatever the counters.
IsTables(tables) ==
    /\ Len(tables) \in Nat /\ DOMAIN tables = 1..Len(tables)
    /\ \A i \in DOMAIN tables : tables[i].total \in Nat /\ OrZero(tables[i].delta) \in Int

LEMMA BeforeIsAnOrder ==
    ASSUME NEW tables, IsTables(tables),
           NEW i \in DOMAIN tables, NEW j \in DOMAIN tables, NEW k \in DOMAIN tables
    PROVE  /\ ~Before(tables, i, i)
           /\ i # j => Before(tables, i, j) \/ Before(tables, j, i)
           /\ Before(tables, i, j) /\ Before(tables, j, k) => Before(tables, i, k)
           /\ Before(tables, i, j) => OrZero(tables[i].delta) >= OrZero(tables[j].delta)
<1>. DEFINE d(x) == OrZero(tables[x].delta)
            t(x) == tables[x].total
<1>1. /\ i \in Int /\ j \in Int /\ k \in Int
      /\ d(i) \in Int /\ d(j) \in Int /\ d(k) \in Int
      /\ t(i) \in Int /\ t(j) \in Int /\ t(k) \in Int
  BY DEF IsTables
<1>2. \A x, y : Before(tables, x, y) <=>
                    \/ d(x) - d(y) > 0
                    \/ d(x) - d(y) = 0 /\ (\/ t(x) - t(y) > 0
                                           \/ t(x) - t(y) = 0 /\ x < y)
  BY DEF Before
<1>. HIDE DEF d, t
<1>. QED
  <2>1. ~Before(tables, i, i)
    BY <1>1, <1>2
  <2>2. i # j => Before(tables, i, j) \/ Before(tables, j, i)
    BY <1>1, <1>2
  <2>3. Before(tables, i, j) /\ Before(tables, j, k) => Before(tables, i, k)
    BY <1>1, <1>2
  <2>4. Before(tables, i, j) => d(i) >= d(j)
    BY <1>1, <1>2
  <2>. QED
    BY <2>1, <2>2, <2>3, <2>4 DEF d

LEMMA PlacesAre ==
    ASSUME NEW tables, IsTables(tables), NEW i \in DOMAIN tables
    PROVE  /\ Place(tables, i) \in 1..Len(tables)
           /\ \A j \in DOMAIN tables : Before(tables, i, j) => Place(tables, i) < Place(tables, j)
<1>. DEFINE D == DOMAIN tables
            Ahead(j) == {k \in D : Before(tables, k, j)}
<1>1. IsFiniteSet(D) /\ Cardinality(D) = Len(tables) /\ Len(tables) \in Nat
  <2>1. Len(tables) \in Nat /\ D = 1..Len(tables)
    BY DEF IsTables
  <2>2. IsFiniteSet(1..Len(tables)) /\ Cardinality(1..Len(tables)) = Len(tables)
    <3>1. \A n \in Nat : IsFiniteSet(1..n) /\ Cardinality(1..n) = n
      <4>. TAKE n \in Nat
      <4>1. 1 \in Int /\ n \in Int /\ n - 1 + 1 = n /\ (1 > n => n = 0)
        OBVIOUS
      <4>. QED
        BY <4>1, FS_Interval
    <3>. QED
      BY <2>1, <3>1
  <2>. QED
    BY <2>1, <2>2
<1>2. \A j \in D : IsFiniteSet(Ahead(j)) /\ Cardinality(Ahead(j)) \in Nat
  BY <1>1, FS_Subset, FS_CardinalityType
<1>3. Cardinality(Ahead(i)) < Cardinality(D)
  <2>1. Ahead(i) \subseteq D /\ Ahead(i) # D
    BY BeforeIsAnOrder
  <2>. HIDE DEF Ahead, D
  <2>2. Cardinality(Ahead(i)) \in Nat /\ Cardinality(D) \in Nat
    BY <1>1, <2>1, FS_Subset, FS_CardinalityType
  <2>. QED
    BY <1>1, <2>1, <2>2, FS_Subset
<1>4. ASSUME NEW j \in D, Before(tables, i, j)
      PROVE  Cardinality(Ahead(i)) < Cardinality(Ahead(j))
  <2>1. \A k \in Ahead(i) : k \in Ahead(j)
    BY <1>4, BeforeIsAnOrder
  <2>2. i \in Ahead(j) /\ i \notin Ahead(i)
    BY <1>4, BeforeIsAnOrder
  <2>3. Ahead(i) \subseteq Ahead(j) /\ Ahead(i) # Ahead(j)
    BY <2>1, <2>2
  <2>. HIDE DEF Ahead
  <2>. QED
    BY <1>2, <2>3, FS_Subset
<1>5. \A j \in D : Place(tables, j) = Cardinality(Ahead(j)) + 1
  BY DEF Place
<1>. HIDE DEF Ahead
<1>. QED
  <2>1. Place(tables, i) \in 1..Len(tables)
    BY <1>1, <1>2, <1>3, <1>5
  <2>2. ASSUME NEW j \in D, Before(tables, i, j) PROVE Place(tables, i) < Place(tables, j)
    <3>1. Cardinality(Ahead(i)) < Cardinality(Ahead(j))
      BY <1>4, <2>2
    <3>. QED
      BY <1>2, <1>5, <3>1
  <2>. QED
    BY <2>1, <2>2

\* Every place is taken, and by one table.
LEMMA PlacesAreTaken ==
    ASSUME NEW tables, IsTables(tables)
    PROVE  /\ \A k \in 1..Len(tables) : \E i \in DOMAIN tables : Place(tables, i) = k
           /\ \A i, j \in DOMAIN tables : Place(tables, i) = Place(tables, j) => i = j
<1>. DEFINE D == 1..Len(tables)
            f == [i \in D |-> Place(tables, i)]
<1>1. DOMAIN tables = D /\ IsFiniteSet(D)
  BY FS_Interval DEF IsTables
<1>2. f \in [D -> D]
  BY <1>1, PlacesAre
<1>3. ASSUME NEW i \in D, NEW j \in D, Place(tables, i) = Place(tables, j) PROVE i = j
  <2>1. /\ Place(tables, i) \in 1..Len(tables) /\ Len(tables) \in Nat
        /\ Before(tables, i, j) => Place(tables, i) < Place(tables, j)
        /\ Before(tables, j, i) => Place(tables, j) < Place(tables, i)
    BY <1>1, PlacesAre DEF IsTables
  <2>2. ~Before(tables, i, j) /\ ~Before(tables, j, i)
    BY <1>3, <2>1
  <2>. QED
    BY <1>1, <2>2, BeforeIsAnOrder
<1>4. f \in Injection(D, D)
  BY <1>2, <1>3 DEF Injection, IsInjective
<1>5. f \in Surjection(D, D)
  BY <1>1, <1>4, FS_Injection
<1>6. \A k \in D : \E i \in D : f[i] = k
  BY <1>5 DEF Surjection
<1>. QED
  BY <1>1, <1>3, <1>6

\* The list holds the tables of the first places, each at its place.
LEMMA RankIs ==
    ASSUME NEW tables, IsTables(tables)
    PROVE  /\ DOMAIN Rank(tables) = 1..AtMost(TOP_N, Len(tables))
           /\ \A k \in DOMAIN Rank(tables) :
                 \E i \in DOMAIN tables : Place(tables, i) = k /\ Rank(tables)[k] = tables[i]
           /\ \A i \in DOMAIN tables : Place(tables, i) \in DOMAIN Rank(tables)
                 => Rank(tables)[Place(tables, i)] = tables[i]
<1>. DEFINE Chosen(k) == CHOOSE i \in DOMAIN tables : Place(tables, i) = k
            n == AtMost(TOP_N, Len(tables))
<1>1. Len(tables) \in Nat /\ TOP_N \in Nat /\ n \in Nat /\ n <= Len(tables)
  BY DiskAssumption DEF IsTables, AtMost
<1>2. DOMAIN Rank(tables) = 1..n /\ \A k \in 1..n : Rank(tables)[k] = tables[Chosen(k)]
  BY DEF Rank
<1>3. \A k \in 1..Len(tables) : Chosen(k) \in DOMAIN tables /\ Place(tables, Chosen(k)) = k
  BY PlacesAreTaken
<1>. HIDE DEF Chosen, n
<1>4. \A k \in 1..n : k \in 1..Len(tables)
  BY <1>1
<1>5. \A k \in 1..n : Chosen(k) \in DOMAIN tables /\ Place(tables, Chosen(k)) = k
                      /\ Rank(tables)[k] = tables[Chosen(k)]
  BY <1>2, <1>3, <1>4
<1>6. ASSUME NEW i \in DOMAIN tables, Place(tables, i) \in 1..n
      PROVE  Rank(tables)[Place(tables, i)] = tables[i]
  <2>1. Chosen(Place(tables, i)) = i
    BY <1>5, <1>6, PlacesAreTaken
  <2>. QED
    BY <1>5, <1>6, <2>1
<1>. QED
  BY <1>2, <1>5, <1>6 DEF n

\* What is left out moved no more than anything that is listed.
LEMMA LeftOutIsColder ==
    ASSUME NEW tables, IsTables(tables), NEW i \in DOMAIN tables,
           \A k \in DOMAIN Rank(tables) : Rank(tables)[k] # tables[i],
           NEW k \in DOMAIN Rank(tables)
    PROVE  OrZero(Rank(tables)[k].delta) >= OrZero(tables[i].delta)
<1>. DEFINE n == AtMost(TOP_N, Len(tables))
<1>1. n \in Nat /\ DOMAIN Rank(tables) = 1..n
  BY RankIs, DiskAssumption DEF AtMost, IsTables
<1>2. PICK j \in DOMAIN tables : Place(tables, j) = k /\ Rank(tables)[k] = tables[j]
  BY RankIs
<1>3. Place(tables, i) \notin DOMAIN Rank(tables)
  BY RankIs
<1>4. Place(tables, i) \in 1..Len(tables) /\ Len(tables) \in Nat
  BY PlacesAre DEF IsTables
<1>. HIDE DEF n
<1>5. Place(tables, j) < Place(tables, i)
  BY <1>1, <1>2, <1>3, <1>4
<1>6. Before(tables, j, i)
  <2>1. i # j
    BY <1>2
  <2>2. ~Before(tables, i, j)
    <3>1. Before(tables, i, j) => Place(tables, i) < Place(tables, j)
      BY PlacesAre
    <3>2. Place(tables, j) \in Int /\ Place(tables, i) \in Int
      BY <1>1, <1>2, <1>4
    <3>. QED
      BY <1>5, <3>1, <3>2
  <2>. QED
    BY <2>1, <2>2, BeforeIsAnOrder
<1>. QED
  BY <1>2, <1>6, BeforeIsAnOrder

-----------------------------------------------------------------------------
(* Counters.                                                               *)

IsReal(r) == r.sum \in Nat /\ r.era \in Nat

\* y is a later value of a counter than x.  It has grown by what was counted in
\* between, or has started again and holds no more than that.
Grown(x, before, y, after) ==
    /\ x \in Nat /\ y \in Nat /\ before.sum <= after.sum /\ before.era <= after.era
    /\ before.era = after.era => y - x = after.sum - before.sum
    /\ before.era # after.era => y <= after.sum - before.sum

LEMMA GrownAgain ==
    ASSUME NEW x, NEW before, IsReal(before), NEW y, NEW after, IsReal(after), NEW z, NEW later, IsReal(later),
           Grown(x, before, y, after), Grown(y, after, z, later)
    PROVE  Grown(x, before, z, later)
  BY DEF Grown, IsReal

LEMMA DeltaTells ==
    ASSUME NEW y \in Nat, NEW before, IsReal(before), NEW after, IsReal(after),
           NEW x, x = Unknown \/ Grown(x, before, y, after)
    PROVE  /\ Delta(y, x) = Unknown \/ (Delta(y, x) \in Nat /\ Delta(y, x) <= after.sum - before.sum)
           /\ x # Unknown /\ after.era = before.era => Delta(y, x) = after.sum - before.sum
           /\ OrZero(Delta(y, x)) \in Int
<1>1. Unknown \notin Int /\ y # Unknown
  BY DiskAssumption
<1>2. CASE x = Unknown
  BY <1>1, <1>2 DEF Delta, OrZero
<1>3. CASE x # Unknown
  <2>1. x \in Nat /\ Grown(x, before, y, after)
    BY <1>3 DEF Grown
  <2>2. Delta(y, x) = IF y < x THEN Unknown ELSE y - x
    BY <1>1, <1>3, <2>1 DEF Delta
  <2>3. y - x <= after.sum - before.sum
    BY <2>1 DEF Grown, IsReal
  <2>. QED
    BY <1>1, <2>1, <2>2, <2>3 DEF Grown, IsReal, OrZero
<1>. QED
  BY <1>2, <1>3

LEMMA AnswersAre ==
    ASSUME NEW order \in Answers
    PROVE  /\ Len(order) \in Nat /\ DOMAIN order = 1..Len(order)
           /\ \A i \in DOMAIN order : order[i] \in Relation
           /\ \A i, j \in DOMAIN order : i # j => order[i] # order[j]
<1>. DEFINE N == Cardinality(Relation)
<1>1. N \in Nat /\ FETCH_N \in Nat
  BY DiskAssumption, FS_CardinalityType
<1>2. PICK s \in [1..N -> Relation] : /\ \A i, j \in 1..N : i # j => s[i] # s[j]
                                      /\ order = SubSeq(s, 1, AtMost(FETCH_N, Len(s)))
  BY DEF Answers, SetToSeqs
<1>. HIDE DEF N
<1>3. Len(s) = N
  BY <1>1, <1>2
<1>. DEFINE n == AtMost(FETCH_N, Len(s))
<1>4. n \in Nat /\ n <= N
  BY <1>1, <1>3 DEF AtMost
<1>. HIDE DEF n
<1>5. \A i \in 1..n : i \in 1..N /\ s[i] \in Relation
  BY <1>1, <1>2, <1>4
<1>6. order = SubSeq(s, 1, n)
  BY <1>2 DEF n
<1>7. order \in Seq(Relation) /\ Len(order) = n /\ \A i \in 1..n : order[i] = s[i]
  BY <1>4, <1>5, <1>6, SubSeqProperties
<1>8. DOMAIN order = 1..n
  BY <1>7, LenProperties
<1>. QED
  BY <1>2, <1>4, <1>5, <1>7, <1>8

-----------------------------------------------------------------------------
(* The disk I/O section.                                                   *)

Reals == [sum : Nat, era : Nat]

CountersInv == count \in [Counter -> Nat] /\ real \in [Counter -> Reals]

\* The rows of a tick are one reading of some tables, later than the retained one.
ReadingInv ==
    reading.pc = "writes" =>
        /\ Len(reading.rows) \in Nat /\ DOMAIN reading.rows = 1..Len(reading.rows)
        /\ reading.real \in [Counter -> Reals]
        /\ \A i \in DOMAIN reading.rows :
              LET t == reading.rows[i].table IN
              /\ t \in Relation
              /\ Grown(reading.rows[i].total, reading.real[t], count[t], real[t])
              /\ t \in DOMAIN snapshot.reads_by_table =>
                    Grown(snapshot.reads_by_table[t], seen[t], reading.rows[i].total, reading.real[t])
        /\ \A i, j \in DOMAIN reading.rows :
              i # j => reading.rows[i].table # reading.rows[j].table

\* What is retained is what the last tick that published has seen.
SnapshotInv ==
    /\ \A c \in Counter : IsReal(seen[c])
    /\ \A t \in Relation : seen[t].saw => t \in DOMAIN snapshot.reads_by_table
    /\ \A t \in DOMAIN snapshot.reads_by_table :
          t \in Relation /\ Grown(snapshot.reads_by_table[t], seen[t], count[t], real[t])
    /\ seen["wal"].saw => snapshot.wal # Unknown
    /\ snapshot.wal # Unknown => Grown(snapshot.wal, seen["wal"], count["wal"], real["wal"])

DiskInv ==
    /\ version # 0 => CountersInv /\ ReadingInv /\ SnapshotInv
    /\ NothingInvented /\ HotTablesAreListed

LEMMA NothingShown ==
    ASSUME NEW state, state # "ready", shown = Empty(state)
    PROVE  NothingInvented /\ HotTablesAreListed
<1>1. shown.tables = << >> /\ shown.writes = Unknown /\ shown.state = state
  BY DEF Empty, DiskIoModel
<1>2. DOMAIN shown.tables = {}
  BY <1>1
<1>. QED
  BY <1>1, <1>2 DEF NothingInvented, HotTablesAreListed

LEMMA InitDisk ==
    ASSUME Init PROVE DiskInv
<1>1. CASE version = 0
  <2>1. shown = Empty("pending")
    BY DEF Init, NoDisk, DiskInit
  <2>. QED
    BY <1>1, <2>1, NothingShown DEF DiskInv
<1>2. CASE version # 0
  <2>1. DiskInit
    BY <1>2 DEF Init, NoDisk
  <2>2. shown = Empty("pending")
    BY <2>1 DEF DiskInit
  <2>3. CountersInv
    BY <2>1 DEF DiskInit, CountersInv, NoReading, Reals
  <2>4. ReadingInv
    BY <2>1 DEF DiskInit, ReadingInv, NoReading
  <2>5. SnapshotInv
    <3>1. \A c \in Counter : seen[c].sum = 0 /\ seen[c].era = 0 /\ ~seen[c].saw
      <4>1. seen = Seen(NoReading.real, {})
        BY <2>1 DEF DiskInit
      <4>2. \A c \in Counter : NoReading.real[c].sum = 0 /\ NoReading.real[c].era = 0
        BY DEF NoReading
      <4>3. \A c \in Counter : ~seen[c].saw
        BY <4>1, Zenon DEF Seen
      <4>4. \A c \in Counter : seen[c].sum = 0 /\ seen[c].era = 0
        BY <4>1, <4>2 DEF Seen
      <4>. QED
        BY <4>3, <4>4
    <3>2. DOMAIN snapshot.reads_by_table = {} /\ snapshot.wal = Unknown
      BY <2>1 DEF DiskInit, NoSnapshot
    <3>. QED
      BY <3>1, <3>2 DEF SnapshotInv, IsReal, Counter
  <2>. QED
    BY <2>2, <2>3, <2>4, <2>5, NothingShown DEF DiskInv
<1>. QED
  BY <1>1, <1>2

\* Whatever Postgres does to its counters, they grow or start again.
LEMMA CountersGrow ==
    ASSUME CountersInv,
           (\E c \in Counter : Works(c)) \/ (\E C \in SUBSET Counter : StartsAgain(C))
    PROVE  /\ CountersInv'
           /\ \A c \in Counter : Grown(count[c], real[c], count'[c], real'[c])
           /\ UNCHANGED <<version, reading, snapshot, shown, seen, window>>
<1>1. ASSUME NEW c \in Counter, Works(c)
      PROVE  /\ CountersInv'
             /\ \A x \in Counter : Grown(count[x], real[x], count'[x], real'[x])
  <2>1. /\ count' = [count EXCEPT ![c] = @ + 1]
        /\ real' = [real EXCEPT ![c].sum = @ + 1]
    BY <1>1 DEF Works
  <2>2. \A x \in Counter : /\ count[x] \in Nat /\ real[x].sum \in Nat /\ real[x].era \in Nat
                           /\ real[x] \in Reals
    BY DEF CountersInv, Reals
  <2>3. [real[c] EXCEPT !.sum = @ + 1] \in Reals
    BY <2>2 DEF Reals
  <2>4. CountersInv'
    <3>1. count' \in [Counter -> Nat]
      BY <2>1, <2>2 DEF CountersInv
    <3>2. real' = [real EXCEPT ![c] = [real[c] EXCEPT !.sum = @ + 1]]
      BY <2>1
    <3>3. real' \in [Counter -> Reals]
      BY <2>3, <3>2 DEF CountersInv
    <3>. QED
      BY <3>1, <3>3 DEF CountersInv
  <2>5. \A x \in Counter \ {c} : count'[x] = count[x] /\ real'[x] = real[x]
    BY <2>1 DEF CountersInv
  <2>6. count'[c] = count[c] + 1 /\ real'[c].sum = real[c].sum + 1 /\ real'[c].era = real[c].era
    <3>1. c \in DOMAIN count /\ c \in DOMAIN real /\ real[c] \in Reals
      BY <2>2 DEF CountersInv
    <3>2. real'[c] = [real[c] EXCEPT !.sum = @ + 1]
      BY <2>1, <3>1
    <3>. QED
      BY <2>1, <3>1, <3>2 DEF Reals
  <2>7. Grown(count[c], real[c], count'[c], real'[c])
    BY <2>2, <2>6 DEF Grown
  <2>8. \A x \in Counter \ {c} : Grown(count[x], real[x], count'[x], real'[x])
    BY <2>2, <2>5 DEF Grown
  <2>. QED
    BY <2>4, <2>7, <2>8
<1>2. ASSUME NEW C \in SUBSET Counter, StartsAgain(C)
      PROVE  /\ CountersInv'
             /\ \A x \in Counter : Grown(count[x], real[x], count'[x], real'[x])
  <2>1. /\ count' = [c \in Counter |-> IF c \in C THEN 0 ELSE count[c]]
        /\ real' = [c \in Counter |-> IF c \in C THEN [real[c] EXCEPT !.era = @ + 1] ELSE real[c]]
    BY <1>2 DEF StartsAgain
  <2>2. \A x \in Counter : /\ count[x] \in Nat /\ real[x].sum \in Nat /\ real[x].era \in Nat
                           /\ real[x] \in Reals
    BY DEF CountersInv, Reals
  <2>3. \A x \in Counter : [real[x] EXCEPT !.era = @ + 1] \in Reals
    BY <2>2 DEF Reals
  <2>4. CountersInv'
    BY <2>1, <2>2, <2>3 DEF CountersInv
  <2>5. ASSUME NEW x \in Counter PROVE Grown(count[x], real[x], count'[x], real'[x])
    <3>1. CASE x \in C
      <4>1. count'[x] = 0 /\ real'[x] = [real[x] EXCEPT !.era = @ + 1]
        BY <2>1, <3>1
      <4>2. real'[x].sum = real[x].sum /\ real'[x].era = real[x].era + 1
        BY <2>2, <4>1 DEF Reals
      <4>. QED
        BY <2>2, <4>1, <4>2 DEF Grown
    <3>2. CASE x \notin C
      BY <2>1, <2>2, <3>2 DEF Grown
    <3>. QED
      BY <3>1, <3>2
  <2>. QED
    BY <2>4, <2>5
<1>. QED
  BY <1>1, <1>2 DEF Works, StartsAgain

\* What a tick shows of its rows.
LEMMA TablesIoIs ==
    ASSUME ReadingInv, SnapshotInv, reading.pc = "writes"
    PROVE  LET tables == TablesIo(reading.rows, snapshot)
           IN  /\ IsTables(tables) /\ DOMAIN tables = DOMAIN reading.rows
               /\ \A i \in DOMAIN tables :
                     LET t == reading.rows[i].table
                         delta == tables[i].delta
                         reads == reading.real[t].sum - seen[t].sum
                     IN  /\ tables[i].table = t /\ t \in Relation
                         /\ delta = Unknown \/ (delta \in Nat /\ delta <= reads)
                         /\ seen[t].saw /\ reading.real[t].era = seen[t].era => delta = reads
<1>. DEFINE rows == reading.rows
            tables == TablesIo(rows, snapshot)
            n == Len(rows)
            row(i) == [table |-> rows[i].table, total |-> rows[i].total,
                       delta |-> Delta(rows[i].total, Earlier(snapshot, rows[i].table))]
<1>1. n \in Nat /\ DOMAIN rows = 1..n
  BY DEF ReadingInv
<1>2. tables = [i \in 1..n |-> row(i)]
  BY <1>1 DEF TablesIo
<1>3. DOMAIN tables = 1..n /\ Len(tables) = n
  BY <1>1, <1>2
<1>4. \A i \in 1..n : /\ tables[i].table = rows[i].table /\ tables[i].total = rows[i].total
                      /\ tables[i].delta = Delta(rows[i].total, Earlier(snapshot, rows[i].table))
  BY <1>2
<1>. HIDE DEF tables, n
<1>5. ASSUME NEW i \in 1..n
      PROVE  LET t == rows[i].table
                 delta == tables[i].delta
                 reads == reading.real[t].sum - seen[t].sum
             IN  /\ t \in Relation /\ rows[i].total \in Nat /\ OrZero(delta) \in Int
                 /\ delta = Unknown \/ (delta \in Nat /\ delta <= reads)
                 /\ seen[t].saw /\ reading.real[t].era = seen[t].era => delta = reads
  <2>. DEFINE t == rows[i].table
              y == rows[i].total
              x == Earlier(snapshot, t)
  <2>1. /\ t \in Relation /\ Grown(y, reading.real[t], count[t], real[t])
        /\ t \in DOMAIN snapshot.reads_by_table =>
              Grown(snapshot.reads_by_table[t], seen[t], y, reading.real[t])
        /\ reading.real \in [Counter -> Reals]
    BY <1>1 DEF ReadingInv
  <2>2. t \in Counter
    BY <2>1 DEF Counter
  <2>3. IsReal(reading.real[t]) /\ IsReal(seen[t]) /\ y \in Nat
    BY <2>1, <2>2 DEF SnapshotInv, IsReal, Reals, Grown
  <2>4. /\ x = Unknown \/ Grown(x, seen[t], y, reading.real[t])
        /\ seen[t].saw => x # Unknown
    <3>1. CASE t \in DOMAIN snapshot.reads_by_table
      <4>1. x = snapshot.reads_by_table[t] /\ Grown(x, seen[t], y, reading.real[t])
        BY <2>1, <3>1 DEF Earlier
      <4>2. x \in Nat
        BY <4>1 DEF Grown
      <4>. QED
        BY <4>1, <4>2, DiskAssumption
    <3>2. CASE t \notin DOMAIN snapshot.reads_by_table
      <4>1. x = Unknown
        BY <3>2 DEF Earlier
      <4>2. ~seen[t].saw
        BY <2>1, <3>2 DEF SnapshotInv
      <4>. QED
        BY <4>1, <4>2
    <3>. QED
      BY <3>1, <3>2
  <2>5. tables[i].delta = Delta(y, x)
    BY <1>4
  <2>. HIDE DEF x, y, t
  <2>6. /\ Delta(y, x) = Unknown \/ (Delta(y, x) \in Nat /\ Delta(y, x) <= reading.real[t].sum - seen[t].sum)
        /\ x # Unknown /\ reading.real[t].era = seen[t].era
              => Delta(y, x) = reading.real[t].sum - seen[t].sum
        /\ OrZero(Delta(y, x)) \in Int
    BY <2>3, <2>4, DeltaTells
  <2>. QED
    BY <2>1, <2>3, <2>4, <2>5, <2>6 DEF t, y
<1>6. IsTables(tables)
  BY <1>1, <1>3, <1>4, <1>5 DEF IsTables
<1>. QED
  BY <1>1, <1>3, <1>4, <1>5, <1>6 DEF tables

Read(t) == \E i \in DOMAIN reading.rows : reading.rows[i].table = t

LEMMA PublishIs ==
    ASSUME CountersInv, ReadingInv, reading.pc = "writes", NEW asked \in BOOLEAN, Publish(asked)
    PROVE  /\ shown'.state = "ready" /\ shown'.tables = Rank(TablesIo(reading.rows, snapshot))
           /\ IF asked THEN shown'.writes.delta = Delta(count["wal"], snapshot.wal)
                       ELSE shown'.writes = Unknown
           /\ snapshot'.wal = IF asked THEN count["wal"] ELSE Unknown
           /\ \A t : t \in DOMAIN snapshot'.reads_by_table <=> Read(t)
           /\ \A i \in DOMAIN reading.rows :
                 snapshot'.reads_by_table[reading.rows[i].table] = reading.rows[i].total
           /\ \A t \in Relation :
                 /\ seen'[t].sum = reading.real[t].sum /\ seen'[t].era = reading.real[t].era
                 /\ seen'[t].saw => Read(t)
                 /\ window'[t].reads = reading.real[t].sum - seen[t].sum
                 /\ window'[t].told => /\ Read(t) /\ seen[t].saw
                                       /\ reading.real[t].era = seen[t].era
           /\ seen'["wal"].sum = real["wal"].sum /\ seen'["wal"].era = real["wal"].era
           /\ seen'["wal"].saw => asked
           /\ window'["wal"].reads = real["wal"].sum - seen["wal"].sum
           /\ window'["wal"].told => asked /\ seen["wal"].saw /\ real["wal"].era = seen["wal"].era
<1>. DEFINE rows == reading.rows
            tables == TablesIo(rows, snapshot)
            writes == IF asked THEN count["wal"] ELSE Unknown
            written == IF asked THEN WriteIo(writes, snapshot, version) ELSE Unknown
            noted == [reading.real EXCEPT !["wal"] = real["wal"]]
            saw == {rows[i].table : i \in DOMAIN rows} \cup (IF asked THEN {"wal"} ELSE {})
            reads == [t \in {rows[i].table : i \in DOMAIN rows} |->
                          rows[CHOOSE i \in DOMAIN rows : rows[i].table = t].total]
<1>1. /\ shown' = DiskIoModel("ready", Rank(tables), written, ~asked)
      /\ snapshot' = [reads_by_table |-> reads, wal |-> writes]
      /\ seen' = Seen(noted, saw) /\ window' = Truth(noted, saw)
  BY DEF Publish, Build
<1>2. /\ reading.real \in [Counter -> Reals] /\ \A i \in DOMAIN rows : rows[i].table \in Relation
      /\ \A i, j \in DOMAIN rows : i # j => rows[i].table # rows[j].table
  BY DEF ReadingInv
<1>3. "wal" \in Counter /\ "wal" \notin Relation /\ \A t \in Relation : t \in Counter /\ t # "wal"
  BY DiskAssumption DEF Counter
<1>4. noted["wal"] = real["wal"] /\ \A t \in Relation : noted[t] = reading.real[t]
  BY <1>2, <1>3
<1>5. /\ "wal" \in saw <=> asked
      /\ \A t \in Relation : t \in saw <=> Read(t)
  BY <1>2, <1>3 DEF Read
<1>6. shown'.state = "ready" /\ shown'.tables = Rank(tables) /\ shown'.writes = written
  BY <1>1 DEF DiskIoModel
<1>7. IF asked THEN shown'.writes.delta = Delta(count["wal"], snapshot.wal)
               ELSE shown'.writes = Unknown
  BY <1>6 DEF WriteIo
<1>8. snapshot'.wal = writes /\ snapshot'.reads_by_table = reads
  BY <1>1
<1>. HIDE DEF noted, saw, tables, written
<1>9. \A t : t \in DOMAIN snapshot'.reads_by_table <=> Read(t)
  BY <1>8 DEF Read
<1>10. ASSUME NEW i \in DOMAIN rows PROVE snapshot'.reads_by_table[rows[i].table] = rows[i].total
  <2>1. (CHOOSE j \in DOMAIN rows : rows[j].table = rows[i].table) = i
    BY <1>2
  <2>2. reads[rows[i].table] = rows[i].total
    BY <2>1
  <2>. QED
    BY <1>8, <2>2
<1>11. ASSUME NEW c \in Counter
       PROVE  /\ seen'[c].sum = noted[c].sum /\ seen'[c].era = noted[c].era
              /\ seen'[c].saw => c \in saw
              /\ window'[c].reads = noted[c].sum - seen[c].sum
              /\ window'[c].told => c \in saw /\ seen[c].saw /\ noted[c].era = seen[c].era
  <2>1. /\ seen'[c] = [sum |-> noted[c].sum, era |-> noted[c].era, saw |-> c \in saw]
        /\ window'[c] = [reads |-> noted[c].sum - seen[c].sum,
                         told |-> c \in saw /\ seen[c].saw /\ noted[c].era = seen[c].era]
    BY <1>1 DEF Seen, Truth
  <2>2. seen'[c].sum = noted[c].sum /\ seen'[c].era = noted[c].era
    BY <2>1
  <2>3. seen'[c].saw = (c \in saw)
    BY <2>1
  <2>4. window'[c].reads = noted[c].sum - seen[c].sum
    BY <2>1
  <2>5. window'[c].told = (c \in saw /\ seen[c].saw /\ noted[c].era = seen[c].era)
    BY <2>1
  <2>. QED
    BY <2>2, <2>3, <2>4, <2>5
<1>12. \A t \in Relation :
          /\ seen'[t].sum = reading.real[t].sum /\ seen'[t].era = reading.real[t].era
          /\ seen'[t].saw => Read(t)
          /\ window'[t].reads = reading.real[t].sum - seen[t].sum
          /\ window'[t].told => Read(t) /\ seen[t].saw /\ reading.real[t].era = seen[t].era
  BY <1>3, <1>4, <1>5, <1>11
<1>13. /\ seen'["wal"].sum = real["wal"].sum /\ seen'["wal"].era = real["wal"].era
       /\ seen'["wal"].saw => asked
       /\ window'["wal"].reads = real["wal"].sum - seen["wal"].sum
       /\ window'["wal"].told => asked /\ seen["wal"].saw /\ real["wal"].era = seen["wal"].era
  BY <1>3, <1>4, <1>5, <1>11
<1>. QED
  BY <1>6, <1>7, <1>8, <1>9, <1>10, <1>12, <1>13 DEF tables

\* What a tick publishes was read, and what it leaves out was read less.
LEMMA PublishTells ==
    ASSUME CountersInv, ReadingInv, SnapshotInv, reading.pc = "writes",
           NEW asked \in BOOLEAN, Publish(asked)
    PROVE  NothingInvented' /\ HotTablesAreListed'
<1>. DEFINE tables == TablesIo(reading.rows, snapshot)
            list == Rank(tables)
<1>1. /\ IsTables(tables) /\ DOMAIN tables = DOMAIN reading.rows
      /\ \A i \in DOMAIN tables :
            LET t == reading.rows[i].table
                delta == tables[i].delta
                reads == reading.real[t].sum - seen[t].sum
            IN  /\ tables[i].table = t /\ t \in Relation
                /\ delta = Unknown \/ (delta \in Nat /\ delta <= reads)
                /\ seen[t].saw /\ reading.real[t].era = seen[t].era => delta = reads
  BY TablesIoIs
<1>2. /\ shown'.state = "ready" /\ shown'.tables = list
      /\ \A t \in Relation :
            /\ window'[t].reads = reading.real[t].sum - seen[t].sum
            /\ window'[t].told => Read(t) /\ seen[t].saw /\ reading.real[t].era = seen[t].era
  BY PublishIs
<1>. HIDE DEF tables
<1>3. ASSUME NEW i \in DOMAIN tables
      PROVE  LET t == tables[i].table
                 delta == tables[i].delta
             IN  /\ t \in Relation
                 /\ delta # Unknown => delta <= window'[t].reads
                 /\ window'[t].told => delta = window'[t].reads
  BY <1>1, <1>2
<1>4. \A k \in DOMAIN list : \E i \in DOMAIN tables : list[k] = tables[i]
  BY <1>1, RankIs
<1>. HIDE DEF list
<1>5. \A k \in DOMAIN list : LET t == list[k].table
                                 delta == list[k].delta
                             IN  /\ delta # Unknown => delta <= window'[t].reads
                                 /\ window'[t].told => delta = window'[t].reads
  BY <1>3, <1>4
<1>6. ASSUME shown'.writes # Unknown PROVE Told("wal", shown.writes.delta)'
  <2>1. /\ asked /\ shown'.writes.delta = Delta(count["wal"], snapshot.wal)
        /\ window'["wal"].reads = real["wal"].sum - seen["wal"].sum
        /\ window'["wal"].told => seen["wal"].saw /\ real["wal"].era = seen["wal"].era
    BY <1>6, PublishIs
  <2>2. "wal" \in Counter
    BY DEF Counter
  <2>3. count["wal"] \in Nat /\ IsReal(real["wal"]) /\ IsReal(seen["wal"])
    BY <2>2 DEF CountersInv, Reals, IsReal, SnapshotInv
  <2>4. /\ snapshot.wal = Unknown \/ Grown(snapshot.wal, seen["wal"], count["wal"], real["wal"])
        /\ seen["wal"].saw => snapshot.wal # Unknown
    BY DEF SnapshotInv
  <2>5. LET d == Delta(count["wal"], snapshot.wal)
            reads == real["wal"].sum - seen["wal"].sum
        IN  /\ d = Unknown \/ (d \in Nat /\ d <= reads)
            /\ snapshot.wal # Unknown /\ real["wal"].era = seen["wal"].era => d = reads
    BY <2>3, <2>4, DeltaTells
  <2>. QED
    BY <2>1, <2>4, <2>5 DEF Told
<1>7. NothingInvented'
  <2>1. \A k \in DOMAIN shown'.tables : Told(shown.tables[k].table, shown.tables[k].delta)'
    BY <1>2, <1>5 DEF Told
  <2>. QED
    BY <1>6, <2>1 DEF NothingInvented
<1>8. ASSUME NEW t \in Relation, \A k \in DOMAIN list : list[k].table # t, window'[t].told,
             NEW k \in DOMAIN list
      PROVE  OrZero(list[k].delta) >= window'[t].reads
  <2>1. PICK i \in DOMAIN tables : tables[i].table = t
    BY <1>1, <1>2, <1>8 DEF Read
  <2>2. OrZero(list[k].delta) >= OrZero(tables[i].delta)
    <3>1. \A m \in DOMAIN list : list[m] # tables[i]
      BY <1>8, <2>1
    <3>. QED
      BY <1>1, <3>1, LeftOutIsColder DEF list
  <2>3. tables[i].delta = window'[t].reads /\ (tables[i].delta = Unknown \/ tables[i].delta \in Nat)
    BY <1>1, <1>3, <1>8, <2>1
  <2>4. tables[i].delta # Unknown
    <3>1. IsReal(reading.real[t]) /\ IsReal(seen[t])
      BY DEF ReadingInv, SnapshotInv, Reals, IsReal, Counter
    <3>2. window'[t].reads \in Int
      BY <1>2, <3>1 DEF IsReal
    <3>. QED
      BY <2>3, <3>2, DiskAssumption
  <2>. QED
    BY <2>2, <2>3, <2>4 DEF OrZero
<1>9. HotTablesAreListed'
  BY <1>2, <1>8 DEF HotTablesAreListed
<1>. QED
  BY <1>7, <1>9

LEMMA GrownStill ==
    ASSUME SnapshotInv, ReadingInv, CountersInv, CountersInv',
           UNCHANGED <<reading, snapshot, seen>>,
           \A c \in Counter : Grown(count[c], real[c], count'[c], real'[c])
    PROVE  SnapshotInv' /\ ReadingInv'
<1>1. \A c \in Counter : IsReal(real[c]) /\ IsReal(real'[c]) /\ IsReal(seen[c])
  BY DEF CountersInv, Reals, IsReal, SnapshotInv
<1>2. "wal" \in Counter /\ \A t \in Relation : t \in Counter
  BY DEF Counter
<1>3. ASSUME NEW c \in Counter, NEW x, NEW before, IsReal(before), Grown(x, before, count[c], real[c])
      PROVE  Grown(x, before, count'[c], real'[c])
  <2>1. Grown(count[c], real[c], count'[c], real'[c])
    OBVIOUS
  <2>. QED
    BY <1>1, <1>3, <2>1, GrownAgain
<1>4. SnapshotInv'
  <2>1. \A t \in DOMAIN snapshot.reads_by_table :
           t \in Relation /\ Grown(snapshot.reads_by_table[t], seen[t], count'[t], real'[t])
    BY <1>1, <1>2, <1>3 DEF SnapshotInv
  <2>2. snapshot.wal # Unknown => Grown(snapshot.wal, seen["wal"], count'["wal"], real'["wal"])
    BY <1>1, <1>2, <1>3 DEF SnapshotInv
  <2>. QED
    BY <2>1, <2>2 DEF SnapshotInv
<1>5. ASSUME reading.pc = "writes", NEW i \in DOMAIN reading.rows
      PROVE  LET t == reading.rows[i].table
             IN  Grown(reading.rows[i].total, reading.real[t], count'[t], real'[t])
  <2>. DEFINE t == reading.rows[i].table
  <2>1. /\ t \in Relation /\ reading.real \in [Counter -> Reals]
        /\ Grown(reading.rows[i].total, reading.real[t], count[t], real[t])
    BY <1>5 DEF ReadingInv
  <2>2. t \in Counter /\ IsReal(reading.real[t])
    BY <1>2, <2>1 DEF IsReal, Reals
  <2>. QED
    BY <1>3, <2>1, <2>2
<1>6. ReadingInv'
  BY <1>5 DEF ReadingInv
<1>. QED
  BY <1>4, <1>6

LEMMA StepDisk ==
    ASSUME DiskInv, version # 0, DiskNext PROVE DiskInv'
<1>1. CountersInv /\ ReadingInv /\ SnapshotInv /\ NothingInvented /\ HotTablesAreListed
  BY DEF DiskInv
<1>2. CASE \/ \E c \in Counter : Works(c)
           \/ \E C \in {Relation, {"wal"}} \cup {{t} : t \in Relation} : StartsAgain(C)
  <2>1. {Relation, {"wal"}} \cup {{t} : t \in Relation} \subseteq SUBSET Counter
    BY DEF Counter
  <2>2. /\ CountersInv'
        /\ \A c \in Counter : Grown(count[c], real[c], count'[c], real'[c])
        /\ UNCHANGED <<version, reading, snapshot, shown, seen, window>>
    BY <1>1, <1>2, <2>1, CountersGrow
  <2>3. SnapshotInv' /\ ReadingInv'
    BY <1>1, <2>2, GrownStill
  <2>4. NothingInvented' /\ HotTablesAreListed'
    BY <1>1, <2>2 DEF NothingInvented, HotTablesAreListed, Told
  <2>. QED
    BY <2>2, <2>3, <2>4 DEF DiskInv
<1>3. CASE TablesFail
  <2>1. /\ shown' = Empty("unavailable")
        /\ UNCHANGED <<version, count, reading, snapshot, real, seen>>
    BY <1>3 DEF TablesFail
  <2>2. shown'.tables = << >> /\ shown'.writes = Unknown /\ shown'.state = "unavailable"
    BY <2>1 DEF Empty, DiskIoModel
  <2>3. DOMAIN shown'.tables = {}
    BY <2>2
  <2>4. NothingInvented' /\ HotTablesAreListed'
    BY <2>2, <2>3 DEF NothingInvented, HotTablesAreListed
  <2>5. CountersInv' /\ ReadingInv' /\ SnapshotInv'
    BY <1>1, <2>1 DEF CountersInv, ReadingInv, SnapshotInv
  <2>. QED
    BY <2>4, <2>5 DEF DiskInv
<1>4. CASE ReadTables
  <2>1. PICK order \in Answers :
           reading' = [pc |-> "writes", real |-> real,
                       rows |-> [i \in DOMAIN order |-> [table |-> order[i], total |-> count[order[i]]]]]
    BY <1>4 DEF ReadTables
  <2>2. UNCHANGED <<version, count, snapshot, shown, real, seen, window>>
    BY <1>4 DEF ReadTables
  <2>3. /\ Len(order) \in Nat /\ DOMAIN order = 1..Len(order)
        /\ \A i \in DOMAIN order : order[i] \in Relation
        /\ \A i, j \in DOMAIN order : i # j => order[i] # order[j]
    BY AnswersAre
  <2>. DEFINE rows == [i \in 1..Len(order) |-> [table |-> order[i], total |-> count[order[i]]]]
  <2>4. reading'.pc = "writes" /\ reading'.real = real /\ reading'.rows = rows
    BY <2>1, <2>3
  <2>5. /\ DOMAIN rows = 1..Len(order) /\ Len(rows) = Len(order)
        /\ \A i \in 1..Len(order) : rows[i].table = order[i] /\ rows[i].total = count[order[i]]
    BY <2>3
  <2>. HIDE DEF rows
  <2>6. ASSUME NEW i \in DOMAIN rows
        PROVE  LET t == rows[i].table IN
               /\ t \in Relation /\ Grown(rows[i].total, real[t], count[t], real[t])
               /\ t \in DOMAIN snapshot.reads_by_table =>
                     Grown(snapshot.reads_by_table[t], seen[t], rows[i].total, real[t])
    <3>. DEFINE t == order[i]
    <3>1. t \in Relation /\ t \in Counter /\ rows[i].table = t /\ rows[i].total = count[t]
      BY <2>3, <2>5 DEF Counter
    <3>2. count[t] \in Nat /\ real[t].sum \in Nat /\ real[t].era \in Nat
      BY <1>1, <3>1 DEF CountersInv, Reals
    <3>3. Grown(count[t], real[t], count[t], real[t])
      BY <3>2 DEF Grown
    <3>4. t \in DOMAIN snapshot.reads_by_table =>
             Grown(snapshot.reads_by_table[t], seen[t], count[t], real[t])
      BY <1>1 DEF SnapshotInv
    <3>. QED
      BY <3>1, <3>3, <3>4
  <2>7. \A i, j \in DOMAIN rows : i # j => rows[i].table # rows[j].table
    BY <2>3, <2>5
  <2>8. real \in [Counter -> Reals]
    BY <1>1 DEF CountersInv
  <2>9. ReadingInv'
    BY <2>2, <2>3, <2>4, <2>5, <2>6, <2>7, <2>8 DEF ReadingInv
  <2>10. CountersInv' /\ SnapshotInv' /\ NothingInvented' /\ HotTablesAreListed'
    BY <1>1, <2>2 DEF CountersInv, SnapshotInv, NothingInvented, HotTablesAreListed, Told
  <2>. QED
    BY <2>9, <2>10 DEF DiskInv
<1>5. CASE ReadWrites
  <2>1. PICK asked \in BOOLEAN : Publish(asked)
    BY <1>5 DEF ReadWrites
  <2>2. /\ reading.pc = "writes" /\ reading' = NoReading /\ UNCHANGED <<version, count, real>>
    BY <1>5 DEF ReadWrites
  <2>3. NothingInvented' /\ HotTablesAreListed'
    BY <1>1, <2>1, <2>2, PublishTells
  <2>4. CountersInv' /\ ReadingInv'
    BY <1>1, <2>2 DEF CountersInv, ReadingInv, NoReading
  <2>5. /\ snapshot'.wal = IF asked THEN count["wal"] ELSE Unknown
        /\ \A t : t \in DOMAIN snapshot'.reads_by_table <=> Read(t)
        /\ \A i \in DOMAIN reading.rows :
              snapshot'.reads_by_table[reading.rows[i].table] = reading.rows[i].total
        /\ \A t \in Relation :
              /\ seen'[t].sum = reading.real[t].sum /\ seen'[t].era = reading.real[t].era
              /\ seen'[t].saw => Read(t)
        /\ seen'["wal"].sum = real["wal"].sum /\ seen'["wal"].era = real["wal"].era
        /\ seen'["wal"].saw => asked
    BY <1>1, <2>1, <2>2, PublishIs
  <2>6. /\ "wal" \in Counter /\ \A c \in Counter : c \in Relation \/ c = "wal"
        /\ \A t \in Relation : t \in Counter
    BY DEF Counter
  <2>7. \A c \in Counter : IsReal(seen'[c])
    BY <1>1, <2>2, <2>5, <2>6 DEF IsReal, CountersInv, ReadingInv, Reals
  <2>8. ASSUME NEW t, Read(t)
        PROVE  t \in Relation /\ Grown(snapshot'.reads_by_table[t], seen'[t], count[t], real[t])
    <3>1. PICK i \in DOMAIN reading.rows : reading.rows[i].table = t
      BY <2>8 DEF Read
    <3>2. t \in Relation /\ Grown(reading.rows[i].total, reading.real[t], count[t], real[t])
      BY <1>1, <2>2, <3>1 DEF ReadingInv
    <3>3. /\ snapshot'.reads_by_table[t] = reading.rows[i].total
          /\ seen'[t].sum = reading.real[t].sum /\ seen'[t].era = reading.real[t].era
      BY <2>5, <3>1, <3>2
    <3>. QED
      BY <3>2, <3>3 DEF Grown
  <2>9. count["wal"] \in Nat /\ real["wal"].sum \in Nat /\ real["wal"].era \in Nat
    BY <1>1, <2>6 DEF CountersInv, Reals
  <2>10. asked => snapshot'.wal # Unknown /\ Grown(snapshot'.wal, seen'["wal"], count["wal"], real["wal"])
    BY <2>5, <2>9, DiskAssumption DEF Grown
  <2>11. SnapshotInv'
    BY <2>2, <2>5, <2>7, <2>8, <2>10 DEF SnapshotInv
  <2>. QED
    BY <2>3, <2>4, <2>11 DEF DiskInv
<1>. QED
  BY <1>2, <1>3, <1>4, <1>5 DEF DiskNext

-----------------------------------------------------------------------------
(* Functions that go on further right.                                     *)

Places == Nat \ {0}

\* What holds behind n, and at a place when it holds at all those behind it,
\* holds everywhere.
LEMMA FromTheRight ==
    ASSUME NEW n \in Nat, NEW Good \in SUBSET Places,
           \A i \in Places : i > n => i \in Good,
           \A i \in 1..n : (\A j \in Places : j > i => j \in Good) => i \in Good
    PROVE  \A i \in Places : i \in Good
<1>. SUFFICES ASSUME NEW b \in Places, b \notin Good PROVE FALSE
  OBVIOUS
<1>. DEFINE Bad == {i \in 1..n : i \notin Good}
<1>1. b \in Bad
  BY DEF Places
<1>2. Bad \in SUBSET (1..n) /\ Bad # {}
  BY <1>1
<1>3. PICK i \in Bad : \A j \in Bad : j <= i
  <2>. HIDE DEF Bad
  <2>. QED
    BY <1>2, Greatest
<1>4. \A j \in Places : j > i => j \in Good
  <2>. TAKE j \in Places
  <2>. SUFFICES ASSUME j > i, j \notin Good PROVE FALSE
    OBVIOUS
  <2>1. j \in 1..n
    BY DEF Places
  <2>. QED
    BY <1>3, <2>1
<1>. QED
  BY <1>3, <1>4

\* A function on places that is given behind n, and at a place by what it is
\* at one place behind it.
GoesOn(f, n, base, next, step, k) ==
    \A i \in Places : i > k => f[i] = IF i <= n THEN step[i][f[next[i]]] ELSE base

LEMMA RecursionExists ==
    ASSUME NEW n \in Nat, NEW D, NEW base \in D, NEW next \in [1..n -> Places],
           \A i \in 1..n : next[i] > i, NEW step \in [1..n -> [D -> D]]
    PROVE  \E f \in [Places -> D] : GoesOn(f, n, base, next, step, 0)
<1>. DEFINE Lacking == {m \in 0..n : ~\E f \in [Places -> D] : GoesOn(f, n, base, next, step, n - m)}
<1>1. 0 \notin Lacking
  <2>. DEFINE f == [i \in Places |-> base]
  <2>1. f \in [Places -> D] /\ \A i \in Places : i > n => f[i] = base /\ ~(i <= n)
    BY DEF Places
  <2>2. GoesOn(f, n, base, next, step, n - 0)
    BY <2>1 DEF GoesOn
  <2>. QED
    BY <2>1, <2>2
<1>2. Lacking = {}
  <2>. SUFFICES ASSUME Lacking # {} PROVE FALSE
    OBVIOUS
  <2>1. PICK m \in Lacking : \A k \in Lacking : m <= k
    <3>1. Lacking \in SUBSET Nat
      OBVIOUS
    <3>. HIDE DEF Lacking
    <3>. QED
      BY <3>1, LeastNatural
  <2>2. m - 1 \in 0..n /\ m - 1 \notin Lacking /\ m \in 1..n
    <3>1. m \in 0..n /\ m # 0
      BY <1>1, <2>1
    <3>. HIDE DEF Lacking
    <3>2. m - 1 \in 0..n /\ m \in 1..n /\ ~(m <= m - 1)
      BY <3>1
    <3>. QED
      BY <2>1, <3>2
  <2>3. PICK f \in [Places -> D] : GoesOn(f, n, base, next, step, n - (m - 1))
    BY <2>2
  <2>. DEFINE a == n - m + 1
              h == [f EXCEPT ![a] = step[a][f[next[a]]]]
  <2>4. a \in 1..n /\ a \in Places /\ n - (m - 1) = a /\ next[a] \in Places /\ next[a] > a
    BY <2>2 DEF Places
  <2>5. h \in [Places -> D] /\ h[a] = step[a][f[next[a]]] /\ \A i \in Places : i # a => h[i] = f[i]
    <3>1. f[next[a]] \in D /\ step[a] \in [D -> D]
      BY <2>4
    <3>2. step[a][f[next[a]]] \in D
      BY <3>1
    <3>. QED
      BY <2>4, <3>2
  <2>. HIDE DEF h
  <2>6. ASSUME NEW i \in Places, i > n - m
        PROVE  h[i] = IF i <= n THEN step[i][h[next[i]]] ELSE base
    <3>1. CASE i = a
      <4>1. h[next[a]] = f[next[a]]
        BY <2>4, <2>5
      <4>. QED
        BY <2>4, <2>5, <3>1, <4>1
    <3>2. CASE i # a
      <4>1. i > a
        BY <2>2, <2>6, <3>2 DEF Places
      <4>2. f[i] = IF i <= n THEN step[i][f[next[i]]] ELSE base
        BY <2>3, <2>4, <4>1 DEF GoesOn
      <4>3. i <= n => next[i] \in Places /\ next[i] # a
        BY <2>4, <4>1 DEF Places
      <4>. QED
        BY <2>5, <3>2, <4>2, <4>3
    <3>. QED
      BY <3>1, <3>2
  <2>7. GoesOn(h, n, base, next, step, n - m)
    BY <2>6 DEF GoesOn
  <2>. QED
    BY <2>1, <2>5, <2>7
<1>3. n \in 0..n /\ n - n = 0
  OBVIOUS
<1>. QED
  BY <1>2, <1>3

-----------------------------------------------------------------------------
(* The tokenizer.                                                          *)

LEMMA LeqIs ==
    ASSUME NEW S \in SUBSET Nat, S # {}
    PROVE  Leq(S) \in S /\ \A j \in S : Leq(S) <= j
  BY LeastNatural DEF Leq

\* What QuotedEnd is computed from.
EndStep(s, mark, escapes, f, j) ==
    IF j > Len(s) THEN Unterminated
    ELSE CASE escapes /\ s[j] = "backslash" -> f[j + 2]
           [] s[j] = mark -> IF j < Len(s) /\ s[j + 1] = mark THEN f[j + 2] ELSE j + 1
           [] OTHER -> f[j + 1]
Ends(s, mark, escapes, f) == f = [j \in Places |-> EndStep(s, mark, escapes, f, j)]
EndOf(s, mark, escapes) == CHOOSE f : Ends(s, mark, escapes, f)

LEMMA QuotedEndUnfolds ==
    ASSUME NEW s, NEW i, NEW mark, NEW escapes
    PROVE  QuotedEnd(s, i, mark, escapes) = EndOf(s, mark, escapes)[i + 1]
  BY DEF QuotedEnd, EndOf, Ends, EndStep, Places

LEMMA EndExists ==
    ASSUME NEW s, Len(s) \in Nat, NEW mark, mark # "backslash", NEW escapes \in BOOLEAN
    PROVE  Ends(s, mark, escapes, EndOf(s, mark, escapes))
<1>. DEFINE n == Len(s)
            hides(j) == escapes /\ s[j] = "backslash"
            doubled(j) == j < n /\ s[j + 1] = mark
            next == [j \in 1..n |-> IF hides(j) \/ (s[j] = mark /\ doubled(j)) THEN j + 2 ELSE j + 1]
            step == [j \in 1..n |-> [v \in Int |-> IF ~hides(j) /\ s[j] = mark /\ ~doubled(j)
                                                   THEN j + 1 ELSE v]]
<1>1. next \in [1..n -> Places] /\ \A j \in 1..n : next[j] > j
  BY DEF Places
<1>2. step \in [1..n -> [Int -> Int]]
  OBVIOUS
<1>3. PICK f \in [Places -> Int] : GoesOn(f, n, Unterminated, next, step, 0)
  <2>1. Unterminated \in Int
    BY DEF Unterminated
  <2>. HIDE DEF next, step
  <2>. QED
    BY <1>1, <1>2, <2>1, RecursionExists
<1>4. ASSUME NEW j \in Places PROVE f[j] = EndStep(s, mark, escapes, f, j)
  <2>1. f[j] = IF j <= n THEN step[j][f[next[j]]] ELSE Unterminated
    <3>1. j > 0
      BY DEF Places
    <3>. HIDE DEF n, next, step
    <3>. QED
      BY <1>3, <3>1 DEF GoesOn
  <2>2. CASE j > n
    <3>1. ~(j <= n)
      BY <2>2 DEF Places
    <3>2. f[j] = Unterminated
      BY <2>1, <3>1
    <3>. QED
      BY <2>2, <3>2 DEF EndStep
  <2>3. CASE j <= n
    <3>1. j \in 1..n /\ next[j] \in Places /\ f[next[j]] \in Int
      BY <1>1, <2>3 DEF Places
    <3>2. f[j] = IF ~hides(j) /\ s[j] = mark /\ ~doubled(j) THEN j + 1 ELSE f[next[j]]
      BY <2>1, <2>3, <3>1
    <3>3. next[j] = IF hides(j) \/ (s[j] = mark /\ doubled(j)) THEN j + 2 ELSE j + 1
      BY <3>1
    <3>. HIDE DEF next, step
    <3>4. ~(j > Len(s))
      BY <3>1
    <3>5. CASE hides(j)
      BY <3>2, <3>3, <3>4, <3>5 DEF EndStep
    <3>6. CASE ~hides(j) /\ s[j] = mark
      BY <3>2, <3>3, <3>4, <3>6 DEF EndStep
    <3>7. CASE ~hides(j) /\ s[j] # mark
      BY <3>2, <3>3, <3>4, <3>7 DEF EndStep
    <3>. QED
      BY <3>5, <3>6, <3>7
  <2>. QED
    BY <2>2, <2>3 DEF Places
<1>5. f = [j \in Places |-> EndStep(s, mark, escapes, f, j)]
  BY <1>4
<1>. QED
  BY <1>5 DEF EndOf, Ends

\* What is closed is closed further right.
LEMMA QuotedEndIs ==
    ASSUME NEW s, Len(s) \in Nat, NEW i \in Nat, NEW mark, mark # "backslash",
           NEW escapes \in BOOLEAN
    PROVE  LET end == QuotedEnd(s, i, mark, escapes)
           IN  end = Unterminated \/ (end \in Places /\ end > i + 1)
<1>. DEFINE n == Len(s)
            f == EndOf(s, mark, escapes)
            Good == {j \in Places : f[j] = Unterminated \/ (f[j] \in Places /\ f[j] > j)}
<1>1. \A j \in Places : f[j] = EndStep(s, mark, escapes, f, j)
  BY EndExists DEF Ends
<1>2. QuotedEnd(s, i, mark, escapes) = f[i + 1]
  BY QuotedEndUnfolds
<1>. HIDE DEF f
<1>3. \A j \in Places : j > n => j \in Good
  BY <1>1 DEF EndStep
<1>4. ASSUME NEW j \in 1..n, \A k \in Places : k > j => k \in Good PROVE j \in Good
  <2>1. j \in Places /\ j + 1 \in Places /\ j + 2 \in Places /\ j + 1 > j /\ j + 2 > j /\ ~(j > Len(s))
    BY DEF Places
  <2>2. j + 1 \in Good /\ j + 2 \in Good
    BY <1>4, <2>1
  <2>3. f[j] \in {f[j + 1], f[j + 2], j + 1}
    <3>1. f[j] = EndStep(s, mark, escapes, f, j)
      BY <1>1, <2>1
    <3>2. CASE escapes /\ s[j] = "backslash"
      BY <2>1, <3>1, <3>2 DEF EndStep
    <3>3. CASE ~(escapes /\ s[j] = "backslash") /\ s[j] = mark
      BY <2>1, <3>1, <3>3 DEF EndStep
    <3>4. CASE ~(escapes /\ s[j] = "backslash") /\ s[j] # mark
      BY <2>1, <3>1, <3>4 DEF EndStep
    <3>. QED
      BY <3>2, <3>3, <3>4
  <2>. QED
    BY <2>1, <2>2, <2>3 DEF Places
<1>5. i + 1 \in Good
  <2>1. Good \in SUBSET Places /\ i + 1 \in Places
    BY DEF Places
  <2>. HIDE DEF Good
  <2>. QED
    BY <1>3, <1>4, <2>1, FromTheRight
<1>. QED
  BY <1>2, <1>5

\* The code goes on further right, or stops.
LEMMA AfterIs ==
    ASSUME NEW s, Len(s) \in Nat, NEW i \in 1..Len(s)
    PROVE  After(s, i) = Unterminated \/ (After(s, i) \in Places /\ After(s, i) > i)
<1>. DEFINE n == Len(s)
            Right(j) == j = Unterminated \/ (j \in Places /\ j > i)
<1>1. \A j \in Nat : j >= i => j + 1 \in Places /\ j + 1 > i /\ j + 1 # Unterminated
  BY DEF Places, Unterminated
<1>2. ASSUME s[i] = "--" PROVE Right(LineEnd(s, i))
  <2>. DEFINE ends == {j \in i..n : s[j] = "LF"}
  <2>1. CASE ends = {}
    <3>1. LineEnd(s, i) = n + 1
      BY <2>1 DEF LineEnd
    <3>. QED
      BY <1>1, <3>1
  <2>2. CASE ends # {}
    <3>1. LineEnd(s, i) = Leq(ends)
      BY <2>2 DEF LineEnd
    <3>2. \A j \in ends : j \in Places /\ j > i
      BY <1>2 DEF Places
    <3>3. ends \in SUBSET Nat
      OBVIOUS
    <3>. HIDE DEF ends
    <3>4. Leq(ends) \in ends
      BY <2>2, <3>3, LeqIs
    <3>. QED
      BY <3>1, <3>2, <3>4
  <2>. QED
    BY <2>1, <2>2
<1>3. ASSUME NEW ends, ends \in SUBSET ((i + 1)..n)
      PROVE  Right(IF ends = {} THEN Unterminated ELSE Leq(ends) + 1)
  <2>1. CASE ends # {}
    <3>1. ends \in SUBSET Nat
      BY <1>3
    <3>2. Leq(ends) \in ends
      BY <2>1, <3>1, LeqIs
    <3>3. Leq(ends) \in Nat /\ Leq(ends) >= i
      <4>1. \A e \in (i + 1)..n : e \in Nat /\ e >= i
        OBVIOUS
      <4>. QED
        BY <1>3, <3>2, <4>1
    <3>. QED
      BY <1>1, <2>1, <3>3
  <2>. QED
    BY <2>1
<1>4. Right(BlockEnd(s, i))
  BY <1>3 DEF BlockEnd
<1>5. Right(DollarEnd(s, i))
  BY <1>3 DEF DollarEnd
<1>6. ASSUME NEW mark \in {"'", "quote"}, NEW escapes \in BOOLEAN, NEW k \in {i, i + 1}
      PROVE  Right(QuotedEnd(s, k, mark, escapes))
  <2>1. k \in Nat /\ k >= i /\ mark # "backslash"
    OBVIOUS
  <2>2. QuotedEnd(s, k, mark, escapes) = Unterminated
        \/ (QuotedEnd(s, k, mark, escapes) \in Places /\ QuotedEnd(s, k, mark, escapes) > k + 1)
    BY <2>1, QuotedEndIs
  <2>. QED
    BY <2>1, <2>2 DEF Places
<1>7. Right(i + 1)
  BY <1>1
<1>. HIDE DEF Right
<1>8. Right(After(s, i))
  <2>1. CASE s[i] = "--"
    BY <1>2, <2>1 DEF After, OpensEscapes
  <2>2. CASE s[i] = "/*"
    BY <1>4, <2>2 DEF After, OpensEscapes
  <2>3. CASE s[i] = "'"
    BY <1>6, <2>3 DEF After, OpensEscapes
  <2>4. CASE OpensEscapes(s, i)
    BY <1>6, <2>4 DEF After, OpensEscapes
  <2>5. CASE s[i] = "quote"
    BY <1>6, <2>5 DEF After, OpensEscapes
  <2>6. CASE s[i] = "$$"
    BY <1>5, <2>6 DEF After, OpensEscapes
  <2>7. CASE s[i] \notin {"--", "/*", "'", "quote", "$$"} /\ ~OpensEscapes(s, i)
    BY <1>7, <2>7 DEF After
  <2>. QED
    BY <2>1, <2>2, <2>3, <2>4, <2>5, <2>6, <2>7
<1>. QED
  BY <1>8 DEF Right

\* What Tokenize is computed from.
TokensStep(s, f, i) ==
    LET next == After(s, i)
        rest == f[next]
    IN CASE i > Len(s) -> <<>>
         [] i <= Len(s) /\ (next = Unterminated \/ rest = Error) -> Error
         [] OTHER -> TokenOf(s, i) \o rest
TokensFrom(s, f) == f = [i \in Places |-> TokensStep(s, f, i)]
TokensOf(s) == CHOOSE f : TokensFrom(s, f)

LEMMA TokenizeUnfolds ==
    ASSUME NEW s
    PROVE  Tokenize(s) = TokensOf(s)[1]
  BY DEF Tokenize, TokensOf, TokensFrom, TokensStep, Places

\* What a token may be: a unit of the text, or something quoted.
Kept(s) == {s[i] : i \in 1..Len(s)} \cup {"literal", "quoted name", "error"}

LEMMA TokenOfIs ==
    ASSUME NEW s, NEW i, NEW K, s[i] \in K, Opaque \subseteq K
    PROVE  TokenOf(s, i) \in Seq(K)
<1>1. "literal" \in K /\ "quoted name" \in K
  BY DEF Opaque
<1>2. << >> \in Seq(K) /\ \A u \in K : <<u>> \in Seq(K)
  OBVIOUS
<1>3. TokenOf(s, i) \in {<< >>, <<"literal">>, <<"quoted name">>, <<s[i]>>}
  <2>1. CASE s[i] \in {"--", "/*", "CR", "LF"}
    BY <2>1 DEF TokenOf, OpensEscapes
  <2>2. CASE s[i] \in {"'", "$$"} \/ OpensEscapes(s, i)
    BY <2>2 DEF TokenOf, OpensEscapes
  <2>3. CASE s[i] = "quote"
    BY <2>3 DEF TokenOf, OpensEscapes
  <2>4. CASE s[i] \notin {"--", "/*", "CR", "LF", "'", "$$", "quote"} /\ ~OpensEscapes(s, i)
    BY <2>4 DEF TokenOf
  <2>. QED
    BY <2>1, <2>2, <2>3, <2>4
<1>. QED
  BY <1>1, <1>2, <1>3

LEMMA KeptIs ==
    ASSUME NEW s, NEW i \in 1..Len(s)
    PROVE  TokenOf(s, i) \in Seq(Kept(s))
<1>1. s[i] \in Kept(s) /\ Opaque \subseteq Kept(s)
  BY DEF Kept, Opaque
<1>. QED
  BY <1>1, TokenOfIs

LEMMA TokensExist ==
    ASSUME NEW s, Len(s) \in Nat
    PROVE  TokensFrom(s, TokensOf(s))
<1>. DEFINE n == Len(s)
            D == Seq(Kept(s))
            next == [i \in 1..n |-> IF After(s, i) = Unterminated THEN i + 1 ELSE After(s, i)]
            step == [i \in 1..n |-> [rest \in D |->
                        IF After(s, i) = Unterminated \/ rest = Error THEN Error
                        ELSE TokenOf(s, i) \o rest]]
<1>1. next \in [1..n -> Places] /\ \A i \in 1..n : next[i] > i
  <2>1. \A i \in 1..n : i + 1 \in Places /\ i + 1 > i
    BY DEF Places
  <2>. QED
    BY <2>1, AfterIs
<1>2. << >> \in D /\ Error \in D
  BY DEF Error, Kept
<1>3. step \in [1..n -> [D -> D]]
  <2>1. \A i \in 1..n : TokenOf(s, i) \in D
    BY KeptIs
  <2>. HIDE DEF D
  <2>2. \A a, b : a \in D /\ b \in D => a \o b \in D
    BY DEF D
  <2>. QED
    BY <1>2, <2>1, <2>2
<1>4. PICK f \in [Places -> D] : GoesOn(f, n, << >>, next, step, 0)
  <2>. HIDE DEF next, step, D
  <2>. QED
    BY <1>1, <1>2, <1>3, RecursionExists
<1>5. ASSUME NEW i \in Places PROVE f[i] = TokensStep(s, f, i)
  <2>1. f[i] = IF i <= n THEN step[i][f[next[i]]] ELSE << >>
    <3>1. i > 0
      BY DEF Places
    <3>. HIDE DEF n, next, step
    <3>. QED
      BY <1>4, <3>1 DEF GoesOn
  <2>2. CASE i > n
    <3>1. ~(i <= n)
      BY <2>2 DEF Places
    <3>2. f[i] = << >>
      BY <2>1, <3>1
    <3>. QED
      BY <2>2, <3>1, <3>2 DEF TokensStep
  <2>3. CASE i <= n
    <3>1. i \in 1..n /\ ~(i > n)
      BY <2>3 DEF Places
    <3>2. f[next[i]] \in D
      BY <1>1, <1>4, <3>1
    <3>3. f[i] = IF After(s, i) = Unterminated \/ f[next[i]] = Error THEN Error
                 ELSE TokenOf(s, i) \o f[next[i]]
      <4>. HIDE DEF D
      <4>. QED
        BY <2>1, <2>3, <3>1, <3>2
    <3>4. After(s, i) # Unterminated => next[i] = After(s, i)
      BY <3>1
    <3>. HIDE DEF next, step, D
    <3>5. CASE After(s, i) = Unterminated
      BY <2>3, <3>1, <3>3, <3>5 DEF TokensStep
    <3>6. CASE After(s, i) # Unterminated /\ f[After(s, i)] = Error
      BY <2>3, <3>1, <3>3, <3>4, <3>6 DEF TokensStep
    <3>7. CASE After(s, i) # Unterminated /\ f[After(s, i)] # Error
      BY <2>3, <3>1, <3>3, <3>4, <3>7 DEF TokensStep
    <3>. QED
      BY <3>5, <3>6, <3>7
  <2>. QED
    BY <2>2, <2>3 DEF Places
<1>6. f = [i \in Places |-> TokensStep(s, f, i)]
  BY <1>5
<1>. QED
  BY <1>6 DEF TokensOf, TokensFrom

\* From any place on, the tokens are units of the text, in a sequence.
LEMMA TokensAre ==
    ASSUME NEW s, Len(s) \in Nat, NEW i \in Places
    PROVE  /\ TokensOf(s)[i] = TokensStep(s, TokensOf(s), i)
           /\ TokensOf(s)[i] \in Seq(Kept(s))
<1>. DEFINE n == Len(s)
            D == Seq(Kept(s))
            f == TokensOf(s)
            Good == {k \in Places : f[k] \in D}
<1>1. \A k \in Places : f[k] = TokensStep(s, f, k)
  BY TokensExist DEF TokensFrom
<1>2. << >> \in D /\ Error \in D
  BY DEF Error, Kept
<1>. HIDE DEF f
<1>3. ASSUME NEW k \in Places, k > n PROVE k \in Good
  <2>1. k > Len(s) /\ ~(k <= Len(s))
    BY <1>3 DEF Places
  <2>2. TokensStep(s, f, k) = << >>
    BY <2>1 DEF TokensStep
  <2>. QED
    BY <1>1, <1>2, <2>2
<1>4. ASSUME NEW k \in 1..n, \A j \in Places : j > k => j \in Good PROVE k \in Good
  <2>1. k \in Places /\ k <= Len(s) /\ ~(k > Len(s))
    BY DEF Places
  <2>2. f[k] = TokensStep(s, f, k)
    BY <1>1, <2>1
  <2>3. CASE After(s, k) = Unterminated \/ f[After(s, k)] = Error
    <3>1. TokensStep(s, f, k) = Error
      BY <2>1, <2>3 DEF TokensStep
    <3>. QED
      BY <1>2, <2>1, <2>2, <3>1
  <2>4. CASE ~(After(s, k) = Unterminated \/ f[After(s, k)] = Error)
    <3>1. TokensStep(s, f, k) = TokenOf(s, k) \o f[After(s, k)]
      BY <2>1, <2>4 DEF TokensStep
    <3>2. After(s, k) \in Good
      BY <1>4, <2>4, AfterIs
    <3>3. TokenOf(s, k) \in D /\ f[After(s, k)] \in D
      BY <3>2, KeptIs
    <3>4. TokenOf(s, k) \o f[After(s, k)] \in D
      BY <3>3
    <3>. QED
      BY <2>1, <2>2, <3>1, <3>4
  <2>. QED
    BY <2>3, <2>4
<1>5. \A k \in Places : k \in Good
  <2>1. Good \in SUBSET Places
    BY DEF Places
  <2>. HIDE DEF Good
  <2>. QED
    BY <1>3, <1>4, <2>1, FromTheRight
<1>. QED
  BY <1>1, <1>5 DEF f

LEMMA TokenizeIs ==
    ASSUME NEW s, Len(s) \in Nat
    PROVE  Tokenize(s) \in Seq(Kept(s))
<1>1. 1 \in Places
  BY DEF Places
<1>. QED
  BY <1>1, TokensAre, TokenizeUnfolds

-----------------------------------------------------------------------------
(* The classifier.                                                         *)

LEMMA MarksGrow ==
    ASSUME NEW s, NEW i \in Nat, NEW j \in Nat, j >= i - 1, NEW mark
    PROVE  /\ Marks(s, i, j, mark) \in Nat
           /\ Marks(s, i, j + 1, mark) = Marks(s, i, j, mark) + IF s[j + 1] = mark THEN 1 ELSE 0
<1>. DEFINE M == {k \in i..j : s[k] = mark}
            N == {k \in i..(j + 1) : s[k] = mark}
<1>1. IsFiniteSet(M)
  <2>1. IsFiniteSet(i..j)
    BY FS_Interval
  <2>. QED
    BY <2>1, FS_Subset
<1>2. j + 1 \notin M
  OBVIOUS
<1>3. Marks(s, i, j, mark) = Cardinality(M) /\ Marks(s, i, j + 1, mark) = Cardinality(N)
  BY DEF Marks
<1>4. CASE s[j + 1] = mark
  <2>1. N = M \cup {j + 1}
    BY <1>4
  <2>. HIDE DEF M, N
  <2>2. Cardinality(M) \in Nat /\ Cardinality(N) = Cardinality(M) + 1
    BY <1>1, <1>2, <2>1, FS_AddElement, FS_CardinalityType
  <2>. QED
    BY <1>3, <1>4, <2>2
<1>5. CASE s[j + 1] # mark
  <2>1. N = M
    BY <1>5
  <2>. HIDE DEF M, N
  <2>. QED
    BY <1>1, <1>3, <1>5, <2>1, FS_CardinalityType
<1>. QED
  BY <1>4, <1>5

LEMMA DepthIs ==
    ASSUME NEW t, NEW i \in Nat
    PROVE  /\ Depth(t, i) \in Int
           /\ Depth(t, i + 1) = Depth(t, i) + (IF t[i + 1] = "(" THEN 1 ELSE 0)
                                            - (IF t[i + 1] = ")" THEN 1 ELSE 0)
           /\ Depth(t, i) = 0 <=> Marks(t, 1, i, "(") = Marks(t, 1, i, ")")
<1>1. \A k : Depth(t, k) = Marks(t, 1, k, "(") - Marks(t, 1, k, ")")
  BY DEF Depth, Marks
<1>2. i >= 1 - 1 /\ 1 \in Nat
  OBVIOUS
<1>3. /\ Marks(t, 1, i, "(") \in Nat
      /\ Marks(t, 1, i + 1, "(") = Marks(t, 1, i, "(") + IF t[i + 1] = "(" THEN 1 ELSE 0
  BY <1>2, MarksGrow
<1>4. /\ Marks(t, 1, i, ")") \in Nat
      /\ Marks(t, 1, i + 1, ")") = Marks(t, 1, i, ")") + IF t[i + 1] = ")" THEN 1 ELSE 0
  BY <1>2, MarksGrow
<1>. QED
  BY <1>1, <1>3, <1>4

LEMMA DepthOfNothing == \A t : Depth(t, 0) = 0
<1>. TAKE t
<1>1. \A mark : {j \in 1..0 : t[j] = mark} = {}
  OBVIOUS
<1>2. Depth(t, 0) = Cardinality({j \in 1..0 : t[j] = "("}) - Cardinality({j \in 1..0 : t[j] = ")"})
  BY DEF Depth
<1>. QED
  BY <1>1, <1>2, FS_EmptySet

\* A parenthesis that opens behind the first token is closed by the first one
\* behind which none is open.
LEMMA ClosedBy ==
    ASSUME NEW t, t[1] \notin {"(", ")"}, t[2] = "(",
           NEW e \in Nat, e >= 2, Depth(t, e) = 0, \A j \in 2..(e - 1) : Depth(t, j) # 0
    PROVE  e > 2 /\ t[e] = ")"
<1>1. Depth(t, 2) = 1
  <2>1. Depth(t, 0 + 1) = 0
    <3>1. t[0 + 1] \notin {"(", ")"}
      OBVIOUS
    <3>. QED
      BY <3>1, DepthIs, DepthOfNothing
  <2>2. Depth(t, 1) = 0 /\ t[1 + 1] = "("
    BY <2>1
  <2>3. Depth(t, 1 + 1) = 1
    BY <2>2, DepthIs
  <2>. QED
    BY <2>3
<1>. DEFINE low == {j \in 2..e : Depth(t, j) <= 0}
<1>2. low \in SUBSET Nat /\ e \in low
  OBVIOUS
<1>3. PICK m \in low : \A j \in low : m <= j
  <2>. HIDE DEF low
  <2>. QED
    BY <1>2, LeastNatural
<1>4. m # 2 /\ m - 1 \in Nat /\ m - 1 \in 2..e /\ m - 1 \notin low /\ (m - 1) + 1 = m
  BY <1>1, <1>3
<1>5. Depth(t, m - 1) \in Int /\ Depth(t, m - 1) > 0
  BY <1>4, DepthIs
<1>6. Depth(t, m) = Depth(t, m - 1) + (IF t[m] = "(" THEN 1 ELSE 0) - (IF t[m] = ")" THEN 1 ELSE 0)
  BY <1>4, DepthIs
<1>7. Depth(t, m) = 0 /\ t[m] = ")"
  BY <1>3, <1>5, <1>6
<1>8. m = e
  BY <1>3, <1>4, <1>7
<1>. QED
  BY <1>4, <1>7, <1>8

\* Behind the options, none of which is ANALYZE; a word that begins a statement
\* is an option only in parentheses.
Statements == QueryHeads \cup {"show"}

LEMMA OptionsAre ==
    ASSUME NEW T, NEW t \in Seq(T), Len(t) \in Nat, Len(t) >= 1, t[1] = "explain",
           OptionsEnd(t) # 0, OptionsEnd(t) <= Len(t)
    PROVE  /\ OptionsEnd(t) \in Nat /\ OptionsEnd(t) >= 2
           /\ \A m \in 2..(OptionsEnd(t) - 1) :
                 /\ t[m] \notin Analyze
                 /\ t[m] \in Statements =>
                       /\ m > 2 /\ t[2] = "("
                       /\ m < OptionsEnd(t) - 1 /\ t[OptionsEnd(t) - 1] = ")"
<1>. DEFINE n == Len(t)
            end == OptionsEnd(t)
<1>1. CASE Follows(t, 1, {"("})
  <2>. DEFINE ends == {i \in 2..n : Depth(t, i) = 0}
              e == IF ends = {} THEN n ELSE Leq(ends)
  <2>1. end = IF \E i \in 2..e : t[i] \in Analyze THEN 0 ELSE e + 1
    BY <1>1 DEF OptionsEnd
  <2>2. n \in Nat /\ n > 1 /\ t[2] = "("
    BY <1>1 DEF Follows
  <2>3. ends # {}
    BY <2>1, <2>2
  <2>4. e \in ends /\ \A j \in ends : e <= j
    <3>1. ends \in SUBSET Nat
      OBVIOUS
    <3>. HIDE DEF ends
    <3>. QED
      BY <2>3, <3>1, LeqIs
  <2>. HIDE DEF e
  <2>5. e \in Nat /\ e >= 2 /\ Depth(t, e) = 0 /\ \A j \in 2..(e - 1) : Depth(t, j) # 0
    BY <2>2, <2>4
  <2>6. e > 2 /\ t[e] = ")"
    <3>1. t[1] \notin {"(", ")"}
      OBVIOUS
    <3>. QED
      BY <2>2, <2>5, <3>1, ClosedBy
  <2>7. end = e + 1 /\ \A i \in 2..e : t[i] \notin Analyze
    BY <2>1
  <2>8. "(" \notin Statements /\ ")" \notin Statements
    BY DEF Statements, QueryHeads
  <2>. HIDE DEF end
  <2>9. \A m \in 2..(end - 1) : m \in 2..e /\ (m # 2 => m > 2) /\ (m # e => m < end - 1) /\ end - 1 = e
    BY <2>5, <2>7
  <2>. QED
    BY <2>2, <2>5, <2>6, <2>7, <2>8, <2>9 DEF end
<1>2. CASE ~Follows(t, 1, {"("})
  <2>. DEFINE others == {i \in 2..n : t[i] \notin ExplainOptions}
              e == IF others = {} THEN n + 1 ELSE Leq(others)
  <2>1. end = IF e <= n /\ t[e] \in Analyze THEN 0 ELSE e
    BY <1>2 DEF OptionsEnd
  <2>2. others # {}
    BY <2>1
  <2>3. e \in others /\ \A j \in others : e <= j
    <3>1. others \in SUBSET Nat
      OBVIOUS
    <3>. HIDE DEF others
    <3>. QED
      BY <2>2, <3>1, LeqIs
  <2>. HIDE DEF e
  <2>4. end = e /\ e \in 2..n
    BY <2>1, <2>3
  <2>5. \A m \in 2..(e - 1) : t[m] \in ExplainOptions
    <3>1. \A m \in 2..(e - 1) : m \in 2..n /\ ~(e <= m)
      BY <2>4
    <3>. QED
      BY <2>3, <3>1
  <2>6. \A u \in ExplainOptions : u \notin Analyze /\ u \notin Statements
    BY DEF ExplainOptions, Analyze, Statements, QueryHeads
  <2>. QED
    BY <2>4, <2>5, <2>6
<1>. QED
  BY <1>1, <1>2

\* The tokens from a place on.
From(t, i) == SubSeq(t, i, Len(t))

LEMMA FromIs ==
    ASSUME NEW T, NEW t \in Seq(T), NEW i \in Places
    PROVE  /\ From(t, i) \in Seq(T)
           /\ i <= Len(t) => Len(From(t, i)) = Len(t) - i + 1
           /\ i > Len(t) => From(t, i) = << >>
           /\ \A k \in 1..(Len(t) - i + 1) : From(t, i)[k] = t[i + k - 1]
<1>1. Len(t) \in Nat /\ i \in Int /\ Len(t) \in Int
  BY DEF Places
<1>2. \A k \in i..Len(t) : t[k] \in T
  <2>1. \A k \in i..Len(t) : k \in 1..Len(t)
    BY <1>1 DEF Places
  <2>. QED
    BY <2>1
<1>3. /\ SubSeq(t, i, Len(t)) \in Seq(T)
      /\ Len(SubSeq(t, i, Len(t))) = IF i <= Len(t) THEN Len(t) - i + 1 ELSE 0
      /\ \A k \in 1..(Len(t) - i + 1) : SubSeq(t, i, Len(t))[k] = t[i + k - 1]
  BY <1>1, <1>2, SubSeqProperties
<1>4. i > Len(t) => SubSeq(t, i, Len(t)) = << >>
  BY <1>1, SubSeqEmpty
<1>. QED
  BY <1>3, <1>4 DEF From

LEMMA FromFrom ==
    ASSUME NEW T, NEW t \in Seq(T), NEW i \in 1..Len(t), NEW k \in 1..(Len(t) - i + 1)
    PROVE  From(From(t, i), k) = From(t, i + k - 1)
<1>1. i \in Places /\ Len(t) \in 1..Len(t) /\ Len(t) - i + 1 \in 1..(Len(t) - i + 1)
  BY DEF Places
<1>2. Len(From(t, i)) = Len(t) - i + 1
  BY <1>1, FromIs
<1>3. SubSeq(SubSeq(t, i, Len(t)), k, Len(t) - i + 1) = SubSeq(t, i + k - 1, i + (Len(t) - i + 1) - 1)
  BY <1>1, SubSeqOfSubSeq
<1>4. i + (Len(t) - i + 1) - 1 = Len(t)
  OBVIOUS
<1>. QED
  BY <1>2, <1>3, <1>4 DEF From

LEMMA WithoutTrailingIs ==
    ASSUME NEW T, NEW t \in Seq(T)
    PROVE  WithoutTrailing(t) \in Seq(T)
<1>1. PICK last \in SUBSET DOMAIN t :
          WithoutTrailing(t) = IF last = {} THEN <<>>
                               ELSE SubSeq(t, 1, CHOOSE i \in last : \A j \in last : j <= i)
  <2>. DEFINE kept == {i \in DOMAIN t : t[i] # ";"}
  <2>1. kept \in SUBSET DOMAIN t
    BY Zenon
  <2>2. WithoutTrailing(t) = IF kept = {} THEN <<>>
                             ELSE SubSeq(t, 1, CHOOSE i \in kept : \A j \in kept : j <= i)
    BY Zenon DEF WithoutTrailing
  <2>. HIDE DEF kept
  <2>. QED
    BY <2>1, <2>2, Zenon
<1>2. CASE last = {}
  BY <1>1, <1>2
<1>3. CASE last # {}
  <2>. DEFINE e == CHOOSE i \in last : \A j \in last : j <= i
  <2>1. last \in SUBSET (1..Len(t)) /\ Len(t) \in Nat
    OBVIOUS
  <2>2. e \in last
    BY <1>3, <2>1, Greatest
  <2>3. WithoutTrailing(t) = SubSeq(t, 1, e)
    BY <1>1, <1>3
  <2>. HIDE DEF e
  <2>4. \A k \in 1..e : t[k] \in T
    BY <2>1, <2>2
  <2>5. e \in Int /\ 1 \in Int
    BY <2>1, <2>2
  <2>. QED
    BY <2>3, <2>4, <2>5, SubSeqProperties
<1>. QED
  BY <1>2, <1>3

-----------------------------------------------------------------------------
(* A statement that reads.                                                 *)

Heads(t) == {j \in DOMAIN t : t[j] # "("}
HeadOf(t) == Leq(Heads(t))

\* A query or a SHOW that reads; an EXPLAIN that does not run the statement it
\* explains, and where that one begins.
Direct(t) ==
    /\ Heads(t) # {}
    /\ (t[HeadOf(t)] \in QueryHeads /\ QueryReads(t)) \/ t[HeadOf(t)] = "show"
EndIn(t) == OptionsEnd(From(t, HeadOf(t)))
Explained(t) ==
    /\ Heads(t) # {} /\ t[HeadOf(t)] = "explain"
    /\ EndIn(t) # 0 /\ EndIn(t) <= Len(t) - HeadOf(t) + 1
OnwardsFrom(t, i) == i + HeadOf(t) - 1 + EndIn(t) - 1

\* What StatementReads is computed from.
ReadsStep(all, f, i) ==
    LET tokens == SubSeq(all, i, Len(all))
        heads == {j \in DOMAIN tokens : tokens[j] # "("}
        head == Leq(heads)
    IN /\ heads # {}
       /\ \/ tokens[head] \in QueryHeads /\ QueryReads(tokens)
          \/ tokens[head] = "show"
          \/ /\ tokens[head] = "explain"
             /\ LET end == OptionsEnd(SubSeq(tokens, head, Len(tokens))) IN
                end # 0 /\ end <= Len(tokens) - head + 1 /\ f[i + head - 1 + end - 1]
ReadsFrom(all, f) == f = [i \in Places |-> ReadsStep(all, f, i)]
ReadsOf(all) == CHOOSE f : ReadsFrom(all, f)

LEMMA StatementReadsUnfolds ==
    ASSUME NEW all
    PROVE  StatementReads(all) = ReadsOf(all)[1]
  BY DEF StatementReads, ReadsOf, ReadsFrom, ReadsStep, Places

LEMMA ReadsStepIs ==
    ASSUME NEW all, NEW f, NEW i
    PROVE  ReadsStep(all, f, i) <=>
              Direct(From(all, i)) \/ (Explained(From(all, i)) /\ f[OnwardsFrom(From(all, i), i)])
  BY Zenon DEF ReadsStep, Direct, Explained, OnwardsFrom, EndIn, From, HeadOf, Heads

LEMMA HeadOfIs ==
    ASSUME NEW T, NEW t \in Seq(T), Heads(t) # {}
    PROVE  /\ HeadOf(t) \in 1..Len(t) /\ t[HeadOf(t)] # "("
           /\ \A k \in 1..(HeadOf(t) - 1) : t[k] = "("
<1>1. Heads(t) \in SUBSET Nat /\ \A k \in Heads(t) : k \in 1..Len(t) /\ t[k] # "("
  BY DEF Heads
<1>2. HeadOf(t) \in Heads(t) /\ \A j \in Heads(t) : HeadOf(t) <= j
  BY <1>1, LeqIs DEF HeadOf
<1>3. \A k \in 1..(HeadOf(t) - 1) : k \in 1..Len(t) /\ ~(HeadOf(t) <= k)
  <2>1. HeadOf(t) \in 1..Len(t)
    BY <1>1, <1>2
  <2>. QED
    BY <2>1
<1>4. \A k \in 1..(HeadOf(t) - 1) : k \notin Heads(t) /\ k \in DOMAIN t
  BY <1>2, <1>3
<1>. QED
  BY <1>1, <1>2, <1>4 DEF Heads

\* An explained statement begins further right, within the tokens; between the
\* two stands the EXPLAIN and nothing that runs.
LEMMA OnwardsIs ==
    ASSUME NEW T, NEW all \in Seq(T), NEW i \in Places, Explained(From(all, i))
    PROVE  LET q == OnwardsFrom(From(all, i), i)
           IN  /\ i <= Len(all) /\ q \in 1..Len(all) /\ q > i
               /\ \E k \in i..(q - 1) : all[k] = "explain"
               /\ \A k \in i..(q - 1) :
                     /\ all[k] \notin Analyze
                     /\ all[k] \in Statements =>
                           \E a \in i..(k - 1), b \in (k + 1)..(q - 1) : all[a] = "(" /\ all[b] = ")"
<1>. DEFINE n == Len(all)
            t == From(all, i)
            h == HeadOf(t)
            x == From(t, h)
            end == EndIn(t)
            q == OnwardsFrom(t, i)
<1>1. i <= n
  <2>1. CASE i > n
    <3>1. t = << >>
      BY <2>1, FromIs
    <3>2. Heads(t) = {}
      BY <3>1 DEF Heads
    <3>. QED
      BY <3>2 DEF Explained
  <2>. QED
    BY <2>1 DEF Places
<1>2. t \in Seq(T) /\ Len(t) = n - i + 1 /\ \A k \in 1..(n - i + 1) : t[k] = all[i + k - 1]
  BY <1>1, FromIs
<1>3. h \in 1..Len(t) /\ \A k \in 1..(h - 1) : t[k] = "("
  BY <1>2, HeadOfIs DEF Explained
<1>4. t[h] = "explain" /\ end # 0 /\ end <= Len(t) - h + 1 /\ end = OptionsEnd(x)
  BY DEF Explained, EndIn
<1>5. q = i + h - 1 + end - 1
  BY DEF OnwardsFrom
<1>. HIDE DEF q, end, x, h, t
<1>6. n \in Nat /\ i \in 1..n
  BY <1>1 DEF Places
<1>7. x \in Seq(T) /\ Len(x) = Len(t) - h + 1 /\ \A k \in 1..(Len(t) - h + 1) : x[k] = t[h + k - 1]
  <2>1. h \in Places /\ h <= Len(t)
    BY <1>2, <1>3, <1>6 DEF Places
  <2>2. x = From(t, h)
    BY DEF x
  <2>3. t \in Seq(T)
    BY <1>2
  <2>4. /\ From(t, h) \in Seq(T) /\ Len(From(t, h)) = Len(t) - h + 1
        /\ \A k \in 1..(Len(t) - h + 1) : From(t, h)[k] = t[h + k - 1]
    BY <2>1, <2>3, FromIs
  <2>. QED
    BY <2>2, <2>4
<1>. DEFINE c == i + h - 1
<1>8. c \in i..n /\ Len(x) = n - c + 1 /\ Len(x) \in Nat /\ Len(x) >= 1
  BY <1>2, <1>3, <1>6, <1>7
<1>9. \A k \in 1..Len(x) : x[k] = all[c + k - 1]
  <2>. TAKE k \in 1..Len(x)
  <2>1. h + k - 1 \in 1..(n - i + 1) /\ k \in 1..(Len(t) - h + 1)
    BY <1>2, <1>3, <1>6, <1>7, <1>8
  <2>2. i + (h + k - 1) - 1 = c + k - 1
    BY <1>2, <1>3, <1>6
  <2>. QED
    BY <1>2, <1>7, <2>1, <2>2
<1>10. \A k \in i..(c - 1) : all[k] = "("
  <2>. TAKE k \in i..(c - 1)
  <2>1. k - i + 1 \in 1..(h - 1) /\ k - i + 1 \in 1..(n - i + 1) /\ i + (k - i + 1) - 1 = k
    BY <1>2, <1>3, <1>6
  <2>. QED
    BY <1>2, <1>3, <2>1
<1>11. all[c] = "explain" /\ x[1] = "explain"
  <2>1. h \in 1..(n - i + 1) /\ 1 \in 1..Len(x) /\ c + 1 - 1 = c
    BY <1>2, <1>3, <1>6, <1>8
  <2>. QED
    BY <1>2, <1>4, <1>9, <2>1
<1>12. /\ end \in Nat /\ end >= 2
       /\ \A m \in 2..(end - 1) :
             /\ x[m] \notin Analyze
             /\ x[m] \in Statements =>
                   /\ m > 2 /\ x[2] = "("
                   /\ m < end - 1 /\ x[end - 1] = ")"
  <2>1. OptionsEnd(x) # 0 /\ OptionsEnd(x) <= Len(x)
    BY <1>4, <1>7
  <2>. QED
    BY <1>4, <1>7, <1>8, <1>11, <2>1, OptionsAre
<1>13. q = c + end - 1 /\ q \in (c + 1)..n /\ end <= Len(x)
  <2>1. q = c + end - 1
    BY <1>3, <1>5, <1>6, <1>12
  <2>2. end <= Len(x)
    BY <1>4, <1>7
  <2>. QED
    BY <1>6, <1>8, <1>12, <2>1, <2>2
<1>14. "(" \notin Analyze /\ "(" \notin Statements /\ "explain" \notin Analyze /\ "explain" \notin Statements
  BY DEF Analyze, Statements, QueryHeads
<1>. HIDE DEF c, n
<1>15. ASSUME NEW k \in i..(q - 1)
       PROVE  /\ all[k] \notin Analyze
              /\ all[k] \in Statements =>
                    \E a \in i..(k - 1), b \in (k + 1)..(q - 1) : all[a] = "(" /\ all[b] = ")"
  <2>1. CASE k < c
    <3>1. k \in i..(c - 1)
      BY <1>6, <1>8, <1>13, <2>1
    <3>. QED
      BY <1>10, <1>14, <3>1
  <2>2. CASE k = c
    BY <1>11, <1>14, <2>2
  <2>3. CASE k > c
    <3>. DEFINE m == k - c + 1
    <3>1. m \in 2..(end - 1) /\ m \in 1..Len(x) /\ c + m - 1 = k
      BY <1>6, <1>8, <1>12, <1>13, <2>3
    <3>2. x[m] = all[k]
      BY <1>9, <3>1
    <3>3. SUFFICES ASSUME all[k] \in Statements
                   PROVE  \E a \in i..(k - 1), b \in (k + 1)..(q - 1) : all[a] = "(" /\ all[b] = ")"
      BY <1>12, <3>1, <3>2
    <3>4. m > 2 /\ x[2] = "(" /\ m < end - 1 /\ x[end - 1] = ")"
      BY <1>12, <3>1, <3>2, <3>3
    <3>5. 2 \in 1..Len(x) /\ end - 1 \in 1..Len(x) /\ c + 2 - 1 = c + 1 /\ c + (end - 1) - 1 = q - 1
      BY <1>8, <1>6, <1>12, <1>13, <3>4
    <3>6. all[c + 1] = "(" /\ all[q - 1] = ")"
      BY <1>9, <3>4, <3>5
    <3>7. c + 1 \in i..(k - 1) /\ q - 1 \in (k + 1)..(q - 1)
      BY <1>6, <1>8, <1>12, <1>13, <3>1, <3>4
    <3>. QED
      BY <3>6, <3>7
  <2>. QED
    BY <1>6, <1>8, <2>1, <2>2, <2>3
<1>16. c \in i..(q - 1) /\ q \in 1..n /\ q > i
  BY <1>6, <1>8, <1>13
<1>. QED
  BY <1>1, <1>11, <1>15, <1>16 DEF n, q, t

LEMMA NothingReads ==
    ASSUME NEW T, NEW all \in Seq(T), NEW i \in Places, i > Len(all)
    PROVE  ~Direct(From(all, i)) /\ ~Explained(From(all, i))
<1>1. From(all, i) = << >>
  BY FromIs
<1>2. Heads(From(all, i)) = {}
  BY <1>1 DEF Heads
<1>. QED
  BY <1>2 DEF Direct, Explained

LEMMA ReadsExist ==
    ASSUME NEW T, NEW all \in Seq(T)
    PROVE  ReadsFrom(all, ReadsOf(all))
<1>. DEFINE n == Len(all)
            direct(i) == Direct(From(all, i))
            explained(i) == Explained(From(all, i))
            onwards(i) == OnwardsFrom(From(all, i), i)
            next == [i \in 1..n |-> IF explained(i) THEN onwards(i) ELSE i + 1]
            step == [i \in 1..n |-> [b \in BOOLEAN |-> IF direct(i) THEN TRUE
                                                       ELSE IF explained(i) THEN b ELSE FALSE]]
<1>0. n \in Nat
  OBVIOUS
<1>1. next \in [1..n -> Places] /\ \A i \in 1..n : next[i] > i
  <2>1. ASSUME NEW i \in 1..n PROVE next[i] \in Places /\ next[i] > i
    <3>1. i \in Places /\ i + 1 \in Places /\ i + 1 > i
      BY DEF Places
    <3>2. explained(i) => onwards(i) \in 1..n /\ onwards(i) > i
      BY <3>1, OnwardsIs
    <3>3. next[i] = IF explained(i) THEN onwards(i) ELSE i + 1
      OBVIOUS
    <3>. HIDE DEF next, explained, onwards
    <3>. QED
      BY <3>1, <3>2, <3>3 DEF Places
  <2>2. next = [i \in 1..n |-> next[i]]
    OBVIOUS
  <2>. HIDE DEF next, n
  <2>. QED
    BY <2>1, <2>2
<1>2. step \in [1..n -> [BOOLEAN -> BOOLEAN]]
  <2>. HIDE DEF direct, explained
  <2>. QED
    OBVIOUS
<1>3. PICK f \in [Places -> BOOLEAN] : GoesOn(f, n, FALSE, next, step, 0)
  <2>. HIDE DEF next, step, n
  <2>. QED
    BY <1>0, <1>1, <1>2, RecursionExists
<1>4. ASSUME NEW i \in Places PROVE f[i] = ReadsStep(all, f, i)
  <2>1. f[i] = IF i <= n THEN step[i][f[next[i]]] ELSE FALSE
    <3>1. i > 0
      BY DEF Places
    <3>. HIDE DEF n, next, step
    <3>. QED
      BY <1>3, <3>1 DEF GoesOn
  <2>2. f[i] \in BOOLEAN
    BY <1>3
  <2>3. ReadsStep(all, f, i) \in BOOLEAN
    BY Zenon DEF ReadsStep
  <2>4. f[i] <=> direct(i) \/ (explained(i) /\ f[onwards(i)])
    <3>1. CASE i > n
      <4>1. ~(i <= n)
        BY <1>0, <3>1 DEF Places
      <4>. QED
        BY <2>1, <3>1, <4>1, NothingReads
    <3>2. CASE i <= n
      <4>1. i \in 1..n
        BY <3>2 DEF Places
      <4>2. next[i] = IF explained(i) THEN onwards(i) ELSE i + 1
        BY <4>1
      <4>3. f[next[i]] \in BOOLEAN
        BY <1>1, <1>3, <4>1
      <4>. HIDE DEF direct, explained, onwards, next
      <4>4. step[i][f[next[i]]] = IF direct(i) THEN TRUE ELSE IF explained(i) THEN f[next[i]] ELSE FALSE
        BY <4>1, <4>3
      <4>. HIDE DEF step
      <4>5. f[i] = IF direct(i) THEN TRUE ELSE IF explained(i) THEN f[next[i]] ELSE FALSE
        BY <2>1, <3>2, <4>4
      <4>. QED
        BY <4>2, <4>5, Zenon
    <3>. QED
      BY <1>0, <3>1, <3>2 DEF Places
  <2>5. ReadsStep(all, f, i) <=> direct(i) \/ (explained(i) /\ f[onwards(i)])
    BY ReadsStepIs
  <2>6. f[i] <=> ReadsStep(all, f, i)
    <3>. HIDE DEF direct, explained, onwards
    <3>. QED
      BY <2>4, <2>5, Zenon
  <2>7. CASE f[i] = TRUE
    <3>1. ReadsStep(all, f, i) = TRUE
      BY <2>3, <2>6, <2>7
    <3>. QED
      BY <2>7, <3>1
  <2>8. CASE f[i] = FALSE
    <3>1. ReadsStep(all, f, i) = FALSE
      BY <2>3, <2>6, <2>8
    <3>. QED
      BY <2>8, <3>1
  <2>. QED
    BY <2>2, <2>7, <2>8
<1>5. f = [i \in Places |-> ReadsStep(all, f, i)]
  BY <1>4
<1>. QED
  BY <1>5, Zenon DEF ReadsOf, ReadsFrom

LEMMA ReadsAre ==
    ASSUME NEW T, NEW all \in Seq(T), NEW i \in Places
    PROVE  ReadsOf(all)[i] <=>
              Direct(From(all, i)) \/ (Explained(From(all, i)) /\ ReadsOf(all)[OnwardsFrom(From(all, i), i)])
<1>. DEFINE f == ReadsOf(all)
<1>1. f = [j \in Places |-> ReadsStep(all, f, j)]
  BY ReadsExist DEF ReadsFrom
<1>. HIDE DEF f
<1>2. f[i] = ReadsStep(all, f, i)
  BY <1>1, Zenon
<1>3. ReadsStep(all, f, i) <=> Direct(From(all, i)) \/ (Explained(From(all, i)) /\ f[OnwardsFrom(From(all, i), i)])
  BY ReadsStepIs
<1>. QED
  BY <1>2, <1>3, Zenon DEF f

\* A query or a SHOW that reads for the code reads for Postgres, if nothing in it
\* is overlooked.
LEMMA DirectReadsOnly ==
    ASSUME NEW T, NEW t \in Seq(T), Direct(t),
           ~(Headed(t, QueryHeads) /\ \E i \in DOMAIN t : Overlooked(t, i))
    PROVE  ReadsOnly(t)
<1>1. HeadOf(t) \in DOMAIN t /\ \A k \in 1..(HeadOf(t) - 1) : t[k] = "("
  BY HeadOfIs DEF Direct
<1>2. CASE t[HeadOf(t)] = "show"
  BY <1>1, <1>2, Zenon DEF ReadsOnly, Headed
<1>3. CASE t[HeadOf(t)] \in QueryHeads /\ QueryReads(t)
  <2>1. Headed(t, QueryHeads)
    BY <1>1, <1>3, Zenon DEF Headed
  <2>2. ASSUME NEW i \in DOMAIN t, MayWrite(t, i) PROVE FALSE
    <3>1. /\ t[i] = "into" => Depth(t, i) # 0
          /\ t[i] = "for" => ~Follows(t, i, LockWords)
          /\ t[i] \in SideEffectFunctions => ~Follows(t, i, {"("})
      BY <1>3 DEF QueryReads
    <3>2. i \in Nat
      OBVIOUS
    <3>3. Depth(t, i) = 0 <=> Marks(t, 1, i, "(") = Marks(t, 1, i, ")")
      BY <3>2, DepthIs
    <3>4. t[i] \in {"into", "quoted name"}
      BY <2>2, <3>1 DEF MayWrite
    <3>5. Overlooked(t, i)
      BY <2>2, <3>1, <3>3, <3>4 DEF Overlooked
    <3>. QED
      BY <2>1, <3>5
  <2>. QED
    BY <2>1, <2>2, Zenon DEF ReadsOnly
<1>. QED
  BY <1>2, <1>3 DEF Direct

\* And the other way around, unless a word of it modifies data.
LEMMA ReadsOnlyIsDirect ==
    ASSUME NEW T, NEW t \in Seq(T), ReadsOnly(t), \A i \in DOMAIN t : t[i] \notin DataModifying
    PROVE  Direct(t)
<1>1. PICK head \in DOMAIN t :
          /\ \A i \in 1..(head - 1) : t[i] = "("
          /\ \/ t[head] = "show"
             \/ t[head] \in QueryHeads /\ \A i \in DOMAIN t : ~MayWrite(t, i)
  BY Zenon DEF ReadsOnly, Headed
<1>2. t[head] # "("
  BY <1>1 DEF QueryHeads
<1>3. head \in Heads(t) /\ Heads(t) # {} /\ head \in 1..Len(t)
  BY <1>1, <1>2 DEF Heads
<1>4. HeadOf(t) = head
  <2>1. HeadOf(t) \in 1..Len(t) /\ t[HeadOf(t)] # "(" /\ \A k \in 1..(HeadOf(t) - 1) : t[k] = "("
    BY <1>3, HeadOfIs
  <2>2. ~(HeadOf(t) < head)
    <3>1. HeadOf(t) < head => HeadOf(t) \in 1..(head - 1)
      BY <1>3, <2>1
    <3>. QED
      BY <1>1, <2>1, <3>1
  <2>3. ~(head < HeadOf(t))
    <3>1. head < HeadOf(t) => head \in 1..(HeadOf(t) - 1)
      BY <1>3, <2>1
    <3>. QED
      BY <1>2, <2>1, <3>1
  <2>. QED
    BY <1>3, <2>1, <2>2, <2>3
<1>5. ASSUME t[head] \in QueryHeads, t[head] # "show" PROVE QueryReads(t)
  <2>1. ASSUME NEW i \in DOMAIN t
        PROVE  /\ t[i] \notin DataModifying
               /\ t[i] = "into" => Depth(t, i) # 0
               /\ t[i] = "for" => ~Follows(t, i, LockWords)
               /\ t[i] \in SideEffectFunctions => ~Follows(t, i, {"("})
    <3>1. ~MayWrite(t, i)
      BY <1>1, <1>5
    <3>. QED
      BY <3>1 DEF MayWrite
  <2>. QED
    BY <2>1 DEF QueryReads
<1>. QED
  BY <1>1, <1>3, <1>4, <1>5 DEF Direct

\* From i to the statement at p there is only what explains it.
Leads(all, i, p) ==
    /\ i <= p
    /\ p = i \/ \E k \in i..(p - 1) : all[k] = "explain"
    /\ \A k \in i..(p - 1) :
           /\ all[k] \notin Analyze
           /\ all[k] \in Statements =>
                 \E a \in i..(k - 1), b \in (k + 1)..(p - 1) : all[a] = "(" /\ all[b] = ")"

LEMMA LeadsOn ==
    ASSUME NEW all, NEW i \in Nat, NEW q \in Nat, NEW p \in Nat, i < q, Leads(all, q, p),
           \E k \in i..(q - 1) : all[k] = "explain",
           \A k \in i..(q - 1) :
               /\ all[k] \notin Analyze
               /\ all[k] \in Statements =>
                     \E a \in i..(k - 1), b \in (k + 1)..(q - 1) : all[a] = "(" /\ all[b] = ")"
    PROVE  Leads(all, i, p)
<1>1. q <= p
  BY DEF Leads
<1>2. \E k \in i..(p - 1) : all[k] = "explain"
  <2>1. \A k \in i..(q - 1) : k \in i..(p - 1)
    BY <1>1
  <2>. QED
    BY <2>1
<1>3. ASSUME NEW k \in i..(p - 1)
      PROVE  /\ all[k] \notin Analyze
             /\ all[k] \in Statements =>
                   \E a \in i..(k - 1), b \in (k + 1)..(p - 1) : all[a] = "(" /\ all[b] = ")"
  <2>1. CASE k < q
    <3>1. k \in i..(q - 1) /\ \A b \in (k + 1)..(q - 1) : b \in (k + 1)..(p - 1)
      BY <1>1, <2>1
    <3>. QED
      BY <3>1
  <2>2. CASE ~(k < q)
    <3>1. k \in q..(p - 1) /\ \A a \in q..(k - 1) : a \in i..(k - 1)
      BY <1>1, <2>2
    <3>. QED
      BY <3>1 DEF Leads
  <2>. QED
    BY <2>1, <2>2
<1>. QED
  BY <1>1, <1>2, <1>3 DEF Leads

LEMMA ReadsIsHarmless ==
    ASSUME NEW T, NEW all \in Seq(T), StatementReads(all)
    PROVE  \E p \in DOMAIN all : (p = 1 \/ Explains(all, p)) /\ Direct(SubSeq(all, p, Len(all)))
<1>. DEFINE n == Len(all)
            Shown(i) == \E p \in 1..n : Leads(all, i, p) /\ Direct(From(all, p))
            Good == {i \in Places : ReadsOf(all)[i] => Shown(i)}
<1>0. n \in Nat
  OBVIOUS
<1>1. ASSUME NEW i \in Places, i > n PROVE i \in Good
  BY <1>1, NothingReads, ReadsAre
<1>2. ASSUME NEW i \in 1..n, \A j \in Places : j > i => j \in Good PROVE i \in Good
  <2>1. i \in Places /\ i \in Nat /\ i <= n
    BY DEF Places
  <2>2. CASE Direct(From(all, i))
    <3>1. Leads(all, i, i)
      BY DEF Leads
    <3>. QED
      BY <2>1, <2>2, <3>1
  <2>3. CASE Explained(From(all, i)) /\ ReadsOf(all)[OnwardsFrom(From(all, i), i)]
    <3>. DEFINE q == OnwardsFrom(From(all, i), i)
    <3>1. /\ q \in 1..n /\ q > i
          /\ \E k \in i..(q - 1) : all[k] = "explain"
          /\ \A k \in i..(q - 1) :
                /\ all[k] \notin Analyze
                /\ all[k] \in Statements =>
                      \E a \in i..(k - 1), b \in (k + 1)..(q - 1) : all[a] = "(" /\ all[b] = ")"
      BY <2>1, <2>3, OnwardsIs
    <3>2. q \in Places /\ ReadsOf(all)[q]
      BY <2>3, <3>1 DEF Places
    <3>. HIDE DEF q
    <3>3. Shown(q)
      BY <1>2, <3>1, <3>2
    <3>4. PICK p \in 1..n : Leads(all, q, p) /\ Direct(From(all, p))
      BY <3>3
    <3>5. Leads(all, i, p)
      <4>1. i \in Nat /\ q \in Nat /\ p \in Nat /\ i < q
        BY <3>1
      <4>. QED
        BY <3>1, <3>4, <4>1, LeadsOn
    <3>6. Shown(i)
      BY <3>4, <3>5
    <3>. QED
      BY <2>1, <3>6
  <2>4. CASE ~ReadsOf(all)[i]
    BY <2>1, <2>4
  <2>. QED
    BY <2>1, <2>2, <2>3, <2>4, ReadsAre
<1>3. 1 \in Good
  <2>1. Good \in SUBSET Places /\ 1 \in Places
    BY DEF Places
  <2>. HIDE DEF Good, n
  <2>. QED
    BY <1>0, <1>1, <1>2, <2>1, FromTheRight
<1>4. PICK p \in 1..n : Leads(all, 1, p) /\ Direct(From(all, p))
  <2>1. ReadsOf(all)[1]
    BY StatementReadsUnfolds, Zenon
  <2>. QED
    BY <1>3, <2>1
<1>5. p = 1 \/ Explains(all, p)
  BY <1>4, Zenon DEF Leads, Explains, Statements
<1>. QED
  BY <1>4, <1>5 DEF From

LEMMA HarmlessReads ==
    ASSUME NEW T, NEW all \in Seq(T), \A i \in DOMAIN all : all[i] \notin DataModifying \cup {"explain"},
           NEW p \in DOMAIN all, p = 1 \/ Explains(all, p), ReadsOnly(SubSeq(all, p, Len(all)))
    PROVE  StatementReads(all)
<1>1. p = 1
  <2>. SUFFICES ASSUME Explains(all, p) PROVE FALSE
    OBVIOUS
  <2>1. PICK i \in 1..(p - 1) : all[i] = "explain"
    BY DEF Explains
  <2>2. i \in DOMAIN all
    OBVIOUS
  <2>. QED
    BY <2>1, <2>2
<1>2. From(all, 1) = all /\ SubSeq(all, 1, Len(all)) = all
  BY SubSeqFull DEF From
<1>3. Direct(all)
  <2>1. ReadsOnly(all)
    BY <1>1, <1>2
  <2>2. \A i \in DOMAIN all : all[i] \notin DataModifying
    OBVIOUS
  <2>. QED
    BY <2>1, <2>2, ReadsOnlyIsDirect
<1>4. ReadsOf(all)[1]
  <2>1. 1 \in Places /\ Direct(From(all, 1))
    BY <1>2, <1>3 DEF Places
  <2>. QED
    BY <2>1, ReadsAre
<1>. QED
  BY <1>4, StatementReadsUnfolds, Zenon

-----------------------------------------------------------------------------
(* What is open.                                                           *)

\* What holds at a, and behind every place where it holds, holds up to b.
LEMMA FromTheLeft ==
    ASSUME NEW a \in Int, NEW b \in Int, NEW Good \in SUBSET Int, a \in Good,
           \A k \in a..(b - 1) : k \in Good => k + 1 \in Good
    PROVE  \A k \in a..b : k \in Good
<1>. DEFINE Bad == {m \in Nat : a + m <= b /\ a + m \notin Good}
<1>1. Bad = {}
  <2>. SUFFICES ASSUME Bad # {} PROVE FALSE
    OBVIOUS
  <2>1. PICK m \in Bad : \A k \in Bad : m <= k
    <3>1. Bad \in SUBSET Nat
      OBVIOUS
    <3>. HIDE DEF Bad
    <3>. QED
      BY <3>1, LeastNatural
  <2>2. m # 0
    OBVIOUS
  <2>3. m - 1 \in Nat /\ ~(m <= m - 1) /\ a + (m - 1) \in a..(b - 1) /\ a + (m - 1) + 1 = a + m
    BY <2>2
  <2>4. m - 1 \notin Bad
    BY <2>1, <2>3
  <2>. QED
    BY <2>3, <2>4
<1>. TAKE k \in a..b
<1>2. k - a \in Nat /\ a + (k - a) = k /\ k <= b
  OBVIOUS
<1>. QED
  BY <1>1, <1>2

Kinds == {"open", "line", "commented", "block", "string", "e", "escapes", "closing", "continued",
          "hidden", "name", "dollar"}
ModeSet == [in : Kinds, depth : Int]

LEMMA StartsIs ==
    ASSUME NEW u
    PROVE  Starts(u) \in ModeSet /\ In("open") \in ModeSet
  BY DEF Starts, In, ModeSet, Kinds

LEMMA FromBareIs ==
    ASSUME NEW mode, NEW u
    PROVE  FromBare(mode, u) \in ModeSet
<1>1. \A kind \in Kinds : In(kind) \in ModeSet
  BY DEF In, ModeSet
<1>2. {"escapes", "continued", "commented"} \subseteq Kinds
  BY DEF Kinds
<1>. QED
  BY <1>1, <1>2, StartsIs DEF FromBare

\* One unit.
LEMMA ModeIs ==
    ASSUME NEW m \in ModeSet, NEW u
    PROVE  /\ Mode(m, u) \in ModeSet
           /\ m.in = "line" => Mode(m, u) = IF u \in LineEnds THEN In("open") ELSE m
           /\ m.in = "commented" => Mode(m, u) = IF u \in LineEnds THEN In("continued") ELSE m
           /\ m.in = "string" => Mode(m, u) = IF u = "'" THEN In("open") ELSE m
           /\ m.in = "name" => Mode(m, u) = IF u = "quote" THEN In("open") ELSE m
           /\ m.in = "dollar" => Mode(m, u) = IF u = "$$" THEN In("open") ELSE m
           /\ m.in = "escapes" =>
                 Mode(m, u) = IF u = "backslash" THEN In("hidden") ELSE IF u = "'" THEN In("closing") ELSE m
           /\ m.in = "hidden" => Mode(m, u) = In("escapes")
           /\ m.in \in Bare => Mode(m, u) = FromBare(m.in, u)
<1>0. m.in \in Kinds /\ m.depth \in Int
  BY DEF ModeSet
<1>. DEFINE Shut == {<<"string", "'">>, <<"name", "quote">>, <<"dollar", "$$">>}
<1>1. CASE m.in \in LineModes
  <2>1. <<m.in, u>> \notin Shut
    BY <1>1 DEF LineModes
  <2>2. m.in \notin Bare /\ m.in \notin {"block", "escapes", "hidden", "string", "name", "dollar"}
    BY <1>1 DEF LineModes, Bare, Ended
  <2>. HIDE DEF Shut
  <2>3. CASE u \in LineEnds
    <3>1. Mode(m, u) = In(IF m.in = "line" THEN "open" ELSE "continued")
      BY <1>1, <2>1, <2>2, <2>3 DEF Mode, Shut
    <3>2. In("open") \in ModeSet /\ In("continued") \in ModeSet
      BY DEF In, ModeSet, Kinds
    <3>3. m.in = "line" \/ (m.in = "commented" /\ m.in # "line")
      BY <1>1 DEF LineModes
    <3>4. Mode(m, u) = IF m.in = "line" THEN In("open") ELSE In("continued")
      BY <3>1
    <3>. QED
      BY <2>2, <2>3, <3>2, <3>3, <3>4
  <2>4. CASE u \notin LineEnds
    <3>1. Mode(m, u) = m
      BY <1>1, <2>1, <2>2, <2>4 DEF Mode, Shut
    <3>. QED
      BY <2>2, <2>4, <3>1
  <2>. QED
    BY <2>3, <2>4
<1>2. CASE m.in \in {"string", "name", "dollar"}
  <2>0. m.in \notin Bare /\ m.in \notin LineModes
    BY <1>2 DEF LineModes, Bare, Ended
  <2>1. CASE <<m.in, u>> \in Shut
    <3>1. Mode(m, u) = In("open")
      BY <1>2, <2>0, <2>1 DEF Mode
    <3>. QED
      BY <1>2, <2>0, <2>1, <3>1, StartsIs
  <2>2. CASE <<m.in, u>> \notin Shut
    <3>1. Mode(m, u) = m
      BY <1>2, <2>0, <2>2 DEF Mode
    <3>. QED
      BY <1>2, <2>0, <2>2, <3>1
  <2>. QED
    BY <2>1, <2>2
<1>3. CASE m.in = "escapes"
  <2>0. m.in \notin Bare /\ m.in \notin LineModes
    BY <1>3 DEF LineModes, Bare, Ended
  <2>1. <<m.in, u>> \notin Shut
    BY <1>3
  <2>2. Mode(m, u) = IF u = "backslash" THEN In("hidden") ELSE IF u = "'" THEN In("closing") ELSE m
    <3>1. CASE u = "backslash"
      BY <1>3, <2>0, <2>1, <3>1 DEF Mode
    <3>2. CASE u = "'"
      BY <1>3, <2>0, <2>1, <3>2 DEF Mode
    <3>3. CASE u \notin {"backslash", "'"}
      BY <1>3, <2>0, <2>1, <3>3 DEF Mode
    <3>. QED
      BY <3>1, <3>2, <3>3
  <2>. QED
    BY <1>3, <2>0, <2>2 DEF In, ModeSet, Kinds
<1>4. CASE m.in = "hidden"
  <2>0. m.in \notin Bare /\ m.in \notin LineModes
    BY <1>4 DEF LineModes, Bare, Ended
  <2>1. <<m.in, u>> \notin Shut
    BY <1>4
  <2>2. Mode(m, u) = In("escapes")
    BY <1>4, <2>0, <2>1 DEF Mode
  <2>. QED
    BY <1>4, <2>0, <2>2 DEF In, ModeSet, Kinds
<1>5. CASE m.in \in Bare
  <2>1. <<m.in, u>> \notin Shut
    BY <1>5 DEF Bare, Ended
  <2>2. m.in \notin LineModes /\ m.in \notin {"block", "escapes", "hidden", "string", "name", "dollar"}
    BY <1>5 DEF LineModes, Bare, Ended
  <2>3. Mode(m, u) = FromBare(m.in, u)
    BY <1>5, <2>1, <2>2 DEF Mode
  <2>. QED
    BY <1>5, <2>2, <2>3, FromBareIs DEF LineModes
<1>6. CASE m.in = "block"
  <2>0. m.in \notin Bare /\ m.in \notin LineModes
    BY <1>6 DEF LineModes, Bare, Ended
  <2>1. <<m.in, u>> \notin Shut
    BY <1>6
  <2>2. CASE u = "/*"
    <3>1. Mode(m, u) = [m EXCEPT !.depth = @ + 1]
      BY <1>6, <2>0, <2>1, <2>2 DEF Mode
    <3>. QED
      BY <1>0, <1>6, <2>0, <3>1 DEF ModeSet
  <2>3. CASE u = "*/" /\ m.depth > 1
    <3>1. Mode(m, u) = [m EXCEPT !.depth = @ - 1]
      BY <1>6, <2>0, <2>1, <2>3 DEF Mode
    <3>. QED
      BY <1>0, <1>6, <2>0, <3>1 DEF ModeSet
  <2>4. CASE u = "*/" /\ m.depth = 1
    <3>1. Mode(m, u) = In("open")
      BY <1>6, <2>0, <2>1, <2>4 DEF Mode
    <3>. QED
      BY <1>6, <2>0, <3>1, StartsIs
  <2>5. CASE u # "/*" /\ ~(u = "*/" /\ (m.depth > 1 \/ m.depth = 1))
    <3>1. Mode(m, u) = m
      BY <1>6, <2>0, <2>1, <2>5 DEF Mode
    <3>. QED
      BY <1>6, <2>0, <3>1
  <2>. QED
    BY <2>2, <2>3, <2>4, <2>5
<1>. QED
  BY <1>0, <1>1, <1>2, <1>3, <1>4, <1>5, <1>6 DEF Kinds, Bare, Ended, LineModes

\* In a comment.
LEMMA BlockIs ==
    ASSUME NEW m \in ModeSet, NEW u, m.in = "block", m.depth >= 1
    PROVE  IF u = "*/" /\ m.depth = 1 THEN Mode(m, u) = In("open")
           ELSE /\ Mode(m, u).in = "block"
                /\ Mode(m, u).depth = m.depth + (IF u = "/*" THEN 1 ELSE 0) - (IF u = "*/" THEN 1 ELSE 0)
<1>. DEFINE Shut == {<<"string", "'">>, <<"name", "quote">>, <<"dollar", "$$">>}
<1>0. /\ m.depth \in Int /\ DOMAIN m = {"in", "depth"} /\ <<m.in, u>> \notin Shut
        /\ m.in \notin Bare /\ m.in \notin LineModes
  BY DEF ModeSet, Bare, Ended, LineModes
<1>1. CASE u = "/*"
  <2>1. Mode(m, u) = [m EXCEPT !.depth = @ + 1]
    BY <1>0, <1>1 DEF Mode
  <2>. QED
    BY <1>0, <1>1, <2>1
<1>2. CASE u = "*/" /\ m.depth > 1
  <2>1. Mode(m, u) = [m EXCEPT !.depth = @ - 1]
    BY <1>0, <1>2 DEF Mode
  <2>. QED
    BY <1>0, <1>2, <2>1
<1>3. CASE u = "*/" /\ m.depth = 1
  BY <1>0, <1>3 DEF Mode
<1>4. CASE u \notin {"/*", "*/"}
  <2>1. Mode(m, u) = m
    BY <1>0, <1>4 DEF Mode
  <2>. QED
    BY <1>0, <1>4, <2>1
<1>. QED
  BY <1>0, <1>1, <1>2, <1>3, <1>4

-----------------------------------------------------------------------------
(* The modes of a text.                                                    *)

ModeStep(s, f, i) == IF i = 1 THEN In("open") ELSE Mode(f[i - 1], s[i - 1])
ModesFrom(s, f) == f = [i \in 1..(Len(s) + 1) |-> ModeStep(s, f, i)]
ModesOf(s) == CHOOSE f : ModesFrom(s, f)

LEMMA ModesUnfold ==
    ASSUME NEW s
    PROVE  Modes(s) = [i \in 1..(Len(s) + 1) |-> ModesOf(s)[i].in]
  BY DEF Modes, ModesOf, ModesFrom, ModeStep

LEMMA ModesExist ==
    ASSUME NEW s, Len(s) \in Nat
    PROVE  ModesFrom(s, ModesOf(s))
<1>. DEFINE n == Len(s)
            next == [k \in 1..n |-> k + 1]
            step == [k \in 1..n |-> [m \in ModeSet |-> Mode(m, s[n + 1 - k])]]
<1>0. n \in Nat
  OBVIOUS
<1>1. next \in [1..n -> Places] /\ \A k \in 1..n : next[k] > k
  BY DEF Places
<1>2. step \in [1..n -> [ModeSet -> ModeSet]]
  BY ModeIs
<1>3. PICK h \in [Places -> ModeSet] : GoesOn(h, n, In("open"), next, step, 0)
  <2>1. In("open") \in ModeSet
    BY StartsIs
  <2>. HIDE DEF next, step, n
  <2>. QED
    BY <1>0, <1>1, <1>2, <2>1, RecursionExists
<1>. DEFINE f == [i \in 1..(n + 1) |-> h[n + 2 - i]]
<1>4. ASSUME NEW i \in 1..(n + 1) PROVE f[i] = ModeStep(s, f, i)
  <2>. DEFINE k == n + 2 - i
  <2>1. k \in Places /\ k > 0 /\ k \in 1..(n + 1) /\ f[i] = h[k]
    BY DEF Places
  <2>2. h[k] = IF k <= n THEN step[k][h[next[k]]] ELSE In("open")
    <3>. HIDE DEF k, n, next, step, f
    <3>. QED
      BY <1>3, <2>1 DEF GoesOn
  <2>3. CASE i = 1
    <3>1. ~(k <= n)
      BY <2>3
    <3>. QED
      BY <2>1, <2>2, <2>3, <3>1 DEF ModeStep
  <2>4. CASE i # 1
    <3>1. k \in 1..n /\ k <= n /\ next[k] = k + 1 /\ k + 1 \in Places /\ i - 1 \in 1..(n + 1)
      BY <2>4 DEF Places
    <3>2. f[i - 1] = h[k + 1] /\ n + 1 - k = i - 1
      <4>1. n + 2 - (i - 1) = k + 1
        OBVIOUS
      <4>. QED
        BY <3>1, <4>1
    <3>3. h[k + 1] \in ModeSet
      BY <1>3, <3>1
    <3>. HIDE DEF f, k
    <3>4. step[k][h[k + 1]] = Mode(h[k + 1], s[n + 1 - k])
      BY <3>1, <3>3
    <3>. HIDE DEF step, next, n
    <3>. QED
      BY <2>1, <2>2, <2>4, <3>1, <3>2, <3>4 DEF ModeStep
  <2>. QED
    BY <2>3, <2>4
<1>5. f = [i \in 1..(Len(s) + 1) |-> ModeStep(s, f, i)]
  BY <1>4
<1>. QED
  BY <1>5 DEF ModesOf, ModesFrom

\* The mode in front of every unit.
LEMMA ModesAre ==
    ASSUME NEW s, Len(s) \in Nat
    PROVE  /\ ModesOf(s)[1] = In("open")
           /\ \A i \in 1..Len(s) : ModesOf(s)[i + 1] = Mode(ModesOf(s)[i], s[i])
           /\ \A i \in 1..(Len(s) + 1) : ModesOf(s)[i] \in ModeSet /\ Modes(s)[i] = ModesOf(s)[i].in
<1>. DEFINE n == Len(s)
            f == ModesOf(s)
<1>1. \A i \in 1..(n + 1) : f[i] = ModeStep(s, f, i)
  BY ModesExist DEF ModesFrom
<1>2. \A i \in 1..(n + 1) : Modes(s)[i] = f[i].in
  BY ModesUnfold
<1>. HIDE DEF f
<1>3. f[1] = In("open")
  BY <1>1 DEF ModeStep
<1>4. \A i \in 1..n : f[i + 1] = Mode(f[i], s[i])
  <2>. TAKE i \in 1..n
  <2>1. i + 1 \in 1..(n + 1) /\ i + 1 # 1 /\ (i + 1) - 1 = i
    OBVIOUS
  <2>. QED
    BY <1>1, <2>1 DEF ModeStep
<1>5. \A i \in 1..(n + 1) : f[i] \in ModeSet
  <2>. DEFINE Good == {i \in 1..(n + 1) : f[i] \in ModeSet}
  <2>1. 1 \in Good
    BY <1>3, StartsIs
  <2>2. ASSUME NEW i \in 1..((n + 1) - 1), i \in Good PROVE i + 1 \in Good
    <3>1. i \in 1..n /\ i + 1 \in 1..(n + 1) /\ f[i] \in ModeSet
      BY <2>2
    <3>2. f[i + 1] = Mode(f[i], s[i])
      BY <1>4, <3>1
    <3>3. f[i + 1] \in ModeSet
      BY <3>1, <3>2, ModeIs
    <3>. QED
      BY <3>1, <3>3
  <2>3. Good \in SUBSET Int /\ n + 1 \in Int /\ 1 \in Int
    OBVIOUS
  <2>4. \A i \in 1..(n + 1) : i \in Good
    <3>. HIDE DEF Good, n
    <3>. QED
      BY <2>1, <2>2, <2>3, FromTheLeft
  <2>. QED
    BY <2>4
<1>. QED
  BY <1>2, <1>3, <1>4, <1>5 DEF f

-----------------------------------------------------------------------------
(* What Postgres reads of a text.                                          *)

\* The token that begins at a place, if one does.
TokenAt(s, i) == IF i \in Begun(s) THEN TokenOf(s, i) ELSE <<>>

LexedStep(s, f, i) == IF i > Len(s) THEN <<>> ELSE TokenAt(s, i) \o f[i + 1]
LexedFrom(s, f) == f = [i \in Places |-> LexedStep(s, f, i)]
LexedOf(s) == CHOOSE f : LexedFrom(s, f)

LEMMA LexedUnfolds ==
    ASSUME NEW s
    PROVE  Lexed(s) = LexedOf(s)[1]
  BY DEF Lexed, LexedOf, LexedFrom, LexedStep, TokenAt, Places

LEMMA LexedIs ==
    ASSUME NEW T, NEW s \in Seq(T)
    PROVE  /\ LexedOf(s) \in [Places -> Seq(T \cup Opaque)]
           /\ \A i \in Places : LexedOf(s)[i] = LexedStep(s, LexedOf(s), i)
<1>. DEFINE n == Len(s)
            D == Seq(T \cup Opaque)
            next == [i \in 1..n |-> i + 1]
            step == [i \in 1..n |-> [t \in D |-> TokenAt(s, i) \o t]]
<1>0. n \in Nat /\ << >> \in D
  OBVIOUS
<1>1. next \in [1..n -> Places] /\ \A i \in 1..n : next[i] > i
  BY DEF Places
<1>2. step \in [1..n -> [D -> D]]
  <2>1. \A i \in 1..n : TokenAt(s, i) \in D
    <3>1. \A i \in 1..n : s[i] \in T \cup Opaque
      OBVIOUS
    <3>2. Opaque \subseteq T \cup Opaque
      OBVIOUS
    <3>. QED
      BY <1>0, <3>1, <3>2, TokenOfIs DEF TokenAt
  <2>. HIDE DEF D
  <2>2. \A a, b : a \in D /\ b \in D => a \o b \in D
    BY DEF D
  <2>. QED
    BY <2>1, <2>2
<1>3. PICK f \in [Places -> D] : GoesOn(f, n, << >>, next, step, 0)
  <2>. HIDE DEF next, step, n, D
  <2>. QED
    BY <1>0, <1>1, <1>2, RecursionExists
<1>4. ASSUME NEW i \in Places PROVE f[i] = LexedStep(s, f, i)
  <2>1. f[i] = IF i <= n THEN step[i][f[next[i]]] ELSE << >>
    <3>1. i > 0
      BY DEF Places
    <3>. HIDE DEF n, next, step
    <3>. QED
      BY <1>3, <3>1 DEF GoesOn
  <2>2. CASE i > n
    <3>1. ~(i <= n)
      BY <2>2 DEF Places
    <3>. QED
      BY <2>1, <2>2, <3>1 DEF LexedStep
  <2>3. CASE ~(i > n)
    <3>1. i \in 1..n /\ i <= n /\ next[i] = i + 1 /\ i + 1 \in Places
      BY <2>3 DEF Places
    <3>2. f[i + 1] \in D
      BY <1>3, <3>1
    <3>. HIDE DEF D
    <3>3. step[i][f[i + 1]] = TokenAt(s, i) \o f[i + 1]
      BY <3>1, <3>2
    <3>. HIDE DEF step, next
    <3>4. f[i] = TokenAt(s, i) \o f[i + 1]
      BY <2>1, <3>1, <3>3
    <3>. QED
      BY <2>3, <3>4 DEF LexedStep
  <2>. QED
    BY <2>2, <2>3
<1>5. f = [i \in Places |-> LexedStep(s, f, i)]
  BY <1>4
<1>6. LexedFrom(s, LexedOf(s))
  BY <1>5 DEF LexedOf, LexedFrom
<1>. DEFINE o == LexedOf(s)
<1>7. o = [i \in Places |-> LexedStep(s, o, i)]
  BY <1>6 DEF LexedFrom
<1>. HIDE DEF o
<1>8. \A i \in Places : o[i] = LexedStep(s, o, i)
  BY <1>7
<1>. DEFINE Good == {i \in Places : o[i] \in D}
<1>9. ASSUME NEW i \in Places, i > n PROVE i \in Good
  BY <1>0, <1>8, <1>9 DEF LexedStep
<1>10. ASSUME NEW i \in 1..n, \A j \in Places : j > i => j \in Good PROVE i \in Good
  <2>1. i \in Places /\ ~(i > n) /\ i + 1 \in Places /\ i + 1 > i
    BY DEF Places
  <2>2. o[i + 1] \in D /\ TokenAt(s, i) \in D
    <3>1. s[i] \in T \cup Opaque /\ Opaque \subseteq T \cup Opaque
      OBVIOUS
    <3>2. TokenAt(s, i) \in D
      BY <1>0, <3>1, TokenOfIs DEF TokenAt
    <3>. QED
      BY <1>10, <2>1, <3>2
  <2>3. o[i] = TokenAt(s, i) \o o[i + 1]
    BY <1>8, <2>1 DEF LexedStep
  <2>4. o[i] \in D
    BY <2>2, <2>3
  <2>. QED
    BY <2>1, <2>4
<1>11. \A i \in Places : o[i] \in D
  <2>1. Good \in SUBSET Places
    OBVIOUS
  <2>2. \A i \in Places : i \in Good
    <3>. HIDE DEF Good, n
    <3>. QED
      BY <1>0, <1>9, <1>10, <2>1, FromTheRight
  <2>. QED
    BY <2>2
<1>12. o \in [Places -> D]
  BY <1>7, <1>11
<1>. QED
  BY <1>8, <1>12 DEF o

\* Places where nothing begins may be skipped.
LEMMA LexedSkips ==
    ASSUME NEW T, NEW s \in Seq(T), NEW i \in Places, NEW e \in Places,
           i <= e, e <= Len(s) + 1, \A k \in i..(e - 1) : k \notin Begun(s)
    PROVE  LexedOf(s)[i] = LexedOf(s)[e]
<1>. DEFINE o == LexedOf(s)
            Good == {k \in Places : o[k] = o[i]}
<1>1. o \in [Places -> Seq(T \cup Opaque)] /\ \A k \in Places : o[k] = LexedStep(s, o, k)
  BY LexedIs
<1>. HIDE DEF o
<1>2. ASSUME NEW k \in i..(e - 1), k \in Good PROVE k + 1 \in Good
  <2>1. k \in Places /\ k + 1 \in Places /\ ~(k > Len(s)) /\ k \notin Begun(s)
    BY DEF Places
  <2>2. o[k] = << >> \o o[k + 1]
    BY <1>1, <2>1 DEF LexedStep, TokenAt
  <2>3. o[k + 1] \in Seq(T \cup Opaque)
    BY <1>1, <2>1
  <2>4. o[k] = o[k + 1]
    BY <2>2, <2>3
  <2>. QED
    BY <1>2, <2>1, <2>4
<1>3. Good \in SUBSET Int /\ i \in Good /\ i \in Int /\ e \in Int /\ e \in i..e
  BY DEF Places
<1>4. e \in Good
  <2>. HIDE DEF Good
  <2>. QED
    BY <1>2, <1>3, FromTheLeft
<1>. QED
  BY <1>4 DEF o

-----------------------------------------------------------------------------
(* Where the code goes on with a token, the automaton is in the open, or   *)
(* at the end of a comment.                                                *)

ModeAt(s, i) == ModesOf(s)[i]
Closed(s) == ModeAt(s, Len(s) + 1).in \in Bare \cup LineModes

\* The second of two marks.
Again(s, i) == /\ i > 1 /\ s[i - 1] = s[i]
               /\ \/ s[i] = "'" /\ ModeAt(s, i - 1).in = "string"
                  \/ s[i] = "quote" /\ ModeAt(s, i - 1).in = "name"

Begins(s, i) ==
    /\ i \in 1..(Len(s) + 1)
    /\ i > Len(s) \/ ~Again(s, i)
    /\ \/ /\ ModeAt(s, i).in \in Bare
          /\ ModeAt(s, i).in = "open" \/ i > Len(s) \/ s[i] # "'"
       \/ /\ ModeAt(s, i).in \in LineModes
          /\ i > Len(s) \/ s[i] = "LF"

\* From i up to e, where the next token begins, none does; or what is open at i
\* stays open.
Encloses(s, i, e) ==
    IF e = Unterminated THEN ~Closed(s)
    ELSE Begins(s, e) /\ e >= i /\ \A k \in i..(e - 1) : k \notin Begun(s)

LEMMA ModeAtIs ==
    ASSUME NEW T, NEW s \in Seq(T)
    PROVE  /\ ModeAt(s, 1) = In("open")
           /\ \A i \in 1..Len(s) : ModeAt(s, i + 1) = Mode(ModeAt(s, i), s[i])
           /\ \A i \in 1..(Len(s) + 1) : ModeAt(s, i) \in ModeSet /\ Modes(s)[i] = ModeAt(s, i).in
  BY ModesAre DEF ModeAt

LEMMA BegunIs ==
    ASSUME NEW T, NEW s \in Seq(T), NEW i
    PROVE  i \in Begun(s) <=> /\ i \in 1..Len(s) /\ ModeAt(s, i).in \in Bare /\ ~Again(s, i)
                              /\ s[i] = "'" => ModeAt(s, i).in = "open"
<1>1. i \in Begun(s) <=> /\ i \in 1..Len(s) /\ Modes(s)[i] \in Bare /\ ~Doubled(Modes(s), s, i)
                         /\ s[i] = "'" => Modes(s)[i] = "open"
  BY DEF Begun
<1>2. i \in 1..Len(s) => Modes(s)[i] = ModeAt(s, i).in
  BY ModeAtIs
<1>3. ASSUME i \in 1..Len(s) PROVE Doubled(Modes(s), s, i) <=> Again(s, i)
  <2>1. CASE i > 1
    <3>1. i - 1 \in 1..(Len(s) + 1)
      BY <1>3, <2>1
    <3>2. Modes(s)[i - 1] = ModeAt(s, i - 1).in
      BY <3>1, ModeAtIs
    <3>. QED
      BY <3>2 DEF Doubled, Again
  <2>2. CASE ~(i > 1)
    BY <2>2 DEF Doubled, Again
  <2>. QED
    BY <2>1, <2>2
<1>. QED
  BY <1>1, <1>2, <1>3

\* Nothing begins in a comment or in something quoted.
LEMMA NotBegun ==
    ASSUME NEW T, NEW s \in Seq(T), NEW i, ModeAt(s, i).in \notin Bare
    PROVE  i \notin Begun(s)
  BY BegunIs

\* One or two units where nothing begins before a stretch where nothing does.
LEMMA EnclosesMore ==
    ASSUME NEW s, Len(s) \in Nat, NEW i \in Nat, NEW k \in {1, 2}, NEW e,
           e = Unterminated \/ e \in Nat, Encloses(s, i + k, e),
           i \notin Begun(s), k = 2 => i + 1 \notin Begun(s)
    PROVE  Encloses(s, i, e)
<1>1. CASE e = Unterminated
  BY <1>1 DEF Encloses
<1>2. CASE e # Unterminated
  <2>1. e \in Nat /\ e >= i + k /\ \A j \in (i + k)..(e - 1) : j \notin Begun(s)
    BY <1>2 DEF Encloses
  <2>2. \A j \in i..(e - 1) : j = i \/ (j = i + 1 /\ k = 2) \/ j \in (i + k)..(e - 1)
    BY <2>1
  <2>3. e >= i
    BY <2>1
  <2>. QED
    BY <1>2, <2>1, <2>2, <2>3 DEF Encloses
<1>. QED
  BY <1>1, <1>2

\* One token that is one unit.
LEMMA EnclosesNothing ==
    ASSUME NEW s, NEW i \in Nat, Begins(s, i)
    PROVE  Encloses(s, i, i)
<1>1. i # Unterminated /\ i..(i - 1) = {} /\ i >= i
  BY DEF Unterminated
<1>. QED
  BY <1>1 DEF Encloses

\* A string or a name that is open at j.
LEMMA QuoteEncloses ==
    ASSUME NEW T, NEW s \in Seq(T), NEW mark \in {"'", "quote"},
           NEW kind, kind = IF mark = "'" THEN "string" ELSE "name",
           NEW i \in 1..(Len(s) + 1), ModeAt(s, i).in = kind
    PROVE  Encloses(s, i, EndOf(s, mark, FALSE)[i])
<1>. DEFINE n == Len(s)
            f == EndOf(s, mark, FALSE)
            Good == {j \in Places : j <= n + 1 /\ ModeAt(s, j).in = kind =>
                        Encloses(s, j, f[j]) /\ (f[j] = Unterminated \/ f[j] \in Nat)}
<1>0. n \in Nat /\ mark # "backslash" /\ kind \notin Bare /\ kind \notin LineModes
  BY DEF Bare, Ended, LineModes
<1>7. Ends(s, mark, FALSE, f)
  <2>1. FALSE \in BOOLEAN
    OBVIOUS
  <2>. QED
    BY <1>0, <2>1, EndExists
<1>. HIDE DEF f
<1>1. \A j \in Places : f[j] = EndStep(s, mark, FALSE, f, j)
  BY <1>7 DEF Ends
<1>2. ASSUME NEW j \in Places, j > n PROVE j \in Good
  <2>. SUFFICES ASSUME j <= n + 1, ModeAt(s, j).in = kind
                PROVE  Encloses(s, j, f[j]) /\ (f[j] = Unterminated \/ f[j] \in Nat)
    OBVIOUS
  <2>1. f[j] = Unterminated
    BY <1>1, <1>2 DEF EndStep
  <2>2. j = n + 1
    BY <1>0, <1>2 DEF Places
  <2>. QED
    BY <1>0, <2>1, <2>2 DEF Encloses, Closed
<1>3. ASSUME NEW j \in 1..n, \A k \in Places : k > j => k \in Good PROVE j \in Good
  <2>. SUFFICES ASSUME ModeAt(s, j).in = kind
                PROVE  Encloses(s, j, f[j]) /\ (f[j] = Unterminated \/ f[j] \in Nat)
    BY DEF Places
  <2>1. /\ j \in Places /\ j + 1 \in Places /\ j + 2 \in Places /\ j \in Nat /\ ~(j > Len(s))
        /\ j + 1 > j /\ j + 2 > j /\ j + 1 <= n + 1 /\ (j < n => j + 2 <= n + 1 /\ j + 1 \in 1..n)
        /\ j + 1 + 1 = j + 2 /\ j + 1 \in 1..(Len(s) + 1)
    BY <1>0 DEF Places
  <2>2. ModeAt(s, j) \in ModeSet /\ ModeAt(s, j + 1) = Mode(ModeAt(s, j), s[j])
    BY <2>1, ModeAtIs
  <2>3. ModeAt(s, j + 1) = IF s[j] = mark THEN In("open") ELSE ModeAt(s, j)
    BY <2>2, ModeIs
  <2>4. j \notin Begun(s)
    BY <1>0, NotBegun
  <2>5. CASE s[j] # mark
    <3>1. f[j] = f[j + 1]
      BY <1>1, <2>1, <2>5 DEF EndStep
    <3>2. Encloses(s, j + 1, f[j + 1]) /\ (f[j + 1] = Unterminated \/ f[j + 1] \in Nat)
      BY <1>3, <2>1, <2>3, <2>5
    <3>. QED
      BY <1>0, <2>1, <2>4, <3>1, <3>2, EnclosesMore
  <2>6. CASE s[j] = mark /\ j < n /\ s[j + 1] = mark
    <3>1. f[j] = f[j + 2]
      BY <1>1, <2>1, <2>6 DEF EndStep
    <3>2. ModeAt(s, j + 1) \in ModeSet /\ ModeAt(s, j + 2) = Mode(ModeAt(s, j + 1), s[j + 1])
      BY <2>1, <2>6, ModeAtIs
    <3>3. ModeAt(s, j + 1).in = "open"
      BY <2>3, <2>6 DEF In
    <3>4. ModeAt(s, j + 2) = Starts(mark)
      <4>1. ModeAt(s, j + 2) = FromBare("open", mark)
        BY <2>6, <3>2, <3>3, ModeIs DEF Bare
      <4>. QED
        BY <4>1 DEF FromBare, Ended
    <3>5. ModeAt(s, j + 2).in = kind
      BY <3>4 DEF Starts, In
    <3>6. Encloses(s, j + 2, f[j + 2]) /\ (f[j + 2] = Unterminated \/ f[j + 2] \in Nat)
      BY <1>3, <2>1, <2>6, <3>5
    <3>7. j + 1 \notin Begun(s)
      <4>1. j + 1 > 1 /\ (j + 1) - 1 = j /\ s[j + 1] = s[j]
        BY <2>1, <2>6
      <4>2. Again(s, j + 1)
        BY <2>6, <4>1 DEF Again
      <4>. QED
        BY <4>2, BegunIs
    <3>. QED
      BY <1>0, <2>1, <2>4, <3>1, <3>6, <3>7, EnclosesMore
  <2>7. CASE s[j] = mark /\ ~(j < n /\ s[j + 1] = mark)
    <3>1. f[j] = j + 1
      BY <1>1, <2>1, <2>7 DEF EndStep
    <3>2. Begins(s, j + 1)
      <4>1. j + 1 > Len(s) \/ ~Again(s, j + 1)
        <5>1. (j + 1) - 1 = j /\ (j + 1 > Len(s) \/ s[j + 1] # s[j])
          BY <2>1, <2>7
        <5>. QED
          BY <5>1 DEF Again
      <4>. QED
        BY <2>1, <2>3, <2>7, <4>1 DEF Begins, In, Bare
    <3>3. j + 1 # Unterminated /\ \A k \in j..(j + 1 - 1) : k = j
      BY <2>1 DEF Unterminated
    <3>. QED
      BY <2>1, <2>4, <3>1, <3>2, <3>3 DEF Encloses
  <2>. QED
    BY <2>5, <2>6, <2>7
<1>4. i \in Good
  <2>1. Good \in SUBSET Places /\ i \in Places
    BY DEF Places
  <2>. HIDE DEF Good, n
  <2>. QED
    BY <1>0, <1>2, <1>3, <2>1, FromTheRight
<1>5. Encloses(s, i, f[i])
  BY <1>0, <1>4
<1>. QED
  BY <1>5 DEF f

\* A string with escapes.
LEMMA EscapesEnclose ==
    ASSUME NEW T, NEW s \in Seq(T), NEW i \in 1..(Len(s) + 1), ModeAt(s, i).in = "escapes"
    PROVE  Encloses(s, i, EndOf(s, "'", TRUE)[i])
<1>. DEFINE n == Len(s)
            f == EndOf(s, "'", TRUE)
            Good == {j \in Places : j <= n + 1 /\ ModeAt(s, j).in = "escapes" =>
                        Encloses(s, j, f[j]) /\ (f[j] = Unterminated \/ f[j] \in Nat)}
<1>0. n \in Nat /\ "'" # "backslash"
  OBVIOUS
<1>7. Ends(s, "'", TRUE, f)
  <2>1. TRUE \in BOOLEAN
    OBVIOUS
  <2>. QED
    BY <1>0, <2>1, EndExists
<1>. HIDE DEF f
<1>1. \A j \in Places : f[j] = EndStep(s, "'", TRUE, f, j)
  BY <1>7 DEF Ends
<1>2. ASSUME NEW j \in Places, j > n PROVE j \in Good /\ f[j] = Unterminated
  <2>1. f[j] = Unterminated
    BY <1>1, <1>2 DEF EndStep
  <2>2. j <= n + 1 => j = n + 1
    BY <1>0, <1>2 DEF Places
  <2>. QED
    BY <1>0, <2>1, <2>2 DEF Encloses, Closed, Bare, Ended, LineModes
<1>3. ASSUME NEW j \in 1..n, \A k \in Places : k > j => k \in Good PROVE j \in Good
  <2>. SUFFICES ASSUME ModeAt(s, j).in = "escapes"
                PROVE  Encloses(s, j, f[j]) /\ (f[j] = Unterminated \/ f[j] \in Nat)
    BY DEF Places
  <2>1. /\ j \in Places /\ j + 1 \in Places /\ j + 2 \in Places /\ j \in Nat /\ ~(j > Len(s))
        /\ j + 1 > j /\ j + 2 > j /\ j + 1 <= n + 1 /\ (j < n => j + 2 <= n + 1 /\ j + 1 \in 1..n)
        /\ j + 1 + 1 = j + 2 /\ j + 1 \in 1..(Len(s) + 1) /\ (~(j < n) => j + 2 > n /\ j = n)
    BY <1>0 DEF Places
  <2>2. ModeAt(s, j) \in ModeSet /\ ModeAt(s, j + 1) = Mode(ModeAt(s, j), s[j])
    BY <2>1, ModeAtIs
  <2>3. ModeAt(s, j + 1) = IF s[j] = "backslash" THEN In("hidden")
                           ELSE IF s[j] = "'" THEN In("closing") ELSE ModeAt(s, j)
    BY <2>2, ModeIs
  <2>4. j \notin Begun(s)
    BY NotBegun DEF Bare, Ended
  <2>5. CASE s[j] \notin {"'", "backslash"}
    <3>1. f[j] = f[j + 1]
      BY <1>1, <2>1, <2>5 DEF EndStep
    <3>2. Encloses(s, j + 1, f[j + 1]) /\ (f[j + 1] = Unterminated \/ f[j + 1] \in Nat)
      BY <1>3, <2>1, <2>3, <2>5
    <3>. QED
      BY <1>0, <2>1, <2>4, <3>1, <3>2, EnclosesMore
  <2>6. CASE s[j] = "backslash" /\ ~(j < n)
    <3>1. f[j] = Unterminated
      BY <1>1, <1>2, <2>1, <2>6 DEF EndStep
    <3>2. ModeAt(s, n + 1).in = "hidden"
      BY <2>1, <2>3, <2>6 DEF In
    <3>. QED
      BY <3>1, <3>2 DEF Encloses, Closed, Bare, Ended, LineModes
  <2>7. CASE \/ s[j] = "backslash" /\ j < n
             \/ s[j] = "'" /\ j < n /\ s[j + 1] = "'"
    <3>1. f[j] = f[j + 2]
      BY <1>1, <2>1, <2>7 DEF EndStep
    <3>2. ModeAt(s, j + 1) \in ModeSet /\ ModeAt(s, j + 2) = Mode(ModeAt(s, j + 1), s[j + 1])
      BY <2>1, <2>7, ModeAtIs
    <3>3. ModeAt(s, j + 1) = IF s[j] = "backslash" THEN In("hidden") ELSE In("closing")
      BY <2>3, <2>7
    <3>4. ModeAt(s, j + 2).in = "escapes" /\ j + 1 \notin Begun(s)
      <4>1. CASE s[j] = "backslash"
        <5>1. ModeAt(s, j + 1).in = "hidden"
          BY <3>3, <4>1 DEF In
        <5>2. ModeAt(s, j + 2) = In("escapes")
          BY <3>2, <5>1, ModeIs
        <5>. QED
          BY <5>1, <5>2, NotBegun DEF In, Bare, Ended
      <4>2. CASE s[j] = "'" /\ j < n /\ s[j + 1] = "'"
        <5>1. ModeAt(s, j + 1).in = "closing"
          BY <3>3, <4>2 DEF In
        <5>2. ModeAt(s, j + 2) = In("escapes")
          <6>1. ModeAt(s, j + 2) = FromBare("closing", "'")
            BY <3>2, <4>2, <5>1, ModeIs DEF Bare, Ended
          <6>. QED
            BY <6>1 DEF FromBare
        <5>3. j + 1 \notin Begun(s)
          BY <4>2, <5>1, BegunIs
        <5>. QED
          BY <5>2, <5>3 DEF In
      <4>. QED
        BY <2>7, <4>1, <4>2
    <3>5. Encloses(s, j + 2, f[j + 2]) /\ (f[j + 2] = Unterminated \/ f[j + 2] \in Nat)
      BY <1>3, <2>1, <2>7, <3>4
    <3>. QED
      BY <1>0, <2>1, <2>4, <3>1, <3>4, <3>5, EnclosesMore
  <2>8. CASE s[j] = "'" /\ ~(j < n /\ s[j + 1] = "'")
    <3>1. f[j] = j + 1
      BY <1>1, <2>1, <2>8 DEF EndStep
    <3>2. Begins(s, j + 1)
      <4>1. ModeAt(s, j + 1).in = "closing"
        BY <2>3, <2>8 DEF In
      <4>2. j + 1 > Len(s) \/ s[j + 1] # "'"
        BY <2>1, <2>8
      <4>3. j + 1 > Len(s) \/ ~Again(s, j + 1)
        <5>1. (j + 1) - 1 = j /\ s[j] = "'"
          BY <2>1, <2>8
        <5>. QED
          BY <4>2, <5>1 DEF Again
      <4>. QED
        BY <2>1, <4>1, <4>2, <4>3 DEF Begins, Bare, Ended
    <3>3. j + 1 # Unterminated /\ \A k \in j..(j + 1 - 1) : k = j
      BY <2>1 DEF Unterminated
    <3>. QED
      BY <2>1, <2>4, <3>1, <3>2, <3>3 DEF Encloses
  <2>. QED
    BY <2>5, <2>6, <2>7, <2>8
<1>4. i \in Good
  <2>1. Good \in SUBSET Places /\ i \in Places
    BY DEF Places
  <2>. HIDE DEF Good, n
  <2>. QED
    BY <1>0, <1>2, <1>3, <2>1, FromTheRight
<1>5. Encloses(s, i, f[i])
  BY <1>0, <1>4
<1>. QED
  BY <1>5 DEF f

\* A mode that no unit of a stretch changes.
LEMMA ModeStays ==
    ASSUME NEW T, NEW s \in Seq(T), NEW a \in 1..(Len(s) + 1), NEW b \in a..(Len(s) + 1),
           \A k \in a..(b - 1) : Mode(ModeAt(s, a), s[k]) = ModeAt(s, a)
    PROVE  \A k \in a..b : ModeAt(s, k) = ModeAt(s, a)
<1>. DEFINE Good == {k \in Int : ModeAt(s, k) = ModeAt(s, a)}
<1>1. ASSUME NEW k \in a..(b - 1), k \in Good PROVE k + 1 \in Good
  <2>1. k \in 1..Len(s) /\ k + 1 \in Int
    OBVIOUS
  <2>2. ModeAt(s, k + 1) = Mode(ModeAt(s, k), s[k])
    BY <2>1, ModeAtIs
  <2>. QED
    BY <1>1, <2>1, <2>2
<1>2. Good \in SUBSET Int /\ a \in Good /\ a \in Int /\ b \in Int
  OBVIOUS
<1>3. \A k \in a..b : k \in Good
  <2>. HIDE DEF Good
  <2>. QED
    BY <1>1, <1>2, FromTheLeft
<1>. QED
  BY <1>3

\* Where the code and Postgres may differ.
LEMMA OrdinaryIs ==
    ASSUME NEW T, NEW s \in Seq(T), Ordinary(s), NEW i \in 1..Len(s)
    PROVE  /\ s[i] = "CR" /\ ModeAt(s, i).in \in LineModes => i = Len(s) \/ s[i + 1] = "LF"
           /\ s[i] = "'" => ModeAt(s, i).in # "continued"
<1>1. Modes(s)[i] = ModeAt(s, i).in
  BY ModeAtIs
<1>2. DOMAIN s = 1..Len(s)
  OBVIOUS
<1>. QED
  BY <1>1, <1>2 DEF Ordinary

LEMMA LineEncloses ==
    ASSUME NEW T, NEW s \in Seq(T), Ordinary(s), NEW i \in 1..Len(s), s[i] = "--",
           NEW kind \in LineModes, ModeAt(s, i + 1) = In(kind)
    PROVE  Encloses(s, i + 1, LineEnd(s, i))
<1>. DEFINE n == Len(s)
            e == LineEnd(s, i)
            ends == {j \in i..n : s[j] = "LF"}
            returns == {j \in (i + 1)..(e - 1) : s[j] = "CR"}
<1>0. n \in Nat
  OBVIOUS
<1>1. e \in (i + 1)..(n + 1) /\ (e <= n => s[e] = "LF") /\ \A k \in (i + 1)..(e - 1) : s[k] # "LF"
  <2>1. CASE ends = {}
    <3>1. e = n + 1
      BY <2>1 DEF LineEnd
    <3>. QED
      BY <2>1, <3>1
  <2>2. CASE ends # {}
    <3>1. e = Leq(ends)
      BY <2>2 DEF LineEnd
    <3>2. ends \in SUBSET Nat
      OBVIOUS
    <3>3. e \in ends /\ \A j \in ends : e <= j
      <4>. HIDE DEF ends, e
      <4>. QED
        BY <2>2, <3>1, <3>2, LeqIs
    <3>. HIDE DEF e
    <3>4. e # i /\ e \in i..n /\ s[e] = "LF"
      BY <3>3
    <3>5. \A k \in (i + 1)..(e - 1) : k \in i..n /\ ~(e <= k)
      BY <3>4
    <3>6. \A k \in (i + 1)..(e - 1) : s[k] # "LF"
      BY <3>3, <3>5
    <3>. QED
      BY <3>4, <3>6
  <2>. QED
    BY <2>1, <2>2
<1>. HIDE DEF e
<1>2. In(kind) \in ModeSet /\ In(kind).in = kind /\ kind \notin Bare
  BY DEF In, ModeSet, Kinds, LineModes, Bare, Ended
<1>3. ASSUME NEW b \in (i + 1)..e, \A k \in (i + 1)..(b - 1) : s[k] # "CR"
      PROVE  \A k \in (i + 1)..b : ModeAt(s, k) = In(kind) /\ k \notin Begun(s)
  <2>1. \A k \in (i + 1)..(b - 1) : Mode(In(kind), s[k]) = In(kind)
    <3>. TAKE k \in (i + 1)..(b - 1)
    <3>1. k \in (i + 1)..(e - 1)
      BY <1>1
    <3>2. s[k] \notin LineEnds
      BY <1>1, <1>3, <3>1 DEF LineEnds
    <3>. QED
      BY <1>2, <3>2, ModeIs DEF LineModes
  <2>2. i + 1 \in 1..(Len(s) + 1) /\ b \in (i + 1)..(Len(s) + 1)
    BY <1>1
  <2>3. \A k \in (i + 1)..b : ModeAt(s, k) = In(kind)
    BY <2>1, <2>2, ModeStays
  <2>. QED
    BY <1>2, <2>3, NotBegun
<1>4. e \in Nat /\ e >= i + 1 /\ e # Unterminated /\ e \in 1..(Len(s) + 1) /\ e \in (i + 1)..e
  BY <1>1 DEF Unterminated
<1>5. e > Len(s) \/ (s[e] = "LF" /\ ~Again(s, e))
  <2>1. e > Len(s) \/ s[e] = "LF"
    BY <1>1, <1>4
  <2>. QED
    BY <2>1 DEF Again
<1>6. CASE returns = {}
  <2>1. \A k \in (i + 1)..(e - 1) : s[k] # "CR"
    BY <1>6
  <2>2. \A k \in (i + 1)..e : ModeAt(s, k) = In(kind) /\ k \notin Begun(s)
    BY <1>3, <1>4, <2>1
  <2>3. Begins(s, e)
    BY <1>2, <1>4, <1>5, <2>2 DEF Begins
  <2>4. \A k \in (i + 1)..(e - 1) : k \in (i + 1)..e
    BY <1>4
  <2>. QED
    BY <1>4, <2>2, <2>3, <2>4 DEF Encloses, e
<1>7. CASE returns # {}
  <2>. DEFINE c == Leq(returns)
  <2>1. c \in returns /\ \A j \in returns : c <= j
    <3>1. returns \in SUBSET Nat
      OBVIOUS
    <3>. HIDE DEF returns
    <3>. QED
      BY <1>7, <3>1, LeqIs
  <2>. HIDE DEF c
  <2>2. c \in (i + 1)..(e - 1) /\ s[c] = "CR" /\ c \in 1..n /\ c \in (i + 1)..e
    BY <1>1, <2>1
  <2>3. \A k \in (i + 1)..(c - 1) : s[k] # "CR"
    <3>1. \A k \in (i + 1)..(c - 1) : k \in (i + 1)..(e - 1) /\ ~(c <= k)
      BY <1>4, <2>2
    <3>. QED
      BY <2>1, <3>1
  <2>4. \A k \in (i + 1)..c : ModeAt(s, k) = In(kind) /\ k \notin Begun(s)
    BY <1>3, <2>2, <2>3
  <2>5. ModeAt(s, c) = In(kind)
    <3>1. c \in (i + 1)..c
      BY <2>2
    <3>. QED
      BY <2>4, <3>1
  <2>6. c = n \/ s[c + 1] = "LF"
    <3>1. ModeAt(s, c).in \in LineModes
      BY <1>2, <2>5
    <3>. QED
      BY <2>2, <3>1, OrdinaryIs
  <2>7. e = c + 1
    <3>1. CASE c = n
      BY <1>1, <2>2, <3>1
    <3>2. CASE c # n /\ s[c + 1] = "LF"
      <4>1. c + 1 \notin (i + 1)..(e - 1)
        BY <1>1, <3>2
      <4>. QED
        BY <1>1, <2>2, <4>1
    <3>. QED
      BY <2>6, <3>1, <3>2
  <2>8. ModeAt(s, e) = In("open") \/ ModeAt(s, e) = In("continued")
    <3>1. ModeAt(s, c + 1) = Mode(In(kind), s[c])
      BY <2>2, <2>5, ModeAtIs
    <3>. QED
      BY <1>2, <2>2, <2>7, <3>1, ModeIs DEF LineModes, LineEnds
  <2>9. Begins(s, e)
    <3>1. ModeAt(s, e).in \in Bare
      BY <2>8 DEF In, Bare, Ended
    <3>2. e > Len(s) \/ s[e] # "'"
      BY <1>5
    <3>. QED
      BY <1>4, <1>5, <3>1, <3>2 DEF Begins
  <2>10. \A k \in (i + 1)..(e - 1) : k \notin Begun(s)
    <3>1. \A k \in (i + 1)..(e - 1) : k \in (i + 1)..c
      BY <2>2, <2>7
    <3>. QED
      BY <2>4, <3>1
  <2>. QED
    BY <1>4, <2>9, <2>10 DEF Encloses, e
<1>. QED
  BY <1>6, <1>7

LEMMA DollarEncloses ==
    ASSUME NEW T, NEW s \in Seq(T), NEW i \in 1..Len(s), s[i] = "$$", ModeAt(s, i + 1) = In("dollar")
    PROVE  Encloses(s, i + 1, DollarEnd(s, i))
<1>. DEFINE n == Len(s)
            ends == {j \in (i + 1)..n : s[j] = "$$"}
<1>0. n \in Nat
  OBVIOUS
<1>1. In("dollar") \in ModeSet /\ In("dollar").in = "dollar" /\ "dollar" \notin Bare
  BY DEF In, ModeSet, Kinds, Bare, Ended
<1>2. ASSUME NEW b \in (i + 1)..(n + 1), \A k \in (i + 1)..(b - 1) : s[k] # "$$"
      PROVE  \A k \in (i + 1)..b : ModeAt(s, k) = In("dollar")
  <2>1. \A k \in (i + 1)..(b - 1) : Mode(In("dollar"), s[k]) = In("dollar")
    BY <1>1, <1>2, ModeIs
  <2>2. i + 1 \in 1..(Len(s) + 1) /\ b \in (i + 1)..(Len(s) + 1)
    OBVIOUS
  <2>. QED
    BY <2>1, <2>2, ModeStays
<1>3. CASE ends = {}
  <2>1. DollarEnd(s, i) = Unterminated
    BY <1>3 DEF DollarEnd
  <2>2. n + 1 \in (i + 1)..(n + 1) /\ \A k \in (i + 1)..((n + 1) - 1) : s[k] # "$$"
    BY <1>3
  <2>3. ModeAt(s, n + 1) = In("dollar")
    BY <1>2, <2>2
  <2>. QED
    BY <1>1, <2>1, <2>3 DEF Encloses, Closed, Bare, Ended, LineModes
<1>4. CASE ends # {}
  <2>. DEFINE e == Leq(ends)
  <2>1. DollarEnd(s, i) = e + 1
    BY <1>4 DEF DollarEnd
  <2>2. e \in ends /\ \A j \in ends : e <= j
    <3>1. ends \in SUBSET Nat
      OBVIOUS
    <3>. HIDE DEF ends
    <3>. QED
      BY <1>4, <3>1, LeqIs
  <2>. HIDE DEF e
  <2>3. e \in (i + 1)..n /\ s[e] = "$$" /\ e \in 1..Len(s) /\ e \in (i + 1)..(n + 1)
    BY <2>2
  <2>4. \A k \in (i + 1)..(e - 1) : s[k] # "$$"
    <3>1. \A k \in (i + 1)..(e - 1) : k \in (i + 1)..n /\ ~(e <= k)
      BY <2>3
    <3>. QED
      BY <2>2, <3>1
  <2>5. \A k \in (i + 1)..e : ModeAt(s, k) = In("dollar")
    BY <1>2, <2>3, <2>4
  <2>6. ModeAt(s, e + 1) = In("open")
    <3>1. e \in (i + 1)..e
      BY <2>3
    <3>2. ModeAt(s, e + 1) = Mode(In("dollar"), s[e])
      BY <2>3, <2>5, <3>1, ModeAtIs
    <3>. QED
      BY <1>1, <2>3, <3>2, ModeIs
  <2>7. \A k \in (i + 1)..((e + 1) - 1) : k \notin Begun(s)
    <3>1. \A k \in (i + 1)..((e + 1) - 1) : k \in (i + 1)..e
      BY <2>3
    <3>. QED
      BY <1>1, <2>5, <3>1, NotBegun
  <2>8. Begins(s, e + 1) /\ e + 1 >= i + 1 /\ e + 1 # Unterminated
    <3>1. e + 1 \in 1..(Len(s) + 1) /\ e + 1 >= i + 1 /\ e + 1 # Unterminated /\ (e + 1) - 1 = e
      BY <2>3 DEF Unterminated
    <3>2. ~Again(s, e + 1)
      BY <2>3, <3>1 DEF Again
    <3>. QED
      BY <2>6, <3>1, <3>2 DEF Begins, In, Bare
  <2>. QED
    BY <2>1, <2>7, <2>8 DEF Encloses
<1>. QED
  BY <1>3, <1>4

LEMMA BlockEncloses ==
    ASSUME NEW T, NEW s \in Seq(T), NEW i \in 1..Len(s), s[i] = "/*",
           ModeAt(s, i + 1) = [in |-> "block", depth |-> 1]
    PROVE  Encloses(s, i + 1, BlockEnd(s, i))
<1>. DEFINE n == Len(s)
            Deep(k) == Marks(s, i, k, "/*") - Marks(s, i, k, "*/")
            ends == {j \in (i + 1)..n : Marks(s, i, j, "/*") = Marks(s, i, j, "*/")}
            Good == {k \in 1..(n + 1) : /\ ModeAt(s, k).in = "block" /\ ModeAt(s, k).depth = Deep(k - 1)
                                        /\ Deep(k - 1) >= 1}
<1>0. n \in Nat
  OBVIOUS
<1>1. ASSUME NEW k \in Nat, k >= i
      PROVE  /\ Deep(k - 1) \in Int /\ Deep(k) \in Int
             /\ Deep(k) = Deep(k - 1) + (IF s[k] = "/*" THEN 1 ELSE 0) - (IF s[k] = "*/" THEN 1 ELSE 0)
             /\ Deep(k) = 0 <=> Marks(s, i, k, "/*") = Marks(s, i, k, "*/")
  <2>1. k - 1 \in Nat /\ k - 1 >= i - 1 /\ (k - 1) + 1 = k /\ k >= i - 1
    BY <1>1
  <2>2. ASSUME NEW mark
        PROVE  /\ Marks(s, i, k - 1, mark) \in Nat /\ Marks(s, i, k, mark) \in Nat
               /\ Marks(s, i, k, mark) = Marks(s, i, k - 1, mark) + IF s[k] = mark THEN 1 ELSE 0
    BY <2>1, MarksGrow
  <2>3. /\ Marks(s, i, k - 1, "/*") \in Nat /\ Marks(s, i, k, "/*") \in Nat
        /\ Marks(s, i, k, "/*") = Marks(s, i, k - 1, "/*") + IF s[k] = "/*" THEN 1 ELSE 0
    BY <2>2
  <2>4. /\ Marks(s, i, k - 1, "*/") \in Nat /\ Marks(s, i, k, "*/") \in Nat
        /\ Marks(s, i, k, "*/") = Marks(s, i, k - 1, "*/") + IF s[k] = "*/" THEN 1 ELSE 0
    BY <2>2
  <2>5. /\ Deep(k - 1) = Marks(s, i, k - 1, "/*") - Marks(s, i, k - 1, "*/")
        /\ Deep(k) = Marks(s, i, k, "/*") - Marks(s, i, k, "*/")
    OBVIOUS
  <2>. HIDE DEF Deep
  <2>6. Deep(k - 1) \in Int /\ Deep(k) \in Int
    BY <2>3, <2>4, <2>5
  <2>7. Deep(k) = Deep(k - 1) + (IF s[k] = "/*" THEN 1 ELSE 0) - (IF s[k] = "*/" THEN 1 ELSE 0)
    BY <2>3, <2>4, <2>5
  <2>8. Deep(k) = 0 <=> Marks(s, i, k, "/*") = Marks(s, i, k, "*/")
    BY <2>3, <2>4, <2>5
  <2>. QED
    BY <2>6, <2>7, <2>8
<1>2. Deep(i) = 1
  <2>1. \A mark : Marks(s, i, i - 1, mark) = 0
    <3>1. i..(i - 1) = {}
      OBVIOUS
    <3>2. \A mark : {k \in i..(i - 1) : s[k] = mark} = {}
      BY <3>1
    <3>. QED
      BY <3>2, FS_EmptySet DEF Marks
  <2>2. Deep(i - 1) = 0
    BY <2>1
  <2>3. i \in Nat /\ i >= i
    OBVIOUS
  <2>. HIDE DEF Deep
  <2>4. Deep(i) = Deep(i - 1) + (IF s[i] = "/*" THEN 1 ELSE 0) - (IF s[i] = "*/" THEN 1 ELSE 0)
    BY <1>1, <2>3
  <2>. QED
    BY <2>2, <2>4
<1>. HIDE DEF Deep
<1>3. i + 1 \in Good
  <2>1. i + 1 \in 1..(n + 1) /\ (i + 1) - 1 = i
    OBVIOUS
  <2>. QED
    BY <1>2, <2>1
<1>4. ASSUME NEW k \in (i + 1)..n, k \in Good, Deep(k) # 0 PROVE k + 1 \in Good
  <2>1. k \in 1..n /\ k \in Nat /\ k >= i /\ k + 1 \in 1..(n + 1) /\ (k + 1) - 1 = k /\ k \in 1..(n + 1)
    BY <1>0
  <2>2. ModeAt(s, k) \in ModeSet /\ ModeAt(s, k + 1) = Mode(ModeAt(s, k), s[k])
    BY <2>1, ModeAtIs
  <2>3. ModeAt(s, k).in = "block" /\ ModeAt(s, k).depth = Deep(k - 1) /\ Deep(k - 1) >= 1
    BY <1>4
  <2>4. /\ Deep(k - 1) \in Int /\ Deep(k) \in Int
        /\ Deep(k) = Deep(k - 1) + (IF s[k] = "/*" THEN 1 ELSE 0) - (IF s[k] = "*/" THEN 1 ELSE 0)
    BY <1>1, <2>1
  <2>5. ~(s[k] = "*/" /\ ModeAt(s, k).depth = 1)
    BY <1>4, <2>3, <2>4
  <2>6. /\ ModeAt(s, k + 1).in = "block"
        /\ ModeAt(s, k + 1).depth = Deep(k - 1) + (IF s[k] = "/*" THEN 1 ELSE 0) - (IF s[k] = "*/" THEN 1 ELSE 0)
    BY <2>2, <2>3, <2>5, BlockIs
  <2>7. Deep(k) >= 1
    BY <1>4, <2>3, <2>4
  <2>. QED
    BY <2>1, <2>4, <2>6, <2>7
<1>5. ASSUME NEW b \in (i + 1)..(n + 1), \A k \in (i + 1)..(b - 1) : Deep(k) # 0
      PROVE  \A k \in (i + 1)..b : k \in Good
  <2>1. \A k \in (i + 1)..(b - 1) : k \in Good => k + 1 \in Good
    <3>1. \A k \in (i + 1)..(b - 1) : k \in (i + 1)..n
      OBVIOUS
    <3>. HIDE DEF Good, n
    <3>. QED
      BY <1>4, <1>5, <3>1
  <2>2. Good \in SUBSET Int /\ i + 1 \in Int /\ b \in Int
    OBVIOUS
  <2>. HIDE DEF Good
  <2>. QED
    BY <1>3, <2>1, <2>2, FromTheLeft
<1>6. \A k \in Good : k \notin Begun(s)
  BY NotBegun DEF Bare, Ended
<1>7. CASE ends = {}
  <2>1. BlockEnd(s, i) = Unterminated
    BY <1>7 DEF BlockEnd
  <2>2. \A k \in (i + 1)..n : Deep(k) # 0
    <3>1. \A k \in (i + 1)..n : k \in Nat /\ k >= i
      OBVIOUS
    <3>. QED
      BY <1>1, <1>7, <3>1
  <2>3. n + 1 \in (i + 1)..(n + 1) /\ (n + 1) - 1 = n
    BY <1>0
  <2>4. n + 1 \in Good
    <3>. HIDE DEF Good, n
    <3>. QED
      BY <1>5, <2>2, <2>3
  <2>. QED
    BY <2>1, <2>4 DEF Encloses, Closed, Bare, Ended, LineModes
<1>8. CASE ends # {}
  <2>. DEFINE e == Leq(ends)
  <2>1. BlockEnd(s, i) = e + 1
    BY <1>8 DEF BlockEnd
  <2>2. e \in ends /\ \A j \in ends : e <= j
    <3>1. ends \in SUBSET Nat
      OBVIOUS
    <3>. HIDE DEF ends
    <3>. QED
      BY <1>8, <3>1, LeqIs
  <2>. HIDE DEF e
  <2>3. /\ e \in (i + 1)..n /\ e \in Nat /\ e >= i /\ e \in 1..n /\ e \in (i + 1)..(n + 1)
        /\ Marks(s, i, e, "/*") = Marks(s, i, e, "*/")
    BY <2>2
  <2>4. \A k \in (i + 1)..(e - 1) : Deep(k) # 0
    <3>1. \A k \in (i + 1)..(e - 1) : k \in (i + 1)..n /\ ~(e <= k) /\ k \in Nat /\ k >= i
      BY <2>3
    <3>. QED
      BY <1>1, <2>2, <3>1
  <2>5. \A k \in (i + 1)..e : k \in Good
    <3>. HIDE DEF Good, n
    <3>. QED
      BY <1>5, <2>3, <2>4
  <2>6. ModeAt(s, e + 1) = In("open")
    <3>1. e \in Good /\ e \in 1..(n + 1)
      BY <2>3, <2>5
    <3>2. ModeAt(s, e).in = "block" /\ ModeAt(s, e).depth = Deep(e - 1) /\ Deep(e - 1) >= 1
      BY <3>1
    <3>3. ModeAt(s, e) \in ModeSet /\ ModeAt(s, e + 1) = Mode(ModeAt(s, e), s[e])
      BY <2>3, <3>1, ModeAtIs
    <3>4. /\ Deep(e - 1) \in Int /\ Deep(e) = 0
          /\ Deep(e) = Deep(e - 1) + (IF s[e] = "/*" THEN 1 ELSE 0) - (IF s[e] = "*/" THEN 1 ELSE 0)
      BY <1>1, <2>3
    <3>5. s[e] = "*/" /\ ModeAt(s, e).depth = 1
      BY <3>2, <3>4
    <3>. QED
      BY <3>2, <3>3, <3>5, BlockIs
  <2>7. \A k \in (i + 1)..((e + 1) - 1) : k \notin Begun(s)
    <3>1. \A k \in (i + 1)..((e + 1) - 1) : k \in (i + 1)..e
      BY <2>3
    <3>. HIDE DEF Good
    <3>. QED
      BY <1>6, <2>5, <3>1
  <2>8. Begins(s, e + 1) /\ e + 1 >= i + 1 /\ e + 1 # Unterminated
    <3>1. e + 1 \in 1..(Len(s) + 1) /\ e + 1 >= i + 1 /\ e + 1 # Unterminated /\ (e + 1) - 1 = e
      BY <2>3 DEF Unterminated
    <3>2. ~Again(s, e + 1)
      <4>1. e \in Good
        BY <2>3, <2>5
      <4>2. ModeAt(s, e).in = "block"
        BY <4>1
      <4>. QED
        BY <3>1, <4>2 DEF Again
    <3>. QED
      BY <2>6, <3>1, <3>2 DEF Begins, In, Bare
  <2>. QED
    BY <2>1, <2>7, <2>8 DEF Encloses
<1>. QED
  BY <1>7, <1>8

\* Where the code goes on with a token, Postgres reads the same one, and none up to
\* where the code goes on after it.
LEMMA TokenIs ==
    ASSUME NEW T, NEW s \in Seq(T), Ordinary(s), NEW i \in 1..Len(s), Begins(s, i)
    PROVE  TokenAt(s, i) = TokenOf(s, i) /\ Encloses(s, i + 1, After(s, i))
<1>. DEFINE n == Len(s)
            m == ModeAt(s, i)
<1>0. n \in Nat /\ i + 1 \in 1..(n + 1) /\ i <= n /\ ~(i > n) /\ i \in Nat /\ i + 1 \in Nat
      /\ i + 1 > 1 /\ (i + 1) - 1 = i
  OBVIOUS
<1>1. m \in ModeSet /\ ModeAt(s, i + 1) = Mode(m, s[i])
  BY ModeAtIs
<1>2. \/ m.in \in Bare /\ (m.in = "open" \/ s[i] # "'")
      \/ m.in \in LineModes /\ s[i] = "LF"
  BY <1>0 DEF Begins
<1>3. m.in \in Bare => i \in Begun(s) /\ ~Again(s, i + 1)
  <2>1. m.in \in Bare => i \in Begun(s)
    BY <1>0, <1>2, BegunIs DEF Begins, LineModes, Bare, Ended
  <2>2. m.in \in Bare => ~Again(s, i + 1)
    BY <1>0 DEF Again, Bare, Ended
  <2>. QED
    BY <2>1, <2>2
<1>4. m.in \notin Bare => i \notin Begun(s)
  BY NotBegun
<1>. HIDE DEF m
<1>5. m.in \in Bare => ModeAt(s, i + 1) = FromBare(m.in, s[i])
  BY <1>1, ModeIs
<1>6. s[i] \notin LineEnds \cup {"--"} => m.in \in Bare /\ ModeAt(s, i + 1) = Starts(s[i])
  BY <1>2, <1>5 DEF LineEnds, FromBare
<1>7. TokenAt(s, i) = TokenOf(s, i)
  <2>1. CASE m.in \in Bare
    BY <1>3, <2>1 DEF TokenAt
  <2>2. CASE m.in \notin Bare
    <3>1. s[i] = "LF"
      BY <1>2, <2>2
    <3>2. TokenOf(s, i) = << >>
      BY <3>1 DEF TokenOf, OpensEscapes
    <3>. QED
      BY <1>4, <2>2, <3>2 DEF TokenAt
  <2>. QED
    BY <2>1, <2>2
<1>8. CASE s[i] \in LineEnds
  <2>1. ModeAt(s, i + 1) = In("open") \/ ModeAt(s, i + 1) = In("continued")
    <3>1. CASE m.in \in LineModes
      BY <1>1, <1>8, <3>1, ModeIs DEF LineModes
    <3>2. CASE m.in \in Bare
      <4>1. ModeAt(s, i + 1) = In("continued") \/ ModeAt(s, i + 1) = Starts(s[i])
        BY <1>5, <1>8, <3>2 DEF FromBare, LineEnds
      <4>2. Starts(s[i]) = In("open")
        BY <1>8 DEF Starts, LineEnds
      <4>. QED
        BY <4>1, <4>2
    <3>. QED
      BY <1>2, <3>1, <3>2
  <2>2. After(s, i) = i + 1
    BY <1>8 DEF After, OpensEscapes, LineEnds
  <2>3. ModeAt(s, i + 1).in \in Bare /\ (ModeAt(s, i + 1).in = "open" \/ i + 1 > Len(s) \/ s[i + 1] # "'")
    <3>1. CASE ModeAt(s, i + 1) = In("open")
      BY <3>1 DEF In, Bare
    <3>2. CASE ModeAt(s, i + 1) = In("continued")
      <4>1. ModeAt(s, i + 1).in = "continued"
        BY <3>2 DEF In
      <4>2. i + 1 > Len(s) \/ i + 1 \in 1..Len(s)
        BY <1>0
      <4>3. i + 1 > Len(s) \/ s[i + 1] # "'"
        BY <4>1, <4>2, OrdinaryIs
      <4>. QED
        BY <4>1, <4>3 DEF Bare, Ended
    <3>. QED
      BY <2>1, <3>1, <3>2
  <2>4. i + 1 > Len(s) \/ ~Again(s, i + 1)
    BY <1>0, <1>8 DEF Again, LineEnds
  <2>5. Begins(s, i + 1)
    BY <1>0, <2>3, <2>4 DEF Begins
  <2>. QED
    BY <1>0, <1>7, <2>2, <2>5, EnclosesNothing
<1>9. CASE s[i] = "--"
  <2>1. m.in \in Bare
    BY <1>2, <1>9
  <2>2. \E kind \in LineModes : ModeAt(s, i + 1) = In(kind)
    <3>1. ModeAt(s, i + 1) = In("commented") \/ ModeAt(s, i + 1) = Starts("--")
      BY <1>5, <1>9, <2>1 DEF FromBare, LineEnds
    <3>2. Starts("--") = In("line")
      BY DEF Starts
    <3>. QED
      BY <3>1, <3>2 DEF LineModes
  <2>3. After(s, i) = LineEnd(s, i)
    BY <1>9 DEF After, OpensEscapes
  <2>. QED
    BY <1>7, <1>9, <2>2, <2>3, LineEncloses
<1>10. CASE s[i] = "/*"
  <2>1. ModeAt(s, i + 1) = [in |-> "block", depth |-> 1]
    BY <1>6, <1>10 DEF Starts, LineEnds
  <2>2. After(s, i) = BlockEnd(s, i)
    BY <1>10 DEF After, OpensEscapes
  <2>. QED
    BY <1>7, <1>10, <2>1, <2>2, BlockEncloses
<1>11. CASE s[i] = "$$"
  <2>1. ModeAt(s, i + 1) = In("dollar")
    BY <1>6, <1>11 DEF Starts, LineEnds
  <2>2. After(s, i) = DollarEnd(s, i)
    BY <1>11 DEF After, OpensEscapes
  <2>. QED
    BY <1>7, <1>11, <2>1, <2>2, DollarEncloses
<1>12. ASSUME NEW mark \in {"'", "quote"}, s[i] = mark
       PROVE  Encloses(s, i + 1, QuotedEnd(s, i, mark, FALSE))
  <2>. DEFINE kind == IF mark = "'" THEN "string" ELSE "name"
  <2>1. QuotedEnd(s, i, mark, FALSE) = EndOf(s, mark, FALSE)[i + 1]
    BY QuotedEndUnfolds
  <2>2. ModeAt(s, i + 1).in = kind
    <3>1. ModeAt(s, i + 1) = Starts(mark)
      BY <1>6, <1>12 DEF LineEnds
    <3>. QED
      BY <3>1 DEF Starts, In
  <2>3. kind = (IF mark = "'" THEN "string" ELSE "name") /\ i + 1 \in 1..(Len(s) + 1)
    BY <1>0
  <2>. HIDE DEF kind
  <2>. QED
    BY <2>1, <2>2, <2>3, QuoteEncloses
<1>13. CASE s[i] = "'"
  <2>1. After(s, i) = QuotedEnd(s, i, "'", FALSE)
    BY <1>13 DEF After, OpensEscapes
  <2>. QED
    BY <1>7, <1>12, <1>13, <2>1
<1>14. CASE s[i] = "quote"
  <2>1. After(s, i) = QuotedEnd(s, i, "quote", FALSE)
    BY <1>14 DEF After, OpensEscapes
  <2>. QED
    BY <1>7, <1>12, <1>14, <2>1
<1>15. CASE OpensEscapes(s, i)
  <2>. DEFINE e == EndOf(s, "'", TRUE)[i + 1 + 1]
  <2>1. s[i] = "E" /\ i < n /\ s[i + 1] = "'"
    BY <1>15 DEF OpensEscapes
  <2>2. i + 1 \in 1..n /\ i + 1 + 1 \in 1..(n + 1) /\ i + 1 + 1 = i + 2 /\ i + 1 \in Nat
    BY <1>0, <2>1
  <2>3. After(s, i) = QuotedEnd(s, i + 1, "'", TRUE)
    BY <1>15, <2>1 DEF After
  <2>4. QuotedEnd(s, i + 1, "'", TRUE) = e
    BY QuotedEndUnfolds
  <2>5. e = Unterminated \/ e \in Nat
    <3>1. TRUE \in BOOLEAN /\ "'" # "backslash"
      OBVIOUS
    <3>2. e = Unterminated \/ (e \in Places /\ e > i + 1 + 1)
      BY <1>0, <2>2, <2>4, <3>1, QuotedEndIs
    <3>. QED
      BY <3>2 DEF Places
  <2>6. ModeAt(s, i + 1).in = "e"
    BY <1>6, <2>1 DEF Starts, In, LineEnds
  <2>7. ModeAt(s, i + 1) \in ModeSet /\ ModeAt(s, i + 1 + 1) = Mode(ModeAt(s, i + 1), s[i + 1])
    BY <2>2, ModeAtIs
  <2>8. ModeAt(s, i + 1 + 1) = In("escapes")
    <3>1. ModeAt(s, i + 1 + 1) = FromBare("e", "'")
      BY <2>1, <2>6, <2>7, ModeIs DEF Bare
    <3>. QED
      BY <3>1 DEF FromBare
  <2>9. Encloses(s, i + 1 + 1, e)
    <3>1. ModeAt(s, i + 1 + 1).in = "escapes"
      BY <2>8 DEF In
    <3>. QED
      BY <2>2, <3>1, EscapesEnclose
  <2>10. i + 1 \notin Begun(s)
    BY <2>1, <2>6, BegunIs
  <2>. HIDE DEF e
  <2>11. Encloses(s, i + 1, e)
    <3>1. Len(s) \in Nat /\ 1 \in {1, 2} /\ 1 # 2
      OBVIOUS
    <3>. QED
      BY <2>2, <2>5, <2>9, <2>10, <3>1, EnclosesMore
  <2>. QED
    BY <1>7, <2>3, <2>4, <2>11
<1>16. CASE s[i] \notin LineEnds \cup {"--", "/*", "'", "quote", "$$"} /\ ~OpensEscapes(s, i)
  <2>1. After(s, i) = i + 1
    BY <1>16 DEF After
  <2>2. ModeAt(s, i + 1) = IF s[i] = "E" THEN In("e") ELSE In("open")
    BY <1>6, <1>16 DEF Starts
  <2>3. s[i] = "E" => i + 1 > n \/ s[i + 1] # "'"
    BY <1>0, <1>16 DEF OpensEscapes
  <2>4. ~Again(s, i + 1)
    BY <1>3, <1>6, <1>16
  <2>5. Begins(s, i + 1)
    BY <1>0, <2>2, <2>3, <2>4 DEF Begins, In, Bare
  <2>. QED
    BY <1>0, <1>7, <2>1, <2>5, EnclosesNothing
<1>. QED
  BY <1>8, <1>9, <1>10, <1>11, <1>13, <1>14, <1>15, <1>16

\* The tokens of a text, from where one begins.
LEMMA TokensAreLexed ==
    ASSUME NEW T, NEW s \in Seq(T), T \cap (Opaque \cup {"error"}) = {}, Ordinary(s),
           NEW a \in 1..(Len(s) + 1), Begins(s, a)
    PROVE  TokensOf(s)[a] = IF Closed(s) THEN LexedOf(s)[a] ELSE Error
<1>. DEFINE n == Len(s)
            f == TokensOf(s)
            o == LexedOf(s)
            Right(i) == f[i] = IF Closed(s) THEN o[i] ELSE Error
            Good == {i \in Places : Begins(s, i) => Right(i)}
<1>0. n \in Nat
  OBVIOUS
<1>1. \A i \in Places : f[i] = TokensStep(s, f, i)
  BY <1>0, TokensAre
<1>2. o \in [Places -> Seq(T \cup Opaque)] /\ \A i \in Places : o[i] = LexedStep(s, o, i)
  BY LexedIs
<1>. HIDE DEF f, o
<1>3. ASSUME NEW i \in Places, i > n PROVE i \in Good
  <2>. SUFFICES ASSUME Begins(s, i) PROVE Right(i)
    OBVIOUS
  <2>1. i = n + 1 /\ i > Len(s) /\ ~(i <= Len(s))
    BY <1>0, <1>3 DEF Begins
  <2>2. Closed(s)
    BY <2>1 DEF Begins, Closed
  <2>3. f[i] = << >>
    BY <1>1, <2>1 DEF TokensStep
  <2>4. o[i] = << >>
    BY <1>2, <2>1 DEF LexedStep
  <2>. QED
    BY <2>2, <2>3, <2>4
<1>4. ASSUME NEW i \in 1..n, \A j \in Places : j > i => j \in Good PROVE i \in Good
  <2>. SUFFICES ASSUME Begins(s, i) PROVE Right(i)
    BY DEF Places
  <2>. DEFINE e == After(s, i)
  <2>1. i \in Places /\ i <= Len(s) /\ ~(i > Len(s)) /\ i + 1 \in Places
    BY <1>0 DEF Places
  <2>2. /\ e = Unterminated \/ f[e] = Error => f[i] = Error
        /\ ~(e = Unterminated \/ f[e] = Error) => f[i] = TokenOf(s, i) \o f[e]
    <3>1. f[i] = TokensStep(s, f, i)
      BY <1>1, <2>1
    <3>2. CASE e = Unterminated \/ f[e] = Error
      BY <2>1, <3>1, <3>2 DEF TokensStep
    <3>3. CASE ~(e = Unterminated \/ f[e] = Error)
      BY <2>1, <3>1, <3>3 DEF TokensStep
    <3>. QED
      BY <3>2, <3>3
  <2>3. e # Unterminated => e \in Places /\ e > i
    BY AfterIs
  <2>4. TokenAt(s, i) = TokenOf(s, i) /\ Encloses(s, i + 1, e)
    BY TokenIs
  <2>. HIDE DEF e
  <2>5. CASE e = Unterminated
    BY <2>2, <2>4, <2>5 DEF Encloses
  <2>6. CASE e # Unterminated
    <3>1. Begins(s, e) /\ e >= i + 1 /\ (\A k \in (i + 1)..(e - 1) : k \notin Begun(s)) /\ e <= Len(s) + 1
      BY <2>4, <2>6 DEF Encloses, Begins
    <3>2. Right(e) /\ e \in Places
      BY <1>4, <2>3, <2>6, <3>1
    <3>3. CASE ~Closed(s)
      BY <2>2, <3>2, <3>3
    <3>4. CASE Closed(s)
      <4>1. f[e] = o[e] /\ o[e] \in Seq(T \cup Opaque)
        BY <1>2, <3>2, <3>4
      <4>2. f[e] # Error
        <5>. SUFFICES ASSUME o[e] = <<"error">> PROVE FALSE
          BY <4>1 DEF Error
        <5>1. o[e][1] \in T \cup Opaque /\ o[e][1] = "error"
          BY <4>1
        <5>. QED
          BY <5>1 DEF Opaque
      <4>3. o[i + 1] = o[e]
        <5>1. i + 1 <= e
          BY <2>1, <3>1, <3>2 DEF Places
        <5>. QED
          BY <2>1, <3>1, <3>2, <5>1, LexedSkips DEF o
      <4>4. o[i] = TokenAt(s, i) \o o[i + 1]
        BY <1>2, <2>1 DEF LexedStep
      <4>5. f[i] = TokenOf(s, i) \o f[e]
        BY <2>2, <2>6, <4>2
      <4>. QED
        BY <2>4, <3>4, <4>1, <4>3, <4>4, <4>5
    <3>. QED
      BY <3>3, <3>4
  <2>. QED
    BY <2>5, <2>6
<1>5. a \in Good
  <2>1. Good \in SUBSET Places /\ a \in Places
    BY DEF Places
  <2>. HIDE DEF Good, n
  <2>. QED
    BY <1>0, <1>3, <1>4, <2>1, FromTheRight
<1>6. Right(a)
  BY <1>5
<1>. QED
  BY <1>6 DEF f, o

\* The property, for any text there may be.
LEMMA StatementIsSame ==
    ASSUME NEW T, text \in Seq(T), T \cap (Opaque \cup {"error"}) = {}
    PROVE  SameStatement
<1>. SUFFICES ASSUME Ordinary(text)
              PROVE  Tokenize(text) = IF Complete(text) THEN Lexed(text) ELSE Error
  BY DEF SameStatement
<1>1. Len(text) \in Nat /\ 1 \in 1..(Len(text) + 1) /\ Len(text) + 1 \in 1..(Len(text) + 1)
  OBVIOUS
<1>2. Begins(text, 1)
  <2>1. ModeAt(text, 1).in = "open" /\ ~Again(text, 1)
    BY ModeAtIs DEF In, Again
  <2>. QED
    BY <1>1, <2>1 DEF Begins, Bare
<1>3. Closed(text) <=> Complete(text)
  BY <1>1, ModeAtIs DEF Closed, Complete
<1>4. TokensOf(text)[1] = IF Closed(text) THEN LexedOf(text)[1] ELSE Error
  BY <1>1, <1>2, TokensAreLexed
<1>5. Tokenize(text) = TokensOf(text)[1] /\ Lexed(text) = LexedOf(text)[1]
  BY TokenizeUnfolds, LexedUnfolds
<1>. QED
  BY <1>3, <1>4, <1>5

\* A token modifies data only where a word of the text does.
LEMMA NothingModifies ==
    ASSUME NEW s, Len(s) \in Nat, ~MentionsWriteWord(s), NEW i \in DOMAIN WithoutTrailing(Tokenize(s))
    PROVE  WithoutTrailing(Tokenize(s))[i] \notin DataModifying
<1>1. \A u \in Kept(s) : u \notin DataModifying
  <2>1. \A k \in 1..Len(s) : s[k] \notin WriteWordsAnywhere
    BY DEF MentionsWriteWord
  <2>. QED
    BY <2>1 DEF Kept, DataModifying, WriteWordsAnywhere
<1>2. WithoutTrailing(Tokenize(s)) \in Seq(Kept(s))
  BY TokenizeIs, WithoutTrailingIs
<1>. QED
  BY <1>1, <1>2

LEMMA ErrorStays == WithoutTrailing(Error) = Error
<1>. DEFINE last == {i \in DOMAIN Error : Error[i] # ";"}
<1>1. DOMAIN Error = {1} /\ Error[1] = "error" /\ Len(Error) = 1 /\ Error \in Seq({"error"})
  BY DEF Error
<1>2. last = {1}
  BY <1>1
<1>3. WithoutTrailing(Error) = IF last = {} THEN << >>
          ELSE SubSeq(Error, 1, CHOOSE i \in last : \A j \in last : j <= i)
  BY Zenon DEF WithoutTrailing
<1>. HIDE DEF last
<1>4. (CHOOSE i \in last : \A j \in last : j <= i) = 1
  BY <1>2
<1>5. WithoutTrailing(Error) = SubSeq(Error, 1, Len(Error))
  BY <1>1, <1>2, <1>3, <1>4
<1>. QED
  BY <1>1, <1>5, SubSeqFull

\* The property, for any text there may be.
LEMMA ReadIsHarmless ==
    ASSUME NEW T, text \in Seq(T), T \cap (Opaque \cup {"error"}) = {}
    PROVE  ReadMeansHarmless
<1>. DEFINE tokens == WithoutTrailing(Lexed(text))
            judged == WithoutTrailing(Tokenize(text))
            single == ";" \notin Range(tokens)
            vetoed == MentionsWriteWord(text)
            harmless == /\ Complete(text) /\ Range(text) \cap WriteWordsAnywhere = {}
                        /\ single /\ \E t \in Judged(tokens) : ReadsOnly(t)
            overlooked == \E t \in Judged(tokens) : /\ Headed(t, QueryHeads)
                                                    /\ \E i \in DOMAIN t : Overlooked(t, i)
            K == T \cup Opaque
<1>. SUFFICES ASSUME Ordinary(text)
              PROVE  /\ Classify(text) = "read" /\ ~overlooked => harmless
                     /\ harmless /\ "explain" \notin Range(tokens) => Classify(text) = "read"
  BY Zenon DEF ReadMeansHarmless
<1>1. Tokenize(text) = IF Complete(text) THEN Lexed(text) ELSE Error
  BY StatementIsSame DEF SameStatement
<1>2. tokens \in Seq(K)
  <2>1. 1 \in Places
    BY DEF Places
  <2>2. Lexed(text) \in Seq(K)
    BY <2>1, LexedIs, LexedUnfolds
  <2>. QED
    BY <2>2, WithoutTrailingIs
<1>3. vetoed <=> Range(text) \cap WriteWordsAnywhere # {}
  BY Zenon DEF MentionsWriteWord, Range
<1>4. Classify(text) = "read" <=>
         /\ judged # Error /\ judged # <<>> /\ \A i \in DOMAIN judged : judged[i] # ";"
         /\ StatementReads(judged) /\ ~vetoed
  <2>1. "read" # "write"
    OBVIOUS
  <2>. QED
    BY <2>1, Zenon DEF Classify
<1>5. CASE ~Complete(text)
  <2>1. judged = Error
    BY <1>1, <1>5, ErrorStays
  <2>. QED
    BY <1>4, <1>5, <2>1
<1>6. CASE Complete(text)
  <2>1. judged = tokens
    BY <1>1, <1>6
  <2>. HIDE DEF judged, tokens, vetoed
  <2>2. (\A i \in DOMAIN tokens : tokens[i] # ";") <=> single
    BY Zenon DEF Range
  <2>3. tokens # Error
    <3>. SUFFICES ASSUME tokens = <<"error">> PROVE FALSE
      BY DEF Error
    <3>1. tokens[1] \in T \cup Opaque /\ tokens[1] = "error"
      BY <1>2
    <3>. QED
      BY <3>1 DEF Opaque
  <2>4. ASSUME StatementReads(tokens), ~overlooked PROVE \E t \in Judged(tokens) : ReadsOnly(t)
    <3>1. PICK p \in DOMAIN tokens : (p = 1 \/ Explains(tokens, p)) /\ Direct(SubSeq(tokens, p, Len(tokens)))
      <4>. HIDE DEF K
      <4>. QED
        BY <1>2, <2>4, ReadsIsHarmless
    <3>. DEFINE t == SubSeq(tokens, p, Len(tokens))
    <3>2. t \in Judged(tokens)
      BY <3>1, Zenon DEF Judged
    <3>3. t \in Seq(K)
      <4>1. p \in Places
        BY <1>2 DEF Places
      <4>. HIDE DEF K
      <4>. QED
        BY <1>2, <4>1, FromIs DEF From
    <3>4. Direct(t) /\ ~(Headed(t, QueryHeads) /\ \E i \in DOMAIN t : Overlooked(t, i))
      BY <2>4, <3>1, <3>2
    <3>. HIDE DEF t, K
    <3>5. ReadsOnly(t)
      BY <3>3, <3>4, DirectReadsOnly
    <3>. QED
      BY <3>2, <3>5
  <2>5. ASSUME ~vetoed, "explain" \notin Range(tokens), NEW t \in Judged(tokens), ReadsOnly(t)
        PROVE  StatementReads(tokens) /\ tokens # <<>>
    <3>1. PICK p \in DOMAIN tokens : (p = 1 \/ Explains(tokens, p)) /\ t = SubSeq(tokens, p, Len(tokens))
      BY <2>5, Zenon DEF Judged
    <3>2. ASSUME NEW i \in DOMAIN tokens PROVE tokens[i] \notin DataModifying \cup {"explain"}
      <4>1. tokens[i] # "explain"
        BY <2>5 DEF Range
      <4>2. tokens[i] \notin DataModifying
        BY <2>1, <2>5, <3>2, NothingModifies DEF vetoed, judged
      <4>. QED
        BY <4>1, <4>2
    <3>. HIDE DEF K
    <3>3. StatementReads(tokens)
      BY <1>2, <2>5, <3>1, <3>2, HarmlessReads
    <3>4. tokens # <<>>
      BY <3>1
    <3>. QED
      BY <3>3, <3>4
  <2>6. harmless <=> ~vetoed /\ single /\ \E t \in Judged(tokens) : ReadsOnly(t)
    BY <1>3, <1>6 DEF vetoed
  <2>. HIDE DEF harmless, overlooked, single
  <2>. QED
    BY <1>4, <2>1, <2>2, <2>3, <2>4, <2>5, <2>6
<1>. QED
  BY <1>5, <1>6

-----------------------------------------------------------------------------
(* The steps of a text.                                                    *)

Units == UNION {g.first \cup g.rest : g \in Grammars}
TextInv == text \in Seq(Units) /\ grammar.rest \subseteq Units

LEMMA UnitsAre == Units \cap (Opaque \cup {"error"}) = {}
  BY GrammarsAssumption DEF Units

LEMMA InitText == ClassifierInit \/ NoText => TextInv
<1>1. ASSUME NEW g \in Grammars, grammar = g, NEW u \in g.first, text = <<u>> PROVE TextInv
  <2>1. u \in Units /\ g.rest \subseteq Units
    BY DEF Units
  <2>. QED
    BY <1>1, <2>1 DEF TextInv
<1>2. NoText => TextInv
  BY DEF NoText, TextInv
<1>. QED
  BY <1>1, <1>2 DEF ClassifierInit

LEMMA StepText == TextInv /\ [ClassifierNext]_classifierVars => TextInv'
<1>1. ASSUME TextInv, NEW u \in grammar.rest, Type(u) PROVE TextInv'
  <2>1. u \in Units /\ text \in Seq(Units)
    BY <1>1 DEF TextInv
  <2>2. Append(text, u) \in Seq(Units)
    BY <2>1
  <2>. QED
    BY <1>1, <2>2 DEF TextInv, Type
<1>2. ASSUME TextInv, UNCHANGED classifierVars PROVE TextInv'
  BY <1>2 DEF TextInv, classifierVars
<1>. QED
  BY <1>1, <1>2 DEF ClassifierNext

-----------------------------------------------------------------------------
(* Segments.                                                               *)

\* What is computed step by step from the left is a function.
StepsOn(f, n, base, step) == f[0] = base /\ \A k \in 1..n : f[k] = step[k][f[k - 1]]

LEMMA PrefixesExist ==
    ASSUME NEW n \in Nat, NEW D, NEW base \in D, NEW step \in [1..n -> [D -> D]]
    PROVE  \E f \in [0..n -> D] : StepsOn(f, n, base, step)
<1>. DEFINE Good == {m \in 0..n : \E f \in [0..m -> D] : StepsOn(f, m, base, step)}
<1>1. 0 \in Good
  <2>. DEFINE f == [k \in 0..0 |-> base]
  <2>1. f \in [0..0 -> D] /\ f[0] = base
    OBVIOUS
  <2>2. StepsOn(f, 0, base, step)
    BY <2>1 DEF StepsOn
  <2>3. 0 \in 0..n
    OBVIOUS
  <2>. HIDE DEF f
  <2>. QED
    BY <2>1, <2>2, <2>3
<1>2. ASSUME NEW m \in 0..(n - 1), m \in Good PROVE m + 1 \in Good
  <2>1. PICK f \in [0..m -> D] : StepsOn(f, m, base, step)
    BY <1>2
  <2>. DEFINE g == [k \in 0..(m + 1) |-> IF k = m + 1 THEN step[m + 1][f[m]] ELSE f[k]]
  <2>2. step[m + 1][f[m]] \in D
    <3>1. m + 1 \in 1..n /\ f[m] \in D
      OBVIOUS
    <3>. QED
      BY <3>1
  <2>3. g \in [0..(m + 1) -> D]
    BY <2>2
  <2>4. ASSUME NEW k \in 1..(m + 1) PROVE g[k] = step[k][g[k - 1]]
    <3>1. k - 1 \in 0..m /\ g[k - 1] = f[k - 1]
      OBVIOUS
    <3>2. CASE k = m + 1
      BY <3>1, <3>2
    <3>3. CASE k # m + 1
      <4>1. k \in 1..m
        BY <3>3
      <4>2. f[k] = step[k][f[k - 1]]
        BY <2>1, <4>1 DEF StepsOn
      <4>. QED
        BY <3>1, <3>3, <4>1, <4>2
    <3>. QED
      BY <3>2, <3>3
  <2>5. g[0] = base
    BY <2>1 DEF StepsOn
  <2>6. StepsOn(g, m + 1, base, step)
    BY <2>4, <2>5 DEF StepsOn
  <2>. HIDE DEF g
  <2>. QED
    BY <2>3, <2>6
<1>3. Good \in SUBSET Int
  OBVIOUS
<1>. HIDE DEF Good
<1>4. \A k \in 0..n : k \in Good
  <2>1. \A k \in 0..(n - 1) : k \in Good => k + 1 \in Good
    BY <1>2
  <2>2. 0 \in Int /\ n \in Int
    OBVIOUS
  <2>. QED
    BY <1>1, <1>3, <2>1, <2>2, FromTheLeft
<1>5. n \in Good
  BY <1>4
<1>. QED
  BY <1>5 DEF Good

Cut == Seq(Seq(Nat))

LEMMA ExtendedIs ==
    ASSUME NEW segments \in Cut, NEW at \in Nat
    PROVE  Extended(segments, at) \in Cut
<1>1. Append(segments, <<at>>) \in Cut
  BY DEF Cut
<1>2. ASSUME segments # << >> PROVE [segments EXCEPT ![Len(segments)] = Append(@, at)] \in Cut
  <2>1. Len(segments) \in 1..Len(segments) /\ Len(segments) \in Nat
    BY <1>2 DEF Cut
  <2>2. Append(segments[Len(segments)], at) \in Seq(Nat)
    BY <2>1 DEF Cut
  <2>3. segments \in [1..Len(segments) -> Seq(Nat)]
    BY DEF Cut
  <2>4. [segments EXCEPT ![Len(segments)] = Append(@, at)] \in [1..Len(segments) -> Seq(Nat)]
    BY <2>1, <2>2, <2>3
  <2>. QED
    BY <2>1, <2>4 DEF Cut
<1>. QED
  BY <1>1, <1>2 DEF Extended

UptoStep(series, f, n) == IF n = 0 THEN << >> ELSE Extended(f[n - 1], series[n])
UptoOf(series) == CHOOSE f : f = [n \in 0..Len(series) |-> UptoStep(series, f, n)]

LEMMA SegmentsUnfold ==
    ASSUME NEW series
    PROVE  Segments(series) = UptoOf(series)[Len(series)]
  BY DEF Segments, UptoOf, UptoStep

LEMMA UptoIs ==
    ASSUME NEW series \in Seq(Nat)
    PROVE  /\ UptoOf(series)[0] = << >>
           /\ \A n \in 1..Len(series) : UptoOf(series)[n] = Extended(UptoOf(series)[n - 1], series[n])
<1>. DEFINE N == Len(series)
            base == << >>
            step == [k \in 1..N |-> [segments \in Cut |-> Extended(segments, series[k])]]
<1>1. N \in Nat /\ base \in Cut
  BY DEF Cut
<1>2. step \in [1..N -> [Cut -> Cut]]
  BY ExtendedIs
<1>3. PICK f \in [0..N -> Cut] : StepsOn(f, N, base, step)
  <2>. HIDE DEF step, N, base
  <2>. QED
    BY <1>1, <1>2, PrefixesExist
<1>4. ASSUME NEW n \in 0..N PROVE f[n] = UptoStep(series, f, n)
  <2>1. CASE n = 0
    BY <1>3, <2>1 DEF UptoStep, StepsOn
  <2>2. CASE n # 0
    <3>1. n \in 1..N /\ f[n - 1] \in Cut
      BY <1>1, <2>2
    <3>2. f[n] = step[n][f[n - 1]]
      BY <1>3, <3>1 DEF StepsOn
    <3>. QED
      BY <2>2, <3>1, <3>2 DEF UptoStep
  <2>. QED
    BY <2>1, <2>2
<1>5. f = [n \in 0..Len(series) |-> UptoStep(series, f, n)]
  BY <1>4
<1>6. UptoOf(series) = [n \in 0..Len(series) |-> UptoStep(series, UptoOf(series), n)]
  BY <1>5 DEF UptoOf
<1>7. \A n \in 0..N : UptoOf(series)[n] = UptoStep(series, UptoOf(series), n)
  <2>. DEFINE u == UptoOf(series)
  <2>. HIDE DEF u
  <2>1. u = [n \in 0..Len(series) |-> UptoStep(series, u, n)]
    BY <1>6 DEF u
  <2>2. \A n \in 0..N : u[n] = UptoStep(series, u, n)
    BY <2>1
  <2>. QED
    BY <2>2 DEF u
<1>8. 0 \in 0..N /\ \A n \in 1..N : n \in 0..N /\ n # 0
  BY <1>1
<1>. HIDE DEF N
<1>. QED
  BY <1>7, <1>8 DEF UptoStep, N

\* Where a series is cut among its first n samples.
CutsOf(series, n) == {i \in 1..(n - 1) : series[i] + Gap < series[i + 1]}

\* The segments are the first n samples in their order; e tells where each ends.
SegmentIs(segments, e, series, k) ==
    /\ Len(segments[k]) \in Nat /\ Len(segments[k]) > 0 /\ e[k] = e[k - 1] + Len(segments[k])
    /\ \A i \in 1..Len(segments[k]) : segments[k][i] = series[e[k - 1] + i]

Divides(segments, e, series, n) ==
    /\ segments \in Cut /\ e \in [0..Len(segments) -> Nat]
    /\ e[0] = 0 /\ e[Len(segments)] = n
    /\ \A k \in 1..Len(segments) : SegmentIs(segments, e, series, k)
    /\ {e[k] : k \in 1..(Len(segments) - 1)} = CutsOf(series, n)

LEMMA MoreCuts ==
    ASSUME NEW series, NEW n \in Nat, n > 0
    PROVE  CutsOf(series, n + 1) = CutsOf(series, n) \cup {i \in {n} : series[i] + Gap < series[i + 1]}
<1>1. 1..(n + 1 - 1) = 1..(n - 1) \cup {n}
  OBVIOUS
<1>. QED
  BY <1>1 DEF CutsOf

\* The last segment ends with the last sample.
LEMMA LastEnds ==
    ASSUME NEW series \in Seq(Nat), NEW n \in Nat, n <= Len(series),
           NEW segments, NEW e, Divides(segments, e, series, n),
           NEW L, L = Len(segments), L # 0,
           NEW q, q = segments[L], NEW m, m = Len(q)
    PROVE  /\ L \in Nat /\ L > 0 /\ q \in Seq(Nat) /\ e[L - 1] \in Nat
           /\ m \in Nat /\ m > 0 /\ n = e[L - 1] + m /\ n > 0
           /\ series[n] \in Nat /\ series[n] = q[m]
           /\ \A i \in 1..m : q[i] = series[e[L - 1] + i]
<1>1. L \in Nat /\ L > 0 /\ L \in 1..L /\ L - 1 \in 0..L /\ q \in Seq(Nat)
  <2>1. segments \in Seq(Seq(Nat))
    BY DEF Divides, Cut
  <2>. QED
    BY <2>1
<1>2. e \in [0..L -> Nat] /\ e[L] = n
  BY DEF Divides
<1>3. e[L - 1] \in Nat
  BY <1>1, <1>2
<1>4. SegmentIs(segments, e, series, L)
  BY <1>1 DEF Divides
<1>5. m \in Nat /\ m > 0 /\ e[L] = e[L - 1] + m /\ \A i \in 1..m : q[i] = series[e[L - 1] + i]
  BY <1>4 DEF SegmentIs
<1>6. n = e[L - 1] + m /\ m \in 1..m
  BY <1>2, <1>5
<1>7. n > 0 /\ n \in 1..Len(series)
  BY <1>3, <1>5, <1>6
<1>8. q[m] = series[n]
  BY <1>5, <1>6
<1>. QED
  BY <1>1, <1>3, <1>5, <1>6, <1>7, <1>8

\* The sample joins the last segment.
LEMMA OneJoins ==
    ASSUME NEW series \in Seq(Nat), NEW n \in Nat, n + 1 <= Len(series),
           NEW segments, NEW e, Divides(segments, e, series, n),
           segments # << >>, Joins(Last(segments), series[n + 1])
    PROVE  \E d : Divides(Extended(segments, series[n + 1]), d, series, n + 1)
<1>. DEFINE L == Len(segments)
            at == series[n + 1]
            longer == Extended(segments, at)
            d == [k \in 0..L |-> IF k = L THEN n + 1 ELSE e[k]]
            q == segments[L]
            m == Len(q)
<1>1. L \in Nat /\ L > 0 /\ L \in 1..L /\ segments \in Cut /\ segments \in [1..L -> Seq(Nat)]
  BY DEF Divides, Cut
<1>2. at \in Nat /\ Gap \in Nat
  BY ChartsAssumption
<1>3. longer = [segments EXCEPT ![L] = Append(segments[L], at)]
  BY DEF Extended
<1>4. longer \in Cut
  BY <1>1, <1>2, ExtendedIs
<1>5. Len(longer) = L /\ longer[L] = Append(segments[L], at) /\ \A k \in 1..(L - 1) : longer[k] = segments[k]
  <2>. HIDE DEF L, at
  <2>1. longer \in [1..L -> Seq(Nat)]
    BY <1>1, <1>2, <1>3
  <2>. HIDE DEF longer
  <2>2. Len(longer) = L
    BY <1>1, <1>4, <2>1 DEF Cut
  <2>3. longer[L] = Append(segments[L], at)
    BY <1>1, <1>3
  <2>4. ASSUME NEW k \in 1..(L - 1) PROVE longer[k] = segments[k]
    <3>1. k \in 1..L /\ k # L
      BY <1>1
    <3>. QED
      BY <1>1, <1>3, <3>1
  <2>. QED
    BY <2>2, <2>3, <2>4
<1>6. e \in [0..L -> Nat] /\ e[0] = 0 /\ e[L] = n
  BY DEF Divides
<1>7. \A k \in 1..L : SegmentIs(segments, e, series, k)
  BY DEF Divides
<1>8. {e[k] : k \in 1..(L - 1)} = CutsOf(series, n)
  BY DEF Divides
<1>9. at - q[m] <= Gap
  BY DEF Joins, Last
<1>10. /\ q \in Seq(Nat) /\ e[L - 1] \in Nat /\ m \in Nat /\ m > 0 /\ n = e[L - 1] + m /\ n > 0
       /\ series[n] \in Nat /\ series[n] = q[m] /\ \A i \in 1..m : q[i] = series[e[L - 1] + i]
  <2>1. n <= Len(series) /\ L # 0
    BY <1>1
  <2>2. L = Len(segments) /\ q = segments[L] /\ m = Len(q)
    OBVIOUS
  <2>. HIDE DEF L, q, m, longer, d, at
  <2>3. /\ q \in Seq(Nat) /\ e[L - 1] \in Nat /\ m \in Nat /\ m > 0 /\ n = e[L - 1] + m /\ n > 0
        /\ series[n] \in Nat /\ series[n] = q[m]
    BY <2>1, <2>2, LastEnds
  <2>4. \A i \in 1..m : q[i] = series[e[L - 1] + i]
    <3>1. SegmentIs(segments, e, series, L)
      BY <1>1, <1>7
    <3>. QED
      BY <2>2, <3>1 DEF SegmentIs
  <2>. QED
    BY <2>3, <2>4
<1>11. longer[L] = Append(q, at)
  BY <1>5
<1>. HIDE DEF L, at, longer, q, m
<1>12. CutsOf(series, n + 1) = CutsOf(series, n)
  <2>1. ~(series[n] + Gap < at)
    BY <1>2, <1>9, <1>10
  <2>2. ~(series[n] + Gap < series[n + 1])
    BY <2>1 DEF at
  <2>3. {i \in {n} : series[i] + Gap < series[i + 1]} = {}
    BY <2>2
  <2>4. n > 0
    BY <1>10
  <2>5. CutsOf(series, n + 1) = CutsOf(series, n) \cup {i \in {n} : series[i] + Gap < series[i + 1]}
    BY <2>4, MoreCuts
  <2>. QED
    BY <2>3, <2>5
<1>13. d \in [0..L -> Nat] /\ d[L] = n + 1 /\ \A k \in 0..(L - 1) : d[k] = e[k]
  BY <1>1, <1>6
<1>. HIDE DEF d
<1>14. ASSUME NEW k \in 1..L PROVE SegmentIs(longer, d, series, k)
  <2>1. CASE k < L
    <3>1. k \in 1..(L - 1) /\ k \in 0..(L - 1) /\ k - 1 \in 0..(L - 1)
      BY <1>1, <2>1
    <3>2. longer[k] = segments[k] /\ d[k] = e[k] /\ d[k - 1] = e[k - 1]
      BY <1>5, <1>13, <3>1
    <3>. QED
      BY <1>7, <3>2 DEF SegmentIs
  <2>2. CASE k = L
    <3>1. d[L - 1] = e[L - 1]
      BY <1>1, <1>13
    <3>2. Len(longer[L]) = m + 1 /\ longer[L][m + 1] = at /\ \A i \in 1..m : longer[L][i] = q[i]
      BY <1>2, <1>10, <1>11 DEF m
    <3>3. at = series[e[L - 1] + (m + 1)] /\ d[L] = d[L - 1] + (m + 1)
      <4>1. e[L - 1] \in Nat /\ m \in Nat /\ n = e[L - 1] + m => n + 1 = e[L - 1] + (m + 1)
        OBVIOUS
      <4>2. at = series[n + 1]
        BY DEF at
      <4>. QED
        BY <1>10, <1>13, <3>1, <4>1, <4>2
    <3>4. \A i \in 1..(m + 1) : i = m + 1 \/ i \in 1..m
      BY <1>10
    <3>5. \A i \in 1..(m + 1) : longer[L][i] = series[d[L - 1] + i]
      BY <1>10, <3>1, <3>2, <3>3, <3>4
    <3>. QED
      BY <1>10, <2>2, <3>2, <3>3, <3>5 DEF SegmentIs
  <2>. QED
    BY <1>1, <2>1, <2>2
<1>15. {d[k] : k \in 1..(L - 1)} = CutsOf(series, n + 1)
  <2>1. \A k \in 1..(L - 1) : d[k] = e[k]
    BY <1>13
  <2>. QED
    BY <1>8, <1>12, <2>1
<1>16. d[0] = 0
  BY <1>1, <1>6, <1>13
<1>17. Divides(longer, d, series, n + 1)
  BY <1>4, <1>5, <1>13, <1>14, <1>15, <1>16 DEF Divides
<1>. QED
  BY <1>17 DEF longer, at

\* The sample opens a segment.
LEMMA OneOpens ==
    ASSUME NEW series \in Seq(Nat), NEW n \in Nat, n + 1 <= Len(series),
           NEW segments, NEW e, Divides(segments, e, series, n),
           ~(segments # << >> /\ Joins(Last(segments), series[n + 1]))
    PROVE  \E d : Divides(Extended(segments, series[n + 1]), d, series, n + 1)
<1>. DEFINE L == Len(segments)
            at == series[n + 1]
            longer == Extended(segments, at)
            d == [k \in 0..(L + 1) |-> IF k = L + 1 THEN n + 1 ELSE e[k]]
            q == segments[L]
            m == Len(q)
<1>1. L \in Nat /\ segments \in Cut /\ (L = 0 <=> segments = << >>)
  BY DEF Divides, Cut
<1>2. at \in Nat /\ Gap \in Nat
  BY ChartsAssumption
<1>3. longer = Append(segments, <<at>>)
  BY DEF Extended
<1>4. longer \in Cut
  BY <1>1, <1>2, ExtendedIs
<1>5. Len(longer) = L + 1 /\ longer[L + 1] = <<at>> /\ \A k \in 1..L : longer[k] = segments[k]
  BY <1>1, <1>2, <1>3 DEF Cut
<1>6. e \in [0..L -> Nat] /\ e[0] = 0 /\ e[L] = n
  BY DEF Divides
<1>7. \A k \in 1..L : SegmentIs(segments, e, series, k)
  BY DEF Divides
<1>8. {e[k] : k \in 1..(L - 1)} = CutsOf(series, n)
  BY DEF Divides
<1>9. L > 0 => ~(at - q[m] <= Gap)
  BY <1>1 DEF Joins, Last
<1>. HIDE DEF L, at, longer, q, m
<1>10. d \in [0..(L + 1) -> Nat] /\ d[L + 1] = n + 1 /\ \A k \in 0..L : d[k] = e[k]
  BY <1>1, <1>6
<1>. HIDE DEF d
<1>11. ASSUME NEW k \in 1..(L + 1) PROVE SegmentIs(longer, d, series, k)
  <2>1. CASE k <= L
    <3>1. k \in 1..L /\ k \in 0..L /\ k - 1 \in 0..L
      BY <1>1, <2>1
    <3>2. longer[k] = segments[k] /\ d[k] = e[k] /\ d[k - 1] = e[k - 1]
      BY <1>5, <1>10, <3>1
    <3>. QED
      BY <1>7, <3>1, <3>2 DEF SegmentIs
  <2>2. CASE k = L + 1
    <3>1. d[k - 1] = n /\ d[k] = n + 1 /\ longer[k] = <<at>>
      BY <1>1, <1>5, <1>6, <1>10, <2>2
    <3>2. Len(<<at>>) = 1 /\ <<at>>[1] = at /\ at = series[n + 1]
      BY DEF at
    <3>. QED
      BY <3>1, <3>2 DEF SegmentIs
  <2>. QED
    BY <1>1, <2>1, <2>2
<1>12. {d[k] : k \in 1..L} = CutsOf(series, n + 1)
  <2>1. CASE L = 0
    <3>1. n = 0 /\ CutsOf(series, 1) = {}
      BY <1>6, <2>1 DEF CutsOf
    <3>. QED
      BY <2>1, <3>1
  <2>2. CASE L > 0
    <3>1. n > 0 /\ series[n] \in Nat /\ series[n] = q[m]
      <4>1. n <= Len(series) /\ L # 0 /\ L = Len(segments) /\ q = segments[L] /\ m = Len(q)
        BY <2>2 DEF L, q, m
      <4>. QED
        BY <4>1, LastEnds
    <3>2. series[n] + Gap < at
      BY <1>2, <1>9, <2>2, <3>1
    <3>3. series[n] + Gap < series[n + 1]
      BY <3>2 DEF at
    <3>4. CutsOf(series, n + 1) = CutsOf(series, n) \cup {n}
      <4>1. {i \in {n} : series[i] + Gap < series[i + 1]} = {n}
        BY <3>3
      <4>. QED
        BY <3>1, <4>1, MoreCuts
    <3>5. {d[k] : k \in 1..L} = {e[k] : k \in 1..(L - 1)} \cup {e[L]}
      <4>1. 1..L = 1..(L - 1) \cup {L} /\ \A k \in 1..L : d[k] = e[k]
        BY <1>1, <1>10, <2>2
      <4>. QED
        BY <4>1
    <3>. QED
      BY <1>6, <1>8, <3>4, <3>5
  <2>. QED
    BY <1>1, <2>1, <2>2
<1>13. d[0] = 0
  BY <1>1, <1>6, <1>10
<1>15. {d[k] : k \in 1..(Len(longer) - 1)} = CutsOf(series, n + 1)
  <2>1. Len(longer) - 1 = L
    BY <1>1, <1>5
  <2>. QED
    BY <1>12, <2>1
<1>14. Divides(longer, d, series, n + 1)
  BY <1>4, <1>5, <1>10, <1>11, <1>13, <1>15 DEF Divides
<1>. QED
  BY <1>14 DEF longer, at

\* What segments returns are the samples in their order, cut exactly at the gaps.
LEMMA SegmentsAre ==
    ASSUME NEW series \in Seq(Nat)
    PROVE  \E e : Divides(Segments(series), e, series, Len(series))
<1>. DEFINE N == Len(series)
            Good == {n \in 0..N : \E e : Divides(UptoOf(series)[n], e, series, n)}
<1>1. N \in Nat /\ N \in Int /\ 0 \in Int /\ 0 \in 0..N /\ Good \in SUBSET Int
  OBVIOUS
<1>2. 0 \in Good
  <2>. DEFINE e == [k \in 0..0 |-> 0]
  <2>1. << >> \in Cut /\ Len(<< >>) = 0 /\ CutsOf(series, 0) = {}
    BY DEF Cut, CutsOf
  <2>2. e \in [0..0 -> Nat] /\ e[0] = 0 /\ 1..0 = {} /\ 1..(0 - 1) = {}
    OBVIOUS
  <2>. HIDE DEF e
  <2>3. Divides(<< >>, e, series, 0)
    BY <2>1, <2>2 DEF Divides
  <2>. QED
    BY <1>1, <2>3, UptoIs
<1>3. \A n \in 0..(N - 1) : n \in Good => n + 1 \in Good
  <2>. SUFFICES ASSUME NEW n \in 0..(N - 1), n \in Good PROVE n + 1 \in Good
    OBVIOUS
  <2>1. PICK e : Divides(UptoOf(series)[n], e, series, n)
    OBVIOUS
  <2>2. n \in Nat /\ n + 1 <= Len(series) /\ n + 1 \in 0..N /\ n + 1 \in 1..N /\ n + 1 - 1 = n
    OBVIOUS
  <2>3. UptoOf(series)[n + 1] = Extended(UptoOf(series)[n], series[n + 1])
    BY <2>2, UptoIs
  <2>4. \E d : Divides(Extended(UptoOf(series)[n], series[n + 1]), d, series, n + 1)
    BY <2>1, <2>2, OneJoins, OneOpens
  <2>. QED
    BY <2>2, <2>3, <2>4
<1>4. \A n \in 0..N : n \in Good
  <2>. HIDE DEF Good, N
  <2>. QED
    BY <1>1, <1>2, <1>3, FromTheLeft
<1>5. N \in Good
  BY <1>1, <1>4
<1>. QED
  BY <1>5, SegmentsUnfold

-----------------------------------------------------------------------------
(* Panels.                                                                 *)

EndsStep(marks, f, k) == IF k = 0 THEN 0 ELSE f[k - 1] + Len(marks[k].xs)
EndsOf(marks) == CHOOSE f : f = [k \in 0..Len(marks) |-> EndsStep(marks, f, k)]

Ascending(series) ==
    series \in Seq(Nat) /\ \A i \in 1..(Len(series) - 1) : series[i] < series[i + 1]

\* The two halves of what is promised of a panel.
MarksAreSamples(series) ==
    LET marks == PanelMarks(series)
        cuts == {i \in 1..(Len(series) - 1) : \A t \in 1..Gap : series[i] + t < series[i + 1]}
        ends == EndsOf(marks)
    IN /\ ends[Len(marks)] = Len(series) /\ {ends[k] : k \in 1..(Len(marks) - 1)} = cuts
       /\ \A k \in DOMAIN marks :
              /\ marks[k].shape = "line" <=> Len(marks[k].xs) > 1
              /\ \A i \in DOMAIN marks[k].xs : marks[k].xs[i] = X(series[ends[k - 1] + i])

TimesAreTrue(series) ==
    \A t \in Range(series) :
        /\ t <= drawn.to /\ drawn.from - drawn.took <= t
        /\ drawn.from <= t => X(t) = t - drawn.from

LEMMA DrawnUnfolds ==
    ASSUME \A p \in DOMAIN Series : MarksAreSamples(drawn.points[p]) /\ TimesAreTrue(drawn.points[p])
    PROVE  DrawnAsRecorded
  BY DEF DrawnAsRecorded, MarksAreSamples, TimesAreTrue, EndsOf, EndsStep

\* A series is cut where nothing was recorded for longer than the gap.
LEMMA CutsAreOutages ==
    ASSUME NEW series, Ascending(series)
    PROVE  CutsOf(series, Len(series)) =
               {i \in 1..(Len(series) - 1) : \A t \in 1..Gap : series[i] + t < series[i + 1]}
<1>1. ASSUME NEW i \in 1..(Len(series) - 1)
      PROVE  series[i] + Gap < series[i + 1] <=> \A t \in 1..Gap : series[i] + t < series[i + 1]
  <2>. DEFINE a == series[i]
              b == series[i + 1]
  <2>1. a \in Nat /\ b \in Nat /\ a < b /\ Gap \in Nat
    <3>1. i \in 1..Len(series) /\ i + 1 \in 1..Len(series) /\ series \in Seq(Nat)
      BY DEF Ascending
    <3>. QED
      BY <3>1, ChartsAssumption DEF Ascending
  <2>. HIDE DEF a, b
  <2>2. a + Gap < b <=> \A t \in 1..Gap : a + t < b
    <3>1. CASE Gap = 0
      BY <2>1, <3>1
    <3>2. CASE Gap # 0
      <4>1. Gap \in 1..Gap
        BY <2>1, <3>2
      <4>2. \A t \in 1..Gap : t \in Nat /\ t <= Gap
        BY <2>1
      <4>3. a + Gap < b => \A t \in 1..Gap : a + t < b
        BY <2>1, <4>2
      <4>. QED
        BY <4>1, <4>3
    <3>. QED
      BY <3>1, <3>2
  <2>. QED
    BY <2>2 DEF a, b
<1>. QED
  BY <1>1 DEF CutsOf

\* A mark for every segment, with a place for every sample of it.
MarkIs(mark, segment) ==
    /\ DOMAIN mark.xs = 1..Len(segment) /\ Len(mark.xs) = Len(segment)
    /\ mark.shape = IF Len(segment) = 1 THEN "dot" ELSE "line"
    /\ \A i \in 1..Len(segment) : mark.xs[i] = X(segment[i])

LEMMA PanelIs ==
    ASSUME NEW series, NEW segments, segments = Segments(series), segments \in Cut
    PROVE  /\ DOMAIN PanelMarks(series) = 1..Len(segments) /\ Len(PanelMarks(series)) = Len(segments)
           /\ \A k \in 1..Len(segments) : MarkIs(PanelMarks(series)[k], segments[k])
<1>. DEFINE L == Len(segments)
            Xs(k) == [i \in DOMAIN segments[k] |-> X(segments[k][i])]
            Mark(k) == [shape |-> IF Len(segments[k]) = 1 THEN "dot" ELSE "line", xs |-> Xs(k)]
<1>1. PanelMarks(series) = [k \in DOMAIN segments |-> Mark(k)]
  BY DEF PanelMarks
<1>2. L \in Nat /\ DOMAIN segments = 1..L /\ \A k \in 1..L : segments[k] \in Seq(Nat)
  BY DEF Cut
<1>3. Len([k \in 1..L |-> Mark(k)]) = L
  BY <1>2
<1>4. ASSUME NEW k \in 1..L
      PROVE  /\ DOMAIN Xs(k) = 1..Len(segments[k]) /\ Len(Xs(k)) = Len(segments[k])
             /\ \A i \in 1..Len(segments[k]) : Xs(k)[i] = X(segments[k][i])
  <2>. DEFINE q == segments[k]
  <2>1. Len(q) \in Nat /\ DOMAIN q = 1..Len(q)
    BY <1>2
  <2>. HIDE DEF q
  <2>2. LET xs == [i \in 1..Len(q) |-> X(q[i])] IN
        DOMAIN xs = 1..Len(q) /\ Len(xs) = Len(q) /\ \A i \in 1..Len(q) : xs[i] = X(q[i])
    BY <2>1
  <2>. QED
    BY <2>1, <2>2 DEF q
<1>5. \A k \in 1..L : PanelMarks(series)[k] = Mark(k)
  BY <1>1, <1>2
<1>6. DOMAIN PanelMarks(series) = 1..L /\ Len(PanelMarks(series)) = L
  BY <1>1, <1>2, <1>3
<1>7. \A k \in 1..L : Mark(k).xs = Xs(k) /\ Mark(k).shape = IF Len(segments[k]) = 1 THEN "dot" ELSE "line"
  OBVIOUS
<1>. HIDE DEF Mark, Xs
<1>. QED
  BY <1>4, <1>5, <1>6, <1>7 DEF MarkIs

\* Where the marks end is where the segments end.
LEMMA EndsAre ==
    ASSUME NEW marks, Len(marks) \in Nat, NEW e,
           e[0] = 0, \A k \in 1..Len(marks) : e[k] = e[k - 1] + Len(marks[k].xs)
    PROVE  \A k \in 0..Len(marks) : EndsOf(marks)[k] = e[k]
<1>. DEFINE L == Len(marks)
            f == [k \in 0..L |-> e[k]]
            u == EndsOf(marks)
<1>1. ASSUME NEW k \in 0..L PROVE f[k] = EndsStep(marks, f, k)
  <2>1. CASE k = 0
    BY <2>1 DEF EndsStep
  <2>2. CASE k # 0
    <3>1. k \in 1..L /\ k - 1 \in 0..L
      BY <2>2
    <3>2. f[k] = e[k] /\ f[k - 1] = e[k - 1]
      BY <3>1
    <3>. QED
      BY <2>2, <3>1, <3>2 DEF EndsStep
  <2>. QED
    BY <2>1, <2>2
<1>2. f = [k \in 0..Len(marks) |-> EndsStep(marks, f, k)]
  BY <1>1
<1>3. u = [k \in 0..Len(marks) |-> EndsStep(marks, u, k)]
  BY <1>2 DEF EndsOf
<1>. DEFINE Good == {k \in 0..L : u[k] = e[k]}
<1>. HIDE DEF u
<1>4. \A k \in 0..L : u[k] = EndsStep(marks, u, k)
  BY <1>3
<1>5. 0 \in Good
  BY <1>4 DEF EndsStep
<1>6. \A k \in 0..(L - 1) : k \in Good => k + 1 \in Good
  <2>. SUFFICES ASSUME NEW k \in 0..(L - 1), u[k] = e[k] PROVE u[k + 1] = e[k + 1]
    OBVIOUS
  <2>1. k + 1 \in 0..L /\ k + 1 \in 1..L /\ k + 1 # 0 /\ k + 1 - 1 = k
    OBVIOUS
  <2>2. u[k + 1] = u[k] + Len(marks[k + 1].xs)
    BY <1>4, <2>1 DEF EndsStep
  <2>. QED
    BY <2>1, <2>2
<1>7. \A k \in 0..L : k \in Good
  <2>1. Good \in SUBSET Int /\ 0 \in Int /\ L \in Int
    OBVIOUS
  <2>. HIDE DEF Good, L
  <2>. QED
    BY <1>5, <1>6, <2>1, FromTheLeft
<1>. QED
  BY <1>7 DEF u

LEMMA MarksAre ==
    ASSUME NEW series, Ascending(series)
    PROVE  MarksAreSamples(series)
<1>. DEFINE segments == Segments(series)
            L == Len(segments)
            marks == PanelMarks(series)
<1>1. series \in Seq(Nat)
  BY DEF Ascending
<1>2. PICK e : Divides(segments, e, series, Len(series))
  BY <1>1, SegmentsAre
<1>. HIDE DEF segments
<1>3. segments \in Cut /\ L \in Nat /\ e[0] = 0 /\ e[L] = Len(series)
  <2>1. segments \in Cut /\ e[0] = 0 /\ e[L] = Len(series)
    BY <1>2 DEF Divides
  <2>. QED
    BY <2>1 DEF Cut
<1>4. {e[k] : k \in 1..(L - 1)} = CutsOf(series, Len(series))
  BY <1>2 DEF Divides
<1>5. ASSUME NEW k \in 1..L
      PROVE  /\ Len(segments[k]) \in Nat /\ Len(segments[k]) > 0 /\ e[k] = e[k - 1] + Len(segments[k])
             /\ \A i \in 1..Len(segments[k]) : segments[k][i] = series[e[k - 1] + i]
  BY <1>2 DEF Divides, SegmentIs
<1>6. DOMAIN marks = 1..L /\ Len(marks) = L /\ \A k \in 1..L : MarkIs(marks[k], segments[k])
  <2>1. segments = Segments(series)
    BY DEF segments
  <2>. QED
    BY <1>3, <2>1, PanelIs
<1>. DEFINE ends == EndsOf(marks)
<1>. HIDE DEF marks, L
<1>10. Len(marks) = L /\ \A k \in 0..L : ends[k] = e[k]
  <2>1. ASSUME NEW k \in 1..L PROVE e[k] = e[k - 1] + Len(marks[k].xs)
    <3>1. Len(marks[k].xs) = Len(segments[k])
      BY <1>6 DEF MarkIs
    <3>. QED
      BY <1>5, <3>1
  <2>2. Len(marks) = L /\ Len(marks) \in Nat
    BY <1>3, <1>6
  <2>3. \A k \in 1..Len(marks) : e[k] = e[k - 1] + Len(marks[k].xs)
    BY <2>1, <2>2
  <2>4. \A k \in 0..Len(marks) : ends[k] = e[k]
    BY <1>3, <2>2, <2>3, EndsAre
  <2>. QED
    BY <2>2, <2>4
<1>. HIDE DEF ends
<1>7. ends[Len(marks)] = Len(series)
  BY <1>3, <1>6, <1>10
<1>8. {ends[k] : k \in 1..(Len(marks) - 1)} =
          {i \in 1..(Len(series) - 1) : \A t \in 1..Gap : series[i] + t < series[i + 1]}
  <2>1. \A k \in 1..(L - 1) : ends[k] = e[k]
    BY <1>3, <1>10
  <2>2. {ends[k] : k \in 1..(Len(marks) - 1)} = {e[k] : k \in 1..(L - 1)}
    BY <1>10, <2>1
  <2>. QED
    BY <1>4, <2>2, CutsAreOutages
<1>9. ASSUME NEW k \in DOMAIN marks
      PROVE  /\ marks[k].shape = "line" <=> Len(marks[k].xs) > 1
             /\ \A i \in DOMAIN marks[k].xs : marks[k].xs[i] = X(series[ends[k - 1] + i])
  <2>. DEFINE q == segments[k]
              xs == marks[k].xs
  <2>1. k \in 1..L /\ k - 1 \in 0..L
    BY <1>3, <1>6
  <2>2. ends[k - 1] = e[k - 1]
    BY <1>10, <2>1
  <2>3. Len(q) \in Nat /\ Len(q) > 0 /\ \A i \in 1..Len(q) : q[i] = series[e[k - 1] + i]
    BY <1>5, <2>1
  <2>4. /\ DOMAIN xs = 1..Len(q) /\ Len(xs) = Len(q)
        /\ marks[k].shape = IF Len(q) = 1 THEN "dot" ELSE "line"
        /\ \A i \in 1..Len(q) : xs[i] = X(q[i])
    BY <1>6, <2>1 DEF MarkIs
  <2>. HIDE DEF q, xs
  <2>5. marks[k].shape = "line" <=> Len(xs) > 1
    BY <2>3, <2>4
  <2>6. \A i \in DOMAIN xs : xs[i] = X(series[ends[k - 1] + i])
    BY <2>2, <2>3, <2>4
  <2>. QED
    BY <2>5, <2>6 DEF xs
<1>. QED
  BY <1>7, <1>8, <1>9 DEF MarksAreSamples, marks, ends

-----------------------------------------------------------------------------
(* What is recorded, fetched and drawn.                                    *)

LEMMA AscendingIs ==
    ASSUME NEW series, Ascending(series), NEW i \in 1..Len(series), NEW j \in i..Len(series)
    PROVE  series[i] <= series[j]
<1>. DEFINE N == Len(series)
            Good == {k \in i..N : series[i] <= series[k]}
<1>1. /\ N \in Int /\ i \in Int /\ N \in Nat /\ i \in i..N /\ Good \in SUBSET Int
      /\ \A k \in 1..N : series[k] \in Nat
  BY DEF Ascending
<1>2. i \in Good
  BY <1>1
<1>3. \A k \in i..(N - 1) : k \in Good => k + 1 \in Good
  <2>. SUFFICES ASSUME NEW k \in i..(N - 1), series[i] <= series[k] PROVE k + 1 \in Good
    OBVIOUS
  <2>1. k \in 1..(N - 1) /\ k \in 1..N /\ k + 1 \in 1..N /\ k + 1 \in i..N
    BY <1>1
  <2>2. series[k] < series[k + 1]
    BY <2>1 DEF Ascending
  <2>. QED
    BY <1>1, <2>1, <2>2
<1>4. \A k \in i..N : k \in Good
  <2>. HIDE DEF Good, N
  <2>. QED
    BY <1>1, <1>2, <1>3, FromTheLeft
<1>. QED
  BY <1>4

Within(series, low, high) == \A i \in 1..Len(series) : low <= series[i] /\ series[i] <= high

\* The last hour of a series is its end.
LEMMA LastHourIs ==
    ASSUME NEW series, Ascending(series), NEW high \in Int, Within(series, 0, high), now \in Nat
    PROVE  Ascending(LastHour(series)) /\ Within(LastHour(series), now - Span, high)
<1>. DEFINE recent == {i \in DOMAIN series : series[i] >= now - Span}
            N == Len(series)
<1>1. N \in Nat /\ DOMAIN series = 1..N /\ \A k \in 1..N : series[k] \in Nat
  BY DEF Ascending
<1>2. CASE recent = {}
  BY <1>2 DEF LastHour, Ascending, Within
<1>3. CASE recent # {}
  <2>1. \E i \in recent : \A j \in recent : i <= j
    <3>1. recent \in SUBSET Nat
      BY <1>1
    <3>. HIDE DEF recent
    <3>. QED
      BY <1>3, <3>1, LeastNatural
  <2>2. PICK i \in recent : i = (CHOOSE k \in recent : \A j \in recent : k <= j)
    BY <2>1
  <2>3. LastHour(series) = SubSeq(series, i, N)
    BY <1>3, <2>2 DEF LastHour
  <2>4. i \in 1..N /\ series[i] >= now - Span
    BY <1>1
  <2>. DEFINE late == SubSeq(series, i, N)
  <2>5. /\ late \in Seq(Nat) /\ Len(late) = N - i + 1
        /\ \A k \in 1..(N - i + 1) : late[k] = series[i + k - 1]
    <3>1. i \in Int /\ N \in Int /\ i <= N /\ \A k \in i..N : series[k] \in Nat
      BY <1>1, <2>4
    <3>. QED
      BY <3>1, SubSeqProperties
  <2>. HIDE DEF late, N
  <2>6. ASSUME NEW k \in 1..(Len(late) - 1) PROVE late[k] < late[k + 1]
    <3>1. k \in 1..(N - i + 1) /\ k + 1 \in 1..(N - i + 1) /\ i + k - 1 \in 1..(N - 1) /\ i + (k + 1) - 1 = (i + k - 1) + 1
      BY <1>1, <2>4, <2>5
    <3>2. series[i + k - 1] < series[(i + k - 1) + 1]
      BY <3>1 DEF Ascending, N
    <3>. QED
      BY <2>5, <3>1, <3>2
  <2>7. ASSUME NEW k \in 1..Len(late) PROVE now - Span <= late[k] /\ late[k] <= high
    <3>1. k \in 1..(N - i + 1) /\ i + k - 1 \in 1..N /\ i + k - 1 \in i..N
      BY <1>1, <2>4, <2>5
    <3>2. late[k] = series[i + k - 1]
      BY <2>5, <3>1
    <3>3. series[i] <= series[i + k - 1]
      BY <2>4, <3>1, AscendingIs DEF N
    <3>4. series[i + k - 1] <= high /\ series[i + k - 1] \in Nat /\ series[i] \in Nat
      BY <1>1, <2>4, <3>1 DEF Within, N
    <3>. QED
      BY <2>4, <3>2, <3>3, <3>4, ChartsAssumption
  <2>. QED
    BY <2>3, <2>5, <2>6, <2>7 DEF Ascending, Within, late
<1>. QED
  BY <1>2, <1>3

\* A panel's samples are what was recorded in the last hour, counted from a time
\* after the refresh began; what is drawn was fetched while the refresh took place.
ClockInv == now \in Nat /\ startedAt \in Nat /\ startedAt <= now
HistoryInv == \A p \in DOMAIN Series : Ascending(recorded[p]) /\ Within(recorded[p], 0, now)
FetchedInv ==
    /\ DOMAIN points = DOMAIN Series
    /\ \A p \in DOMAIN Series : Ascending(points[p]) /\ Within(points[p], startedAt - Span, now)
DrawnInv ==
    /\ drawn.to \in Int /\ drawn.from \in Int
    /\ \A p \in DOMAIN Series :
          Ascending(drawn.points[p]) /\ Within(drawn.points[p], drawn.from - drawn.took, drawn.to)

ChartInv == ClockInv /\ HistoryInv /\ FetchedInv /\ DrawnInv

LEMMA NothingIs ==
    ASSUME NEW p \in DOMAIN Series, NEW low, NEW high
    PROVE  Ascending(Nothing[p]) /\ Within(Nothing[p], low, high)
<1>1. Nothing[p] = << >>
  BY DEF Nothing
<1>2. Ascending(<< >>) /\ Within(<< >>, low, high)
  BY DEF Ascending, Within
<1>. QED
  BY <1>1, <1>2

\* The newest sample is as late as any, and was recorded by now.
LEMMA NewestIs ==
    ASSUME NEW series, NEW low, NEW high \in Nat,
           \A p \in DOMAIN series : Ascending(series[p]) /\ Within(series[p], low, high)
    PROVE  /\ Newest(series) \in Nat /\ Newest(series) <= high
           /\ \A p \in DOMAIN series : \A i \in 1..Len(series[p]) : series[p][i] <= Newest(series)
<1>. DEFINE lasts == {Last(series[p]) : p \in {q \in DOMAIN series : series[q] # << >>}}
<1>1. ASSUME NEW p \in DOMAIN series
      PROVE  /\ series[p] \in Seq(Nat) /\ Len(series[p]) \in Nat
             /\ series[p] # << >> => Last(series[p]) \in Nat /\ Last(series[p]) <= high
             /\ \A i \in 1..Len(series[p]) : series[p] # << >> /\ series[p][i] <= Last(series[p])
  <2>. DEFINE s == series[p]
              n == Len(s)
  <2>1. s \in Seq(Nat) /\ n \in Nat /\ Last(s) = s[n] /\ Ascending(s) /\ Within(s, low, high)
    BY DEF Ascending, Last
  <2>2. ASSUME s # << >> PROVE Last(s) \in Nat /\ Last(s) <= high
    <3>1. n \in 1..n
      BY <2>1, <2>2
    <3>2. s[n] <= high
      BY <2>1, <3>1 DEF Within
    <3>. QED
      BY <2>1, <3>1, <3>2
  <2>3. ASSUME NEW i \in 1..n PROVE s # << >> /\ s[i] <= Last(s)
    <3>1. n \in i..n
      BY <2>1
    <3>. HIDE DEF s
    <3>2. s[i] <= s[n]
      BY <2>1, <3>1, AscendingIs
    <3>3. s # << >>
      BY <2>1
    <3>. QED
      BY <2>1, <3>2, <3>3
  <2>. QED
    BY <2>1, <2>2, <2>3
<1>2. CASE lasts = {}
  <2>1. Newest(series) = 0
    BY <1>2 DEF Newest
  <2>2. \A p \in DOMAIN series : series[p] = << >>
    BY <1>2
  <2>. QED
    BY <1>1, <2>1, <2>2
<1>3. CASE lasts # {}
  <2>1. \A t \in lasts : t \in Nat /\ t <= high
    BY <1>1
  <2>2. \E t \in lasts : \A u \in lasts : u <= t
    <3>. DEFINE back == {high - t : t \in lasts}
    <3>. HIDE DEF lasts
    <3>1. back \in SUBSET Nat /\ back # {}
      BY <1>3, <2>1
    <3>2. PICK b \in back : \A c \in back : b <= c
      <4>. HIDE DEF back
      <4>. QED
        BY <3>1, LeastNatural
    <3>3. PICK t \in lasts : b = high - t
      OBVIOUS
    <3>4. \A u \in lasts : high - u \in back
      OBVIOUS
    <3>5. ASSUME NEW u \in lasts PROVE u <= t
      <4>1. high - t <= high - u
        BY <3>2, <3>3, <3>4
      <4>2. t \in Nat /\ u \in Nat
        BY <2>1
      <4>. QED
        BY <4>1, <4>2
    <3>. QED
      BY <3>5
  <2>3. Newest(series) = CHOOSE t \in lasts : \A u \in lasts : u <= t
    BY <1>3 DEF Newest
  <2>. DEFINE top == Newest(series)
  <2>4. top \in lasts /\ \A u \in lasts : u <= top
    <3>. HIDE DEF lasts
    <3>. QED
      BY <2>2, <2>3
  <2>5. top \in Nat /\ top <= high
    BY <2>1, <2>4
  <2>6. ASSUME NEW p \in DOMAIN series, NEW i \in 1..Len(series[p]) PROVE series[p][i] <= top
    <3>1. series[p] # << >> /\ series[p][i] <= Last(series[p]) /\ series[p][i] \in Nat
      BY <1>1
    <3>2. Last(series[p]) \in lasts
      BY <3>1
    <3>3. Last(series[p]) <= top /\ Last(series[p]) \in Nat
      BY <2>1, <2>4, <3>2
    <3>. QED
      BY <2>5, <3>1, <3>3
  <2>. QED
    BY <2>5, <2>6
<1>. QED
  BY <1>2, <1>3

LEMMA InitChart == ChartInit \/ NoChart => ChartInv
<1>. SUFFICES ASSUME ChartInit \/ NoChart PROVE ChartInv
  OBVIOUS
<1>1. /\ now = Span /\ startedAt = Span /\ points = Nothing
      /\ drawn = [points |-> Nothing, from |-> 0, to |-> 0, took |-> 0]
  BY DEF ChartInit, NoChart
<1>2. ClockInv
  BY <1>1, ChartsAssumption DEF ClockInv
<1>3. FetchedInv
  <2>1. DOMAIN Nothing = DOMAIN Series
    BY DEF Nothing
  <2>. QED
    BY <1>1, <2>1, NothingIs DEF FetchedInv
<1>4. DrawnInv
  BY <1>1, NothingIs DEF DrawnInv
<1>5. ASSUME NEW p \in DOMAIN Series PROVE Ascending(recorded[p]) /\ Within(recorded[p], 0, now)
  <2>1. CASE NoChart
    BY <2>1, NothingIs DEF NoChart
  <2>2. CASE ChartInit
    <3>1. recorded[p] \in Histories
      BY <2>2 DEF ChartInit
    <3>2. PICK n \in 0..(Span + 1) : recorded[p] \in [1..n -> 0..Span]
      BY <3>1 DEF Histories
    <3>. DEFINE s == recorded[p]
    <3>3. \A i \in 1..(Len(s) - 1) : s[i] < s[i + 1]
      BY <3>1 DEF Histories
    <3>. HIDE DEF s
    <3>4. n \in Nat /\ s \in [1..n -> 0..Span] /\ s \in [1..n -> Nat]
      BY <3>2, ChartsAssumption DEF s
    <3>5. s \in Seq(Nat) /\ Len(s) = n
      BY <3>4
    <3>6. Within(s, 0, Span)
      BY <3>4, <3>5, ChartsAssumption DEF Within
    <3>. QED
      BY <1>1, <3>3, <3>5, <3>6 DEF Ascending, s
  <2>. QED
    BY <2>1, <2>2
<1>. QED
  BY <1>2, <1>3, <1>4, <1>5 DEF ChartInv, HistoryInv

LEMMA WithinMore ==
    ASSUME NEW series, Ascending(series), NEW low \in Int, NEW high \in Int, Within(series, low, high),
           NEW less \in Int, less <= low, NEW more \in Int, high <= more
    PROVE  Within(series, less, more)
<1>1. \A i \in 1..Len(series) : series[i] \in Nat
  BY DEF Ascending
<1>. QED
  BY <1>1 DEF Within

LEMMA RecordsOneMore ==
    ASSUME NEW series, Ascending(series), NEW high \in Nat, Within(series, 0, high)
    PROVE  Ascending(Append(series, high + 1)) /\ Within(Append(series, high + 1), 0, high + 1)
<1>. DEFINE s == Append(series, high + 1)
            n == Len(series)
<1>1. /\ series \in Seq(Nat) /\ n \in Nat /\ s \in Seq(Nat) /\ Len(s) = n + 1 /\ s[n + 1] = high + 1
      /\ \A i \in 1..n : s[i] = series[i]
  BY DEF Ascending
<1>2. \A i \in 1..n : series[i] \in Nat /\ series[i] <= high
  BY <1>1 DEF Within
<1>3. \A i \in 1..(n - 1) : series[i] < series[i + 1]
  BY DEF Ascending
<1>. HIDE DEF s, n
<1>4. ASSUME NEW i \in 1..(Len(s) - 1) PROVE s[i] < s[i + 1]
  <2>1. CASE i = n
    BY <1>1, <1>2, <2>1
  <2>2. CASE i # n
    <3>1. i \in 1..(n - 1) /\ i \in 1..n /\ i + 1 \in 1..n
      BY <1>1, <2>2
    <3>. QED
      BY <1>1, <1>3, <3>1
  <2>. QED
    BY <2>1, <2>2
<1>5. ASSUME NEW i \in 1..Len(s) PROVE 0 <= s[i] /\ s[i] <= high + 1
  <2>1. i = n + 1 \/ i \in 1..n
    BY <1>1
  <2>. QED
    BY <1>1, <1>2, <2>1
<1>. QED
  BY <1>1, <1>4, <1>5 DEF Ascending, Within, s

LEMMA StepChart == ChartInv /\ [ChartNext]_chartVars => ChartInv'
<1>. SUFFICES ASSUME ChartInv, [ChartNext]_chartVars PROVE ChartInv'
  OBVIOUS
<1>0. ClockInv /\ HistoryInv /\ FetchedInv /\ DrawnInv /\ Span \in Nat
  BY ChartsAssumption DEF ChartInv
<1>1. ASSUME NEW answer, ChartTick(answer) PROVE ChartInv'
  <2>1. now' = now + 1 /\ now \in Nat /\ startedAt \in Nat /\ UNCHANGED <<points, startedAt, drawn>>
    BY <1>0, <1>1 DEF ChartTick, ClockInv
  <2>2. ClockInv'
    BY <1>0, <2>1 DEF ClockInv
  <2>3. ASSUME NEW p \in DOMAIN Series PROVE Ascending(recorded'[p]) /\ Within(recorded'[p], 0, now')
    <3>1. recorded'[p] = IF p \in answer THEN Append(recorded[p], now + 1) ELSE recorded[p]
      BY <1>1 DEF ChartTick
    <3>2. Ascending(recorded[p]) /\ Within(recorded[p], 0, now)
      BY <1>0 DEF HistoryInv
    <3>3. Within(recorded[p], 0, now + 1)
      BY <2>1, <3>2, WithinMore
    <3>4. Ascending(Append(recorded[p], now + 1)) /\ Within(Append(recorded[p], now + 1), 0, now + 1)
      BY <2>1, <3>2, RecordsOneMore
    <3>. QED
      BY <2>1, <3>1, <3>2, <3>3, <3>4
  <2>4. ASSUME NEW p \in DOMAIN Series PROVE Ascending(points[p]) /\ Within(points[p], startedAt - Span, now + 1)
    <3>1. Ascending(points[p]) /\ Within(points[p], startedAt - Span, now)
      BY <1>0 DEF FetchedInv
    <3>2. startedAt - Span \in Int /\ startedAt - Span <= startedAt - Span /\ now \in Int /\ now + 1 \in Int
      BY <1>0, <2>1
    <3>. QED
      BY <3>1, <3>2, WithinMore
  <2>5. FetchedInv'
    BY <1>0, <2>1, <2>4 DEF FetchedInv
  <2>6. DrawnInv'
    BY <1>0, <2>1 DEF DrawnInv
  <2>. QED
    BY <2>2, <2>3, <2>5, <2>6 DEF ChartInv, HistoryInv
<1>2. ASSUME NEW answered, FetchPanel(answered) PROVE ChartInv'
  <2>1. UNCHANGED <<now, recorded, startedAt, drawn>> /\ now \in Nat /\ startedAt \in Nat /\ startedAt <= now
    BY <1>0, <1>2 DEF FetchPanel, ClockInv
  <2>. DEFINE q == fetching + 1
              sent == IF answered THEN LastHour(recorded[q]) ELSE << >>
  <2>2. points' = [points EXCEPT ![q] = sent]
    BY <1>2 DEF FetchPanel
  <2>3. ASSUME NEW p \in DOMAIN Series
        PROVE  Ascending(points'[p]) /\ Within(points'[p], startedAt - Span, now)
    <3>1. Ascending(points[p]) /\ Within(points[p], startedAt - Span, now) /\ p \in DOMAIN points
      BY <1>0 DEF FetchedInv
    <3>2. Ascending(<< >>) /\ Within(<< >>, startedAt - Span, now)
      BY DEF Ascending, Within
    <3>3. Ascending(recorded[p]) /\ Within(recorded[p], 0, now)
      BY <1>0 DEF HistoryInv
    <3>4. Ascending(LastHour(recorded[p])) /\ Within(LastHour(recorded[p]), now - Span, now)
      BY <2>1, <3>3, LastHourIs
    <3>5. Within(LastHour(recorded[p]), startedAt - Span, now)
      <4>1. now - Span \in Int /\ startedAt - Span \in Int /\ startedAt - Span <= now - Span /\ now \in Int
            /\ now <= now
        BY <1>0, <2>1
      <4>. QED
        BY <3>4, <4>1, WithinMore
    <3>6. points'[p] = IF p = q THEN sent ELSE points[p]
      BY <2>2, <3>1
    <3>. QED
      BY <3>1, <3>2, <3>4, <3>5, <3>6
  <2>4. DOMAIN points' = DOMAIN points
    BY <2>2
  <2>5. FetchedInv'
    BY <1>0, <2>1, <2>3, <2>4 DEF FetchedInv
  <2>6. ClockInv' /\ HistoryInv' /\ DrawnInv'
    BY <1>0, <2>1 DEF ClockInv, HistoryInv, DrawnInv
  <2>. QED
    BY <2>5, <2>6 DEF ChartInv
<1>3. ASSUME DrawPanels PROVE ChartInv'
  <2>1. UNCHANGED <<now, recorded, points, startedAt>> /\ now \in Nat /\ startedAt \in Nat /\ startedAt <= now
    BY <1>0, <1>3 DEF DrawPanels, ClockInv
  <2>. DEFINE top == Newest(points)
  <2>2. /\ drawn'.points = points /\ drawn'.to = top /\ drawn'.from = top - Span
        /\ drawn'.took = now - startedAt
    BY <1>3 DEF DrawPanels
  <2>3. /\ top \in Nat /\ top <= now
        /\ \A p \in DOMAIN Series : \A i \in 1..Len(points[p]) : points[p][i] <= top
    <3>1. \A p \in DOMAIN points : Ascending(points[p]) /\ Within(points[p], startedAt - Span, now)
      BY <1>0 DEF FetchedInv
    <3>2. DOMAIN points = DOMAIN Series
      BY <1>0 DEF FetchedInv
    <3>. QED
      BY <2>1, <3>1, <3>2, NewestIs
  <2>. HIDE DEF top
  <2>4. ASSUME NEW p \in DOMAIN Series
        PROVE  Ascending(points[p]) /\ Within(points[p], (top - Span) - (now - startedAt), top)
    <3>1. Ascending(points[p]) /\ Within(points[p], startedAt - Span, now)
      BY <1>0 DEF FetchedInv
    <3>2. (top - Span) - (now - startedAt) <= startedAt - Span
      BY <1>0, <2>1, <2>3
    <3>3. ASSUME NEW i \in 1..Len(points[p])
          PROVE  (top - Span) - (now - startedAt) <= points[p][i] /\ points[p][i] <= top
      <4>1. points[p][i] \in Nat /\ startedAt - Span <= points[p][i] /\ points[p][i] <= top
        BY <2>3, <3>1 DEF Ascending, Within
      <4>. QED
        BY <1>0, <2>1, <2>3, <3>2, <4>1
    <3>. QED
      BY <3>1, <3>3 DEF Within
  <2>5. DrawnInv'
    <3>1. drawn'.to \in Int /\ drawn'.from \in Int
      BY <1>0, <2>2, <2>3
    <3>. QED
      BY <2>2, <2>4, <3>1 DEF DrawnInv
  <2>6. ClockInv' /\ HistoryInv' /\ FetchedInv'
    BY <1>0, <2>1 DEF ClockInv, HistoryInv, FetchedInv
  <2>. QED
    BY <2>5, <2>6 DEF ChartInv
<1>4. ASSUME UNCHANGED chartVars PROVE ChartInv'
  BY <1>4, <1>0 DEF chartVars, ChartInv, ClockInv, HistoryInv, FetchedInv, DrawnInv
<1>. QED
  BY <1>1, <1>2, <1>3, <1>4 DEF ChartNext

LEMMA DrawnIsRecorded == ChartInv => DrawnAsRecorded
<1>. SUFFICES ASSUME DrawnInv PROVE DrawnAsRecorded
  BY DEF ChartInv
<1>1. ASSUME NEW p \in DOMAIN Series
      PROVE  MarksAreSamples(drawn.points[p]) /\ TimesAreTrue(drawn.points[p])
  <2>. DEFINE s == drawn.points[p]
  <2>1. Ascending(s) /\ Within(s, drawn.from - drawn.took, drawn.to)
    BY DEF DrawnInv
  <2>. HIDE DEF s
  <2>2. MarksAreSamples(s)
    BY <2>1, MarksAre
  <2>3. ASSUME NEW t \in Range(s)
        PROVE  /\ t <= drawn.to /\ drawn.from - drawn.took <= t
               /\ drawn.from <= t => X(t) = t - drawn.from
    <3>1. PICK i \in 1..Len(s) : t = s[i]
      BY <2>1 DEF Range, Ascending
    <3>2. t \in Nat /\ t <= drawn.to /\ drawn.from - drawn.took <= t
      BY <2>1, <3>1 DEF Ascending, Within
    <3>3. drawn.to \in Int /\ drawn.from \in Int
      BY DEF DrawnInv
    <3>. QED
      BY <3>2, <3>3 DEF X
  <2>. QED
    BY <2>2, <2>3 DEF s, TimesAreTrue
<1>. QED
  BY <1>1, DrawnUnfolds

-----------------------------------------------------------------------------
(* The pieces of connection strings.                                       *)

Literals == {"=", "/", ":", "@", ",", "?", "&", "[", "]", "://", "'", "quote", "host", "HOST", "hostaddr",
          "password", "port", "ssh", "SSH", "dbname", "10.0.0.7", "p", "q", "u", "postgres",
          "postgresql", "options", "db", "DB", "2", "5432", "(via", ")", "unknown"}
Pieces == STRING \cup Literals \cup {Blank}

Free(s, piece) == piece \notin Range(s)

LEMMA BlankIs == Blank \in Pieces /\ Blank \notin Literals
  BY Zenon DEF Blank, Literals, Pieces

LEMMA WordsAre == Literals \subseteq Pieces
  BY Zenon DEF Pieces

-----------------------------------------------------------------------------
(* Marks in sequences.                                                     *)

\* The first and the last of some places, known from their bounds.
LEMMA FirstPlaceIs ==
    ASSUME NEW T \in SUBSET Int, NEW i \in T, \A j \in T : i <= j
    PROVE  FirstOf(T) = i
<1>1. FirstOf(T) \in T /\ \A j \in T : FirstOf(T) <= j
  BY DEF FirstOf
<1>2. PICK k \in T : k = FirstOf(T)
  BY <1>1
<1>3. k \in Int /\ i \in Int /\ k <= i /\ i <= k
  BY <1>1, <1>2
<1>. QED
  BY <1>2, <1>3

LEMMA LastPlaceIs ==
    ASSUME NEW T \in SUBSET Int, NEW i \in T, \A j \in T : j <= i
    PROVE  LastOf(T) = i
<1>1. LastOf(T) \in T /\ \A j \in T : j <= LastOf(T)
  BY DEF LastOf
<1>2. PICK k \in T : k = LastOf(T)
  BY <1>1
<1>3. k \in Int /\ i \in Int /\ k <= i /\ i <= k
  BY <1>1, <1>2
<1>. QED
  BY <1>2, <1>3

\* What a piece has to do with the sequences it is not in.
LEMMA FreeIs ==
    ASSUME NEW a \in Seq(Pieces), NEW x
    PROVE  Free(a, x) <=> \A i \in 1..Len(a) : a[i] # x
  BY DEF Free, Range

LEMMA FreeConcat ==
    ASSUME NEW a \in Seq(Pieces), NEW b \in Seq(Pieces), NEW x
    PROVE  a \o b \in Seq(Pieces) /\ (Free(a \o b, x) <=> Free(a, x) /\ Free(b, x))
<1>1. /\ a \o b \in Seq(Pieces) /\ Len(a \o b) = Len(a) + Len(b)
      /\ \A i \in 1..Len(a) : (a \o b)[i] = a[i]
      /\ \A i \in 1..Len(b) : (a \o b)[Len(a) + i] = b[i]
  OBVIOUS
<1>. DEFINE s == a \o b
<1>2. s \in Seq(Pieces)
  BY <1>1
<1>. HIDE DEF s
<1>3. ASSUME Free(s, x)
      PROVE  Free(a, x) /\ Free(b, x)
  <2>1. \A i \in 1..Len(s) : s[i] # x
    BY <1>2, <1>3, FreeIs
  <2>2. \A i \in 1..Len(a) : i \in 1..Len(s) /\ s[i] = a[i]
    BY <1>1 DEF s
  <2>3. \A i \in 1..Len(b) : Len(a) + i \in 1..Len(s) /\ s[Len(a) + i] = b[i]
    BY <1>1 DEF s
  <2>4. \A i \in 1..Len(a) : a[i] # x
    BY <2>1, <2>2
  <2>5. \A i \in 1..Len(b) : b[i] # x
    BY <2>1, <2>3
  <2>. QED
    BY <2>4, <2>5, FreeIs
<1>4. ASSUME Free(a, x), Free(b, x)
      PROVE  Free(s, x)
  <2>1. (\A i \in 1..Len(a) : a[i] # x) /\ (\A i \in 1..Len(b) : b[i] # x)
    BY <1>4, FreeIs
  <2>2. ASSUME NEW i \in 1..Len(s)
        PROVE  s[i] # x
    <3>1. CASE i <= Len(a)
      <4>1. i \in 1..Len(a) /\ s[i] = a[i]
        BY <1>1, <2>2, <3>1 DEF s
      <4>. QED
        BY <2>1, <4>1
    <3>2. CASE i > Len(a)
      <4>1. i - Len(a) \in 1..Len(b) /\ Len(a) + (i - Len(a)) = i
        BY <1>1, <2>2, <3>2 DEF s
      <4>2. s[i] = b[i - Len(a)]
        BY <1>1, <4>1 DEF s
      <4>. QED
        BY <2>1, <4>1, <4>2
    <3>. QED
      BY <3>1, <3>2, <2>2
  <2>. QED
    BY <1>2, <2>2, FreeIs
<1>. QED
  BY <1>1, <1>3, <1>4 DEF s

\* A sequence with a mark in it: what stands where.
LEMMA Around ==
    ASSUME NEW a \in Seq(Pieces), NEW mark \in Pieces, NEW b \in Seq(Pieces)
    PROVE  LET s == a \o <<mark>> \o b IN
           /\ s \in Seq(Pieces) /\ Len(s) = Len(a) + 1 + Len(b)
           /\ \A i \in 1..Len(a) : s[i] = a[i]
           /\ s[Len(a) + 1] = mark
           /\ \A i \in 1..Len(b) : s[Len(a) + 1 + i] = b[i]
           /\ SubSeq(s, 1, Len(a)) = a
           /\ SubSeq(s, Len(a) + 2, Len(s)) = b
           /\ mark \in Range(s)
<1>. DEFINE s == a \o <<mark>> \o b
<1>1. s \in Seq(Pieces) /\ Len(s) = Len(a) + 1 + Len(b)
  OBVIOUS
<1>2. /\ \A i \in 1..Len(a) : s[i] = a[i]
      /\ s[Len(a) + 1] = mark
      /\ \A i \in 1..Len(b) : s[Len(a) + 1 + i] = b[i]
  OBVIOUS
<1>3. mark \in Range(s)
  BY <1>1, <1>2 DEF Range
<1>. HIDE DEF s
<1>4. SubSeq(s, 1, Len(a)) = a
  BY <1>1, <1>2
<1>5. SubSeq(s, Len(a) + 2, Len(s)) = b
  BY <1>1, <1>2
<1>. QED
  BY <1>1, <1>2, <1>3, <1>4, <1>5 DEF s

\* Cut at the first mark, when there is none before it, and at the last one,
\* when there is none behind it.
LEMMA SplitIs ==
    ASSUME NEW a \in Seq(Pieces), NEW mark \in Pieces, NEW b \in Seq(Pieces)
    PROVE  LET cut == [found |-> TRUE, left |-> a, right |-> b] IN
           /\ Free(a, mark) => SplitOnce(a \o <<mark>> \o b, mark) = cut
           /\ Free(b, mark) => RSplitOnce(a \o <<mark>> \o b, mark) = cut
<1>. DEFINE s == a \o <<mark>> \o b
            T == {i \in DOMAIN s : s[i] = mark}
            cut == [found |-> TRUE, left |-> a, right |-> b]
<1>1. /\ s \in Seq(Pieces) /\ Len(s) = Len(a) + 1 + Len(b)
      /\ \A i \in 1..Len(a) : s[i] = a[i]
      /\ s[Len(a) + 1] = mark
      /\ \A i \in 1..Len(b) : s[Len(a) + 1 + i] = b[i]
      /\ SubSeq(s, 1, Len(a)) = a
      /\ SubSeq(s, Len(a) + 2, Len(s)) = b
      /\ mark \in Range(s)
  BY Around
<1>. HIDE DEF s
<1>2. T \in SUBSET Int /\ Len(a) + 1 \in T /\ T \subseteq 1..Len(s)
  BY <1>1
<1>3. ASSUME Free(a, mark)
      PROVE  SplitOnce(s, mark) = cut
  <2>1. \A i \in 1..Len(a) : a[i] # mark
    BY <1>3 DEF Range, Free
  <2>2. \A j \in T : Len(a) + 1 <= j
    BY <1>1, <2>1
  <2>3. FirstOf(T) = Len(a) + 1
    BY <1>2, <2>2, FirstPlaceIs
  <2>9. SplitOnce(s, mark) = SplitAt(s, FirstOf(T))
    BY <1>1 DEF SplitOnce
  <2>. HIDE DEF T
  <2>10. (Len(a) + 1) - 1 = Len(a) /\ (Len(a) + 1) + 1 = Len(a) + 2
    BY <1>1
  <2>. QED
    BY <1>1, <2>3, <2>9, <2>10 DEF SplitAt
<1>4. ASSUME Free(b, mark)
      PROVE  RSplitOnce(s, mark) = cut
  <2>1. \A i \in 1..Len(b) : b[i] # mark
    BY <1>4 DEF Range, Free
  <2>2. ASSUME NEW j \in T, j > Len(a) + 1
        PROVE  FALSE
    <3>1. j - (Len(a) + 1) \in 1..Len(b) /\ j = Len(a) + 1 + (j - (Len(a) + 1))
      BY <1>1, <1>2, <2>2
    <3>. QED
      BY <1>1, <2>1, <2>2, <3>1
  <2>3. \A j \in T : j <= Len(a) + 1
    BY <1>1, <1>2, <2>2
  <2>4. LastOf(T) = Len(a) + 1
    BY <1>2, <2>3, LastPlaceIs
  <2>9. RSplitOnce(s, mark) = SplitAt(s, LastOf(T))
    BY <1>1 DEF RSplitOnce
  <2>. HIDE DEF T
  <2>10. (Len(a) + 1) - 1 = Len(a) /\ (Len(a) + 1) + 1 = Len(a) + 2
    BY <1>1
  <2>. QED
    BY <1>1, <2>4, <2>9, <2>10 DEF SplitAt
<1>. QED
  BY <1>3, <1>4 DEF s

LEMMA NoSplit ==
    ASSUME NEW s, NEW mark, Free(s, mark)
    PROVE  SplitOnce(s, mark) = NotFound(s) /\ RSplitOnce(s, mark) = NotFound(s)
  BY DEF SplitOnce, RSplitOnce, Free

\* What is trimmed off: marks on both sides, and nothing else.
LEMMA TrimMatchesIs ==
    ASSUME NEW a \in Seq(Pieces), NEW s \in Seq(Pieces), NEW b \in Seq(Pieces), NEW mark \in Pieces,
           \A i \in 1..Len(a) : a[i] = mark, \A i \in 1..Len(b) : b[i] = mark,
           s # << >>, s[1] # mark, s[Len(s)] # mark
    PROVE  TrimMatches(a \o s \o b, mark) = s
<1>. DEFINE t == a \o s \o b
            kept == {i \in DOMAIN t : t[i] # mark}
            m == Len(a) + 1
            n == Len(a) + Len(s)
<1>1. /\ t \in Seq(Pieces) /\ Len(t) = Len(a) + Len(s) + Len(b) /\ Len(s) >= 1
      /\ \A i \in 1..Len(a) : t[i] = a[i]
      /\ \A i \in 1..Len(s) : t[Len(a) + i] = s[i]
      /\ \A i \in 1..Len(b) : t[Len(a) + Len(s) + i] = b[i]
  OBVIOUS
<1>2. /\ \A i \in 1..Len(a) : a[i] = mark
      /\ \A i \in 1..Len(b) : b[i] = mark
  OBVIOUS
<1>. HIDE DEF t
<1>3. kept \in SUBSET Int /\ kept \subseteq 1..Len(t) /\ m \in kept /\ n \in kept
  <2>1. 1 \in 1..Len(s) /\ Len(s) \in 1..Len(s)
    BY <1>1
  <2>2. t[m] = s[1] /\ t[n] = s[Len(s)]
    <3>1. t[Len(a) + 1] = s[1] /\ t[Len(a) + Len(s)] = s[Len(s)]
      BY <1>1, <2>1
    <3>. QED
      BY <3>1
  <2>3. m \in 1..Len(t) /\ n \in 1..Len(t)
    BY <1>1
  <2>. QED
    BY <1>1, <2>2, <2>3
<1>11. ASSUME NEW j \in kept, j < m
       PROVE  FALSE
  <2>1. j \in 1..Len(a)
    BY <1>1, <1>3, <1>11
  <2>. QED
    BY <1>1, <1>2, <1>11, <2>1
<1>4. \A j \in kept : m <= j
  BY <1>1, <1>3, <1>11
<1>5. ASSUME NEW j \in kept, j > n
      PROVE  FALSE
  <2>1. j - n \in 1..Len(b) /\ j = n + (j - n)
    BY <1>1, <1>3, <1>5
  <2>. QED
    BY <1>1, <1>2, <1>5, <2>1
<1>6. \A j \in kept : j <= n
  BY <1>1, <1>3, <1>5
<1>7. FirstOf(kept) = m /\ LastOf(kept) = n
  BY <1>3, <1>4, <1>6, FirstPlaceIs, LastPlaceIs
<1>8. m \in Int /\ n \in Int /\ m \in 1..Len(t) /\ n \in 1..Len(t) /\ n - m + 1 = Len(s)
  BY <1>1
<1>9. SubSeq(t, m, n) = s
  <2>0. \A i \in m..n : t[i] \in Pieces
    BY <1>1, <1>8
  <2>3. m <= n
    BY <1>1
  <2>. HIDE DEF m, n
  <2>4. /\ SubSeq(t, m, n) \in Seq(Pieces)
        /\ Len(SubSeq(t, m, n)) = IF m <= n THEN n - m + 1 ELSE 0
        /\ \A i \in 1..n - m + 1 : SubSeq(t, m, n)[i] = t[m + i - 1]
    BY <1>8, <2>0, SubSeqProperties
  <2>1. SubSeq(t, m, n) \in Seq(Pieces) /\ Len(SubSeq(t, m, n)) = Len(s)
    BY <1>8, <2>3, <2>4
  <2>2. \A i \in 1..Len(s) : SubSeq(t, m, n)[i] = s[i]
    <3>1. \A i \in 1..Len(s) : m + i - 1 = Len(a) + i
      BY <1>1 DEF m
    <3>. QED
      BY <1>1, <1>8, <2>4, <3>1
  <2>. QED
    BY <2>1, <2>2, <2>4, SeqEqual
<1>10. TrimMatches(t, mark) = SubSeq(t, FirstOf(kept), LastOf(kept))
  BY <1>3 DEF TrimMatches
<1>. QED
  BY <1>7, <1>9, <1>10 DEF t

LEMMA NothingTrimmed ==
    ASSUME NEW s \in Seq(Pieces), NEW mark \in Pieces, Free(s, mark)
    PROVE  TrimMatches(s, mark) = s
<1>1. CASE s = << >>
  BY <1>1 DEF TrimMatches
<1>2. CASE s # << >>
  <2>1. s[1] # mark /\ s[Len(s)] # mark
    BY <1>2 DEF Range, Free
  <2>. DEFINE none == << >>
  <2>2. none \in Seq(Pieces) /\ \A i \in 1..Len(none) : none[i] = mark
    OBVIOUS
  <2>3. none \o s \o none = s
    OBVIOUS
  <2>. HIDE DEF none
  <2>4. TrimMatches(none \o s \o none, mark) = s
    BY <1>2, <2>1, <2>2, TrimMatchesIs
  <2>. QED
    BY <2>3, <2>4, Zenon
<1>. QED
  BY <1>1, <1>2

\* The part of a split that begins at a place.
LEMMA PartIs ==
    ASSUME NEW s, NEW mark
    PROVE  Range(Split(s, mark)) =
               {SplitOnce(SubSeq(s, i, Len(s)), mark).left :
                   i \in {i \in 1..Len(s) + 1 : i = 1 \/ s[i - 1] = mark}}
  BY DEF Split, Range

LEMMA OnePart ==
    ASSUME NEW s \in Seq(Pieces), NEW mark, Free(s, mark)
    PROVE  Range(Split(s, mark)) = {s}
<1>. DEFINE starts == {i \in 1..Len(s) + 1 : i = 1 \/ s[i - 1] = mark}
<1>1. \A i \in 1..Len(s) : s[i] # mark
  BY DEF Range, Free
<1>2. ASSUME NEW i \in starts
      PROVE  i = 1
  <2>1. i = 1 \/ i - 1 \in 1..Len(s)
    BY <1>2
  <2>. QED
    BY <1>1, <1>2, <2>1
<1>3. 1 \in starts
  OBVIOUS
<1>4. starts = {1}
  BY <1>2, <1>3
<1>5. SubSeq(s, 1, Len(s)) = s
  OBVIOUS
<1>6. SplitOnce(s, mark).left = s
  BY NoSplit DEF NotFound
<1>. DEFINE Part(i) == SplitOnce(SubSeq(s, i, Len(s)), mark).left
<1>7. Part(1) = s
  BY <1>5, <1>6
<1>8. Range(Split(s, mark)) = {Part(i) : i \in starts}
  BY PartIs
<1>. HIDE DEF Part, starts
<1>. QED
  BY <1>4, <1>7, <1>8

\* Up to the first mark, and the parts of the rest.
LEMMA PartsAre ==
    ASSUME NEW a \in Seq(Pieces), NEW mark \in Pieces, Free(a, mark), NEW b \in Seq(Pieces)
    PROVE  Range(Split(a \o <<mark>> \o b, mark)) = {a} \cup Range(Split(b, mark))
<1>. DEFINE s == a \o <<mark>> \o b
            m == Len(a) + 1
            starts == {i \in 1..Len(s) + 1 : i = 1 \/ s[i - 1] = mark}
            further == {i \in 1..Len(b) + 1 : i = 1 \/ b[i - 1] = mark}
            Part(i) == SplitOnce(SubSeq(s, i, Len(s)), mark).left
            Further(i) == SplitOnce(SubSeq(b, i, Len(b)), mark).left
<1>1. /\ s \in Seq(Pieces) /\ Len(s) = m + Len(b) /\ m \in Nat
      /\ \A i \in 1..Len(a) : s[i] = a[i]
      /\ s[m] = mark
      /\ \A i \in 1..Len(b) : s[m + i] = b[i]
  BY Around
<1>2. \A i \in 1..Len(a) : a[i] # mark
  BY DEF Range, Free
<1>3. Part(1) = a
  <2>1. SplitOnce(s, mark) = [found |-> TRUE, left |-> a, right |-> b]
    BY SplitIs
  <2>2. SubSeq(s, 1, Len(s)) = s
    BY <1>1
  <2>3. Part(1) = SplitOnce(s, mark).left
    BY <2>2
  <2>. HIDE DEF Part, s
  <2>. QED
    BY <2>1, <2>3
<1>. HIDE DEF s
<1>4. \A i \in further : SubSeq(s, m + i, Len(s)) = SubSeq(b, i, Len(b))
  <2>. SUFFICES ASSUME NEW i \in further
                PROVE  SubSeq(s, m + i, Len(s)) = SubSeq(b, i, Len(b))
    OBVIOUS
  <2>1. i \in Int /\ 1 <= i /\ i <= Len(b) + 1 /\ Len(b) \in Nat
    OBVIOUS
  <2>2. \A j \in i..Len(b) : j \in 1..Len(b) /\ b[j] \in Pieces
    BY <2>1
  <2>3. /\ SubSeq(b, i, Len(b)) \in Seq(Pieces)
        /\ Len(SubSeq(b, i, Len(b))) = IF i <= Len(b) THEN Len(b) - i + 1 ELSE 0
        /\ \A j \in 1..Len(b) - i + 1 : SubSeq(b, i, Len(b))[j] = b[i + j - 1]
    BY <2>1, <2>2, SubSeqProperties
  <2>4. m + i \in Int /\ Len(s) \in Int /\ \A j \in m + i..Len(s) : j \in 1..Len(s) /\ s[j] \in Pieces
    BY <1>1, <2>1
  <2>. HIDE DEF m
  <2>5. /\ SubSeq(s, m + i, Len(s)) \in Seq(Pieces)
        /\ Len(SubSeq(s, m + i, Len(s))) = IF m + i <= Len(s) THEN Len(s) - (m + i) + 1 ELSE 0
        /\ \A j \in 1..Len(s) - (m + i) + 1 : SubSeq(s, m + i, Len(s))[j] = s[m + i + j - 1]
    BY <2>4, SubSeqProperties
  <2>6. Len(s) - (m + i) + 1 = Len(b) - i + 1 /\ (m + i <= Len(s) <=> i <= Len(b))
    BY <1>1, <2>1
  <2>7. Len(SubSeq(s, m + i, Len(s))) = Len(SubSeq(b, i, Len(b)))
    BY <2>3, <2>5, <2>6
  <2>8. ASSUME NEW j \in 1..Len(SubSeq(b, i, Len(b)))
        PROVE  SubSeq(s, m + i, Len(s))[j] = SubSeq(b, i, Len(b))[j]
    <3>1. j \in 1..Len(b) - i + 1 /\ i + j - 1 \in 1..Len(b)
      BY <2>1, <2>3
    <3>2. m + i + j - 1 = m + (i + j - 1)
      BY <1>1, <2>1, <3>1
    <3>3. s[m + (i + j - 1)] = b[i + j - 1]
      BY <1>1, <3>1
    <3>. QED
      BY <2>3, <2>5, <2>6, <3>1, <3>2, <3>3
  <2>. QED
    BY <2>3, <2>5, <2>7, <2>8, SeqEqual
<1>5. ASSUME NEW i \in starts
      PROVE  i = 1 \/ \E j \in further : i = m + j
  <2>1. CASE i <= m /\ i # 1
    <3>1. i - 1 \in 1..Len(a)
      BY <2>1, <1>1
    <3>. QED
      BY <1>1, <1>2, <2>1, <1>5, <3>1
  <2>2. CASE i > m
    <3>1. i - m \in 1..Len(b) + 1 /\ i = m + (i - m)
      BY <1>1, <2>2
    <3>2. CASE i - m = 1
      BY <3>1, <3>2
    <3>3. CASE i - m # 1
      <4>1. i - m - 1 \in 1..Len(b) /\ i - 1 = m + (i - m - 1)
        BY <1>1, <3>1, <3>3
      <4>2. b[i - m - 1] = s[i - 1]
        BY <1>1, <4>1
      <4>3. i # 1 /\ s[i - 1] = mark
        BY <1>1, <2>2, <1>5
      <4>4. i - m \in further
        BY <3>1, <4>2, <4>3
      <4>. QED
        BY <3>1, <4>4
    <3>. QED
      BY <3>2, <3>3
  <2>. QED
    BY <2>1, <2>2, <1>1, <1>5
<1>6. ASSUME NEW j \in further
      PROVE  m + j \in starts
  <2>1. m + j \in 1..Len(s) + 1
    BY <1>1
  <2>2. CASE j = 1
    BY <1>1, <2>1, <2>2
  <2>3. CASE j # 1
    <3>1. j - 1 \in 1..Len(b) /\ b[j - 1] = mark /\ m + j - 1 = m + (j - 1)
      BY <1>1, <2>3, <1>6
    <3>2. s[m + (j - 1)] = b[j - 1]
      BY <1>1, <3>1
    <3>3. s[m + j - 1] = mark
      BY <3>1, <3>2
    <3>. QED
      BY <2>1, <3>3
  <2>. QED
    BY <2>2, <2>3
<1>7. 1 \in starts
  BY <1>1
<1>8. \A j \in further : Part(m + j) = Further(j)
  BY <1>4
<1>. HIDE DEF Part, Further, starts, further, m
<1>9. {Part(i) : i \in starts} = {a} \cup {Further(j) : j \in further}
  BY <1>3, <1>5, <1>6, <1>7, <1>8
<1>10. Range(Split(s, mark)) = {Part(i) : i \in starts}
  BY PartIs DEF Part, starts
<1>11. Range(Split(b, mark)) = {Further(j) : j \in further}
  BY PartIs DEF Further, further
<1>. QED
  BY <1>9, <1>10, <1>11 DEF s

-----------------------------------------------------------------------------
(* Values told by tokens.                                                  *)

\* Every part with one of the keys tells the value, or none, and one does.
ToldBy(parts, keys, value) ==
    /\ \A p \in parts : KeyOf(p) \in keys => ValueOf(p) \in {value, << >>}
    /\ value = << >> \/ \E p \in parts : KeyOf(p) \in keys /\ ValueOf(p) = value

LEMMA EndPlaces ==
    ASSUME NEW n \in Nat, NEW T \in SUBSET (1..n), T # {}
    PROVE  FirstOf(T) \in T /\ LastOf(T) \in T
<1>1. PICK i \in T : \A j \in T : i <= j
  <2>1. T \in SUBSET Nat
    OBVIOUS
  <2>. QED
    BY <2>1, LeastNatural
<1>2. PICK k \in T : \A j \in T : j <= k
  BY Greatest
<1>3. T \in SUBSET Int
  OBVIOUS
<1>. QED
  BY <1>1, <1>2, <1>3, FirstPlaceIs, LastPlaceIs

LEMMA ValueIs ==
    ASSUME NEW s \in Seq(Pieces), NEW mark, NEW keys, NEW value,
           ToldBy(Range(Split(s, mark)), keys, value)
    PROVE  FirstValue(Split(s, mark), keys) = value /\ LastValue(Split(s, mark), keys) = value
<1>. DEFINE tokens == Split(s, mark)
            T == PlacesOf(tokens, keys)
<1>1. DOMAIN tokens \in SUBSET (1..Len(s) + 1) /\ Len(s) + 1 \in Nat
  BY DEF Split
<1>2. ToldBy(Range(tokens), keys, value)
  OBVIOUS
<1>. HIDE DEF tokens
<1>3. \A i \in T : /\ i \in DOMAIN tokens /\ tokens[i] \in Range(tokens)
                   /\ KeyOf(tokens[i]) \in keys /\ ValueOf(tokens[i]) # << >>
  BY DEF PlacesOf, Range
<1>4. \A i \in T : ValueOf(tokens[i]) = value
  BY <1>2, <1>3 DEF ToldBy
<1>5. CASE T = {}
  <2>1. ASSUME NEW p \in Range(tokens), KeyOf(p) \in keys
        PROVE  ValueOf(p) = << >>
    <3>1. PICK i \in DOMAIN tokens : p = tokens[i]
      BY <2>1 DEF Range
    <3>. QED
      BY <1>5, <2>1, <3>1 DEF PlacesOf
  <2>2. value = << >>
    BY <1>2, <2>1 DEF ToldBy
  <2>. QED
    BY <1>5, <2>2 DEF FirstValue, LastValue, tokens
<1>6. CASE T # {}
  <2>1. T \in SUBSET (1..Len(s) + 1)
    BY <1>1, <1>3
  <2>2. FirstOf(T) \in T /\ LastOf(T) \in T
    BY <1>1, <1>6, <2>1, EndPlaces
  <2>3. ValueOf(tokens[FirstOf(T)]) = value /\ ValueOf(tokens[LastOf(T)]) = value
    BY <1>4, <2>2
  <2>. QED
    BY <1>6, <2>3 DEF FirstValue, LastValue, tokens
<1>. QED
  BY <1>5, <1>6

-----------------------------------------------------------------------------
(* A word, or two, and what follows.                                       *)

LEMMA FrontIs ==
    ASSUME NEW p \in Pieces, NEW b \in Seq(Pieces), NEW c \in Seq(Pieces)
    PROVE  /\ <<p>> \o b \in Seq(Pieces) /\ Len(<<p>> \o b) = Len(b) + 1 /\ (<<p>> \o b)[1] = p
           /\ <<p>> \o b # << >> /\ Tail(<<p>> \o b) = b
           /\ \A i \in 1..Len(b) : (<<p>> \o b)[1 + i] = b[i]
           /\ (<<p>> \o b) \o c = <<p>> \o (b \o c)
<1>1. <<p>> \o b \in Seq(Pieces) /\ Len(<<p>> \o b) = Len(b) + 1 /\ (<<p>> \o b)[1] = p
  OBVIOUS
<1>2. \A i \in 1..Len(b) : (<<p>> \o b)[1 + i] = b[i]
  OBVIOUS
<1>3. Tail(<<p>> \o b) = b
  OBVIOUS
<1>4. (<<p>> \o b) \o c = <<p>> \o (b \o c)
  OBVIOUS
<1>5. <<p>> \o b # << >>
  BY <1>1
<1>. QED
  BY <1>1, <1>2, <1>3, <1>4, <1>5

LEMMA FreeFront ==
    ASSUME NEW p \in Pieces, NEW b \in Seq(Pieces), NEW x
    PROVE  /\ Free(<<p>>, x) <=> p # x
           /\ Free(<<p>> \o b, x) <=> p # x /\ Free(b, x)
<1>. DEFINE a == <<p>>
<1>1. a \in Seq(Pieces) /\ (Free(a, x) <=> p # x)
  BY DEF Free, Range
<1>. HIDE DEF a
<1>2. Free(a \o b, x) <=> Free(a, x) /\ Free(b, x)
  BY <1>1, FreeConcat
<1>. QED
  BY <1>1, <1>2 DEF a

\* Cut behind a single piece.
LEMMA CutBehind ==
    ASSUME NEW p \in Pieces, NEW mark \in Pieces, p # mark, NEW b \in Seq(Pieces)
    PROVE  SplitOnce(<<p>> \o <<mark>> \o b, mark) = [found |-> TRUE, left |-> <<p>>, right |-> b]
<1>. DEFINE a == <<p>>
<1>1. a \in Seq(Pieces) /\ Free(a, mark)
  BY DEF Free, Range
<1>. HIDE DEF a
<1>2. SplitOnce(a \o <<mark>> \o b, mark) = [found |-> TRUE, left |-> a, right |-> b]
  BY <1>1, SplitIs
<1>. QED
  BY <1>2 DEF a

LEMMA TwoPieces ==
    ASSUME NEW p \in Pieces, NEW q \in Pieces, NEW b \in Seq(Pieces)
    PROVE  /\ <<p, q>> \o b = <<p>> \o (<<q>> \o b) /\ <<p, q>> \o b = <<p>> \o <<q>> \o b
           /\ <<p, q>> \o b \in Seq(Pieces) /\ Len(<<p, q>> \o b) = Len(b) + 2
           /\ (<<p, q>> \o b)[1] = p /\ (<<p, q>> \o b)[2] = q
<1>1. <<p, q>> \o b = <<p>> \o <<q>> \o b
  OBVIOUS
<1>2. <<p>> \o <<q>> \o b = <<p>> \o (<<q>> \o b)
  OBVIOUS
<1>3. <<p, q>> \o b \in Seq(Pieces) /\ Len(<<p, q>> \o b) = Len(b) + 2
  OBVIOUS
<1>4. (<<p, q>> \o b)[1] = p /\ (<<p, q>> \o b)[2] = q
  OBVIOUS
<1>. QED
  BY <1>1, <1>2, <1>3, <1>4

LEMMA FreeTwo ==
    ASSUME NEW p \in Pieces, NEW q \in Pieces, NEW b \in Seq(Pieces), NEW x
    PROVE  Free(<<p, q>> \o b, x) <=> p # x /\ q # x /\ Free(b, x)
<1>. DEFINE r == <<q>> \o b
<1>1. r \in Seq(Pieces) /\ (Free(r, x) <=> q # x /\ Free(b, x))
  BY FreeFront, FrontIs
<1>. HIDE DEF r
<1>2. Free(<<p>> \o r, x) <=> p # x /\ Free(r, x)
  BY <1>1, FreeFront
<1>3. <<p, q>> \o b = <<p>> \o r
  BY TwoPieces DEF r
<1>. QED
  BY <1>1, <1>2, <1>3

-----------------------------------------------------------------------------
(* Connection strings in the keyword form.                                 *)

LEMMA EndpointIs ==
    ASSUME NEW e \in ServerEndpoint
    PROVE  /\ e.host \in Seq(Pieces) /\ e.port \in Seq(Pieces) /\ e.ssh \in Seq(Pieces) /\ e.dbname \in Seq(Pieces)
           /\ e.host # << >> /\ e.port # << >>
           /\ Lacks(e.host, Quotes) /\ Lacks(e.port, Quotes) /\ Lacks(e.ssh, Quotes) /\ Lacks(e.dbname, Quotes)
           /\ Lacks(e.host, Capital \cup {"@", "/", "?", ",", "[", "]", "://"})
           /\ Lacks(e.port, {"@", "/", "?", ",", ":"})
           /\ Lacks(e.ssh, {"/", "&"})
           /\ Lacks(e.dbname, {"?"})
<1>1. /\ e.host \in Hosts /\ e.port \in Ports /\ e.ssh \in Tunnels /\ e.dbname \in Databases
  BY DEF ServerEndpoint
<1>2. STRING \subseteq Pieces
  BY Zenon DEF Pieces
<1>3. \A s \in Seq(STRING) : s \in Seq(Pieces)
  BY <1>2, SeqMonotonic
<1>. QED
  BY <1>1, <1>3, EndpointsAssumption DEF Lacks

LEMMA WordIs ==
    ASSUME NEW key \in Literals
    PROVE  key \in Pieces /\ key # Blank
  BY WordsAre, BlankIs

\* A word and its value.
LEMMA PairIs ==
    ASSUME NEW key \in Literals, key # "=", NEW value \in Seq(Pieces)
    PROVE  /\ Pair(key, value) \in Seq(Pieces) /\ Len(Pair(key, value)) = Len(value) + 2
           /\ Pair(key, value)[1] = key /\ Pair(key, value)[2] = "="
           /\ SplitOnce(Pair(key, value), "=") = [found |-> TRUE, left |-> <<key>>, right |-> value]
           /\ KeyOf(Pair(key, value)) = << SmallOf(key) >>
           /\ ValueOf(Pair(key, value)) = TrimMatches(TrimMatches(value, "'"), "quote")
           /\ \A x : Free(Pair(key, value), x) <=> key # x /\ "=" # x /\ Free(value, x)
<1>1. "=" \in Literals
  BY DEF Literals
<1>2. key \in Pieces /\ "=" \in Pieces
  BY <1>1, WordIs
<1>3. /\ Pair(key, value) = <<key>> \o <<"=">> \o value
      /\ Pair(key, value) \in Seq(Pieces) /\ Len(Pair(key, value)) = Len(value) + 2
      /\ Pair(key, value)[1] = key /\ Pair(key, value)[2] = "="
  <2>. DEFINE eq == "="
  <2>1. eq \in Pieces
    BY <1>2
  <2>. HIDE DEF eq
  <2>2. <<key, eq>> \o value = <<key>> \o <<eq>> \o value
    BY <1>2, <2>1, TwoPieces
  <2>3. <<key, eq>> \o value \in Seq(Pieces) /\ Len(<<key, eq>> \o value) = Len(value) + 2
    BY <1>2, <2>1, TwoPieces
  <2>4. (<<key, eq>> \o value)[1] = key /\ (<<key, eq>> \o value)[2] = eq
    BY <1>2, <2>1, TwoPieces
  <2>. QED
    BY <2>2, <2>3, <2>4 DEF Pair, eq
<1>4. \A x : Free(Pair(key, value), x) <=> key # x /\ "=" # x /\ Free(value, x)
  BY <1>2, FreeTwo DEF Pair
<1>5. SplitOnce(Pair(key, value), "=") = [found |-> TRUE, left |-> <<key>>, right |-> value]
  BY <1>2, <1>3, CutBehind
<1>6. ToLowercase(<<key>>) = << SmallOf(key) >>
  BY DEF ToLowercase
<1>. QED
  BY <1>3, <1>4, <1>5, <1>6 DEF KeyOf, ValueOf

\* What is looked for is not there.
LEMMA LackingIs ==
    ASSUME NEW s, NEW pieces, Lacks(s, pieces), NEW x \in pieces
    PROVE  Free(s, x)
  BY DEF Lacks, Free

LEMMA Unquoted ==
    ASSUME NEW value \in Seq(Pieces), Lacks(value, Quotes)
    PROVE  /\ TrimMatches(TrimMatches(value, "'"), "quote") = value
           /\ value # << >> => TrimMatches(TrimMatches(<<"'">> \o value \o <<"'">>, "'"), "quote") = value
<1>1. "'" \in Pieces /\ "quote" \in Pieces
  <2>1. "'" \in Literals /\ "quote" \in Literals
    BY DEF Literals
  <2>. QED
    BY <2>1, WordIs
<1>2. Free(value, "'") /\ Free(value, "quote")
  BY LackingIs DEF Quotes
<1>3. TrimMatches(value, "'") = value /\ TrimMatches(value, "quote") = value
  BY <1>1, <1>2, NothingTrimmed
<1>4. ASSUME value # << >>
      PROVE  TrimMatches(<<"'">> \o value \o <<"'">>, "'") = value
  <2>1. value[1] # "'" /\ value[Len(value)] # "'"
    <3>1. 1 \in 1..Len(value) /\ Len(value) \in 1..Len(value)
      BY <1>4
    <3>. QED
      BY <1>2, <3>1, FreeIs
  <2>. DEFINE a == <<"'">>
  <2>2. a \in Seq(Pieces) /\ \A i \in 1..Len(a) : a[i] = "'"
    BY <1>1
  <2>. HIDE DEF a
  <2>3. TrimMatches(a \o value \o a, "'") = value
    BY <1>1, <1>4, <2>1, <2>2, TrimMatchesIs
  <2>. QED
    BY <2>3 DEF a
<1>. QED
  BY <1>3, <1>4

\* A blank before every token: without the first one, the tokens are what
\* stands between blanks.
Tokened(t, T) ==
    /\ t \in Seq(Pieces) /\ Len(t) > 1
    /\ t[1] # Blank /\ t[2] = "=" /\ t[Len(t)] # Blank
    /\ Range(Split(t, Blank)) = T
Spells(s, T) == (s = << >> /\ T = {}) \/ \E t : s = <<Blank>> \o t /\ Tokened(t, T)

Tokens(key, value) == IF value = << >> THEN {} ELSE {Pair(key, value)}

LEMMA TokenSpells ==
    ASSUME NEW key \in Literals, key # "=", NEW value \in Seq(Pieces), Free(value, Blank),
           value # << >>, NEW s, NEW T, Spells(s, T)
    PROVE  \E t : Pair(key, value) \o s = t /\ Tokened(t, {Pair(key, value)} \cup T)
<1>. DEFINE token == Pair(key, value)
<1>1. /\ token \in Seq(Pieces) /\ Len(token) > 2 /\ token[1] # Blank /\ token[2] = "="
      /\ Free(token, Blank) /\ token[Len(token)] # Blank
  <2>1. "=" \in Literals /\ Blank # "=" /\ Blank # key
    BY BlankIs DEF Literals
  <2>2. Free(token, Blank)
    BY <2>1, PairIs
  <2>3. Len(value) > 0
    OBVIOUS
  <2>4. token \in Seq(Pieces) /\ Len(token) = Len(value) + 2 /\ token[1] = key /\ token[2] = "="
    BY PairIs
  <2>. HIDE DEF token
  <2>5. Len(token) \in 1..Len(token)
    BY <2>3, <2>4
  <2>6. token[Len(token)] # Blank
    BY <2>2, <2>4, <2>5, FreeIs
  <2>. QED
    BY <2>1, <2>2, <2>3, <2>4, <2>6
<1>. HIDE DEF token
<1>2. CASE s = << >> /\ T = {}
  <2>1. token \o s = token
    BY <1>1, <1>2
  <2>2. Range(Split(token, Blank)) = {token}
    BY <1>1, OnePart
  <2>3. Tokened(token, {token} \cup T)
    BY <1>1, <1>2, <2>2 DEF Tokened
  <2>. QED
    BY <2>1, <2>3 DEF token
<1>3. CASE \E t : s = <<Blank>> \o t /\ Tokened(t, T)
  <2>1. PICK t : s = <<Blank>> \o t /\ Tokened(t, T)
    BY <1>3
  <2>2. /\ t \in Seq(Pieces) /\ Len(t) > 1 /\ t[Len(t)] # Blank /\ Range(Split(t, Blank)) = T
        /\ token \in Seq(Pieces) /\ Blank \in Pieces /\ <<Blank>> \in Seq(Pieces)
    BY <1>1, <2>1, BlankIs DEF Tokened
  <2>. DEFINE blank == <<Blank>>
  <2>8. blank \in Seq(Pieces) /\ s = blank \o t
    BY <2>1, <2>2
  <2>. HIDE DEF blank
  <2>9. token \o s = token \o blank \o t
    BY <2>2, <2>8, ConcatAssociative
  <2>3. token \o s = token \o <<Blank>> \o t
    BY <2>9 DEF blank
  <2>. DEFINE u == token \o <<Blank>> \o t
  <2>4. /\ u \in Seq(Pieces) /\ Len(u) = Len(token) + 1 + Len(t)
        /\ \A i \in 1..Len(token) : u[i] = token[i]
        /\ \A i \in 1..Len(t) : u[Len(token) + 1 + i] = t[i]
    BY <2>2, Around
  <2>5. Range(Split(u, Blank)) = {token} \cup T
    BY <1>1, <2>2, PartsAre
  <2>. HIDE DEF u
  <2>6. u[1] = token[1] /\ u[2] = token[2] /\ u[Len(u)] = t[Len(t)]
    <3>1. 1 \in 1..Len(token) /\ 2 \in 1..Len(token) /\ Len(t) \in 1..Len(t)
      BY <1>1, <2>2
    <3>. QED
      BY <2>4, <3>1
  <2>7. Tokened(u, {token} \cup T)
    BY <1>1, <2>2, <2>4, <2>5, <2>6 DEF Tokened
  <2>. QED
    BY <2>3, <2>7 DEF u, token
<1>. QED
  BY <1>2, <1>3 DEF Spells

LEMMA SpelledIs ==
    ASSUME NEW s, NEW T, Spells(s, T)
    PROVE  s \in Seq(Pieces)
<1>1. \A t \in Seq(Pieces) : <<Blank>> \o t \in Seq(Pieces)
  BY BlankIs, FrontIs
<1>2. << >> \in Seq(Pieces)
  OBVIOUS
<1>. QED
  BY <1>1, <1>2 DEF Spells, Tokened

LEMMA ItemSpells ==
    ASSUME NEW key \in Literals, key # "=", NEW value \in Seq(Pieces), Free(value, Blank),
           NEW s, NEW T, Spells(s, T)
    PROVE  Spells(Item(key, value) \o s, Tokens(key, value) \cup T)
<1>1. s \in Seq(Pieces)
  BY SpelledIs
<1>2. CASE value = << >>
  <2>1. Item(key, value) \o s = s /\ Tokens(key, value) \cup T = T
    BY <1>1, <1>2 DEF Item, Tokens
  <2>. QED
    BY <2>1
<1>3. CASE value # << >>
  <2>1. PICK t : Pair(key, value) \o s = t /\ Tokened(t, {Pair(key, value)} \cup T)
    BY <1>3, TokenSpells
  <2>2. Pair(key, value) \in Seq(Pieces) /\ Blank \in Pieces
    BY PairIs, BlankIs
  <2>3. (<<Blank>> \o Pair(key, value)) \o s = <<Blank>> \o t
    BY <1>1, <2>1, <2>2, FrontIs
  <2>. QED
    BY <1>3, <2>1, <2>3 DEF Spells, Item, Tokens
<1>. QED
  BY <1>2, <1>3

LEMMA ItemIs ==
    ASSUME NEW key \in Literals, key # "=", NEW value \in Seq(Pieces)
    PROVE  Item(key, value) \in Seq(Pieces)
<1>1. Pair(key, value) \in Seq(Pieces) /\ Blank \in Pieces
  BY PairIs, BlankIs
<1>2. <<Blank>> \o Pair(key, value) \in Seq(Pieces) /\ << >> \in Seq(Pieces)
  BY <1>1, FrontIs
<1>. QED
  BY <1>2 DEF Item

\* Read by its tokens.
LEMMA SpelledParses ==
    ASSUME NEW s, NEW T, Spells(s, T), T # {}
    PROVE  \E t \in Seq(Pieces) : Range(Split(t, Blank)) = T /\ Parse(s) = ParseKeywordValue(t)
<1>1. PICK t : s = <<Blank>> \o t /\ Tokened(t, T)
  BY DEF Spells
<1>2. TrimMatches(s, Blank) = t
  <2>. DEFINE blank == <<Blank>>
              nothing == << >>
  <2>1. /\ t \in Seq(Pieces) /\ t # << >> /\ t[1] # Blank /\ t[Len(t)] # Blank
        /\ Blank \in Pieces /\ blank \in Seq(Pieces) /\ nothing \in Seq(Pieces)
    BY <1>1, BlankIs DEF Tokened
  <2>2. (\A i \in 1..Len(blank) : blank[i] = Blank) /\ \A i \in 1..Len(nothing) : nothing[i] = Blank
    OBVIOUS
  <2>3. s = blank \o t \o nothing
    BY <1>1, <2>1
  <2>. HIDE DEF blank, nothing
  <2>. QED
    BY <2>1, <2>2, <2>3, TrimMatchesIs
<1>3. ~IsUri(t)
  BY <1>1 DEF Tokened, IsUri
<1>. QED
  BY <1>1, <1>2, <1>3 DEF Parse, Tokened

\* What the tokens of one word tell.
LEMMA TokensTell ==
    ASSUME NEW key \in Literals, key # "=", NEW written \in Seq(Pieces), NEW value,
           TrimMatches(TrimMatches(written, "'"), "quote") = value
    PROVE  /\ \A p \in Tokens(key, written) : KeyOf(p) = << SmallOf(key) >> /\ ValueOf(p) = value
           /\ written # << >> => Tokens(key, written) # {}
  BY PairIs DEF Tokens

\* A host is told as it was, however it is written.
LEMMA HostIs ==
    ASSUME NEW e \in ServerEndpoint
    PROVE  /\ Capitals(e.host) \in Seq(Pieces) /\ Capitals(e.host) # << >>
           /\ ToLowercase(e.host) = e.host /\ ToLowercase(Capitals(e.host)) = e.host
           /\ \A x : Free(e.host, x) /\ x # "DB" => Free(Capitals(e.host), x)
           /\ Lacks(Capitals(e.host), Quotes)
<1>. DEFINE h == e.host
            c == Capitals(h)
<1>1. /\ h \in Seq(Pieces) /\ h # << >>
      /\ \A i \in 1..Len(h) : h[i] \notin Capital
  <2>1. h \in Seq(Pieces) /\ h # << >> /\ Lacks(h, Capital \cup {"@", "/", "?", ",", "[", "]", "://"})
    BY EndpointIs
  <2>2. \A x \in Capital : Free(h, x)
    BY <2>1, LackingIs
  <2>3. \A x \in Capital : \A i \in 1..Len(h) : h[i] # x
    BY <2>1, <2>2, FreeIs
  <2>. QED
    BY <2>1, <2>3
<1>2. "DB" \in Pieces
  <2>1. "DB" \in Literals
    BY DEF Literals
  <2>. QED
    BY <2>1, WordIs
<1>3. Quotes \cap {"DB"} = {}
  BY Zenon DEF Quotes, Blank
<1>4. Lacks(h, Quotes)
  BY EndpointIs
<1>. HIDE DEF h
<1>5. c \in Seq(Pieces) /\ Len(c) = Len(h) /\ \A i \in 1..Len(h) : c[i] = IF h[i] = "db" THEN "DB" ELSE h[i]
  BY <1>1, <1>2 DEF Capitals
<1>. HIDE DEF c
<1>6. c # << >>
  BY <1>1, <1>5
<1>7. \A i \in 1..Len(h) : SmallOf(h[i]) = h[i] /\ SmallOf(c[i]) = h[i]
  BY <1>1, <1>5 DEF Capital, SmallOf
<1>8. ToLowercase(h) = h /\ ToLowercase(c) = h
  BY <1>1, <1>5, <1>7 DEF ToLowercase
<1>9. ASSUME NEW x, Free(h, x), x # "DB"
      PROVE  Free(c, x)
  BY <1>1, <1>5, <1>9, FreeIs
<1>10. Lacks(c, Quotes)
  <2>1. \A x \in Quotes : Free(h, x)
    BY <1>4, LackingIs
  <2>2. \A x \in Quotes : Free(c, x)
    BY <1>3, <1>9, <2>1
  <2>. QED
    BY <2>2 DEF Lacks, Free
<1>. QED
  BY <1>5, <1>6, <1>8, <1>9, <1>10 DEF h, c

\* What an endpoint is read from: the values its tokens tell.
LEMMA ToldIsRead ==
    ASSUME NEW e \in ServerEndpoint, NEW s, NEW T, Spells(s, T), T # {},
           NEW host, ToLowercase(host) = e.host, NEW port \in PortWritten(e),
           ToldBy(T, HostKeys, host), ToldBy(T, {<<"port">>}, port),
           ToldBy(T, {<<"ssh">>}, e.ssh), ToldBy(T, {<<"dbname">>}, e.dbname)
    PROVE  Parse(s) = e
<1>1. PICK t \in Seq(Pieces) : Range(Split(t, Blank)) = T /\ Parse(s) = ParseKeywordValue(t)
  BY SpelledParses
<1>. DEFINE tokens == Split(t, Blank)
<1>2. /\ FirstValue(tokens, HostKeys) = host
      /\ LastValue(tokens, {<<"port">>}) = port
      /\ LastValue(tokens, {<<"ssh">>}) = e.ssh
      /\ LastValue(tokens, {<<"dbname">>}) = e.dbname
  BY <1>1, ValueIs
<1>3. OrElse(ToLowercase(host), UNKNOWN_HOST) = e.host
  BY EndpointIs DEF OrElse
<1>4. OrElse(port, DEFAULT_PORT) = e.port
  BY EndpointIs DEF OrElse, PortWritten
<1>5. ParseKeywordValue(t) = [host |-> e.host, port |-> e.port, ssh |-> e.ssh, dbname |-> e.dbname]
  BY <1>2, <1>3, <1>4 DEF ParseKeywordValue
<1>. QED
  BY <1>1, <1>5 DEF ServerEndpoint

-----------------------------------------------------------------------------
(* Strings put together.                                                   *)

\* Long strings are put together without looking into them.
IsString(s) == s \in Seq(Pieces)

LEMMA Chained ==
    ASSUME NEW a, NEW b, NEW c, IsString(a) /\ IsString(b) /\ IsString(c)
    PROVE  a \o (b \o c) = a \o b \o c
  BY ConcatAssociative DEF IsString

LEMMA TwoStrings ==
    ASSUME NEW a, NEW b, IsString(a) /\ IsString(b)
    PROVE  IsString(a \o b)
  BY DEF IsString

AreStrings(a, b, c, d, f, g) ==
    IsString(a) /\ IsString(b) /\ IsString(c) /\ IsString(d) /\ IsString(f) /\ IsString(g)

Regroups(a, b, c, d, f, g) == a \o (b \o (c \o (d \o (f \o g)))) = a \o b \o c \o d \o f \o g

LEMMA SixChained ==
    ASSUME NEW a, NEW b, NEW c, NEW d, NEW f, NEW g, AreStrings(a, b, c, d, f, g)
    PROVE  Regroups(a, b, c, d, f, g)
<1>1. IsString(f \o g)
  BY TwoStrings DEF AreStrings
<1>2. IsString(d \o (f \o g))
  BY <1>1, TwoStrings DEF AreStrings
<1>3. IsString(c \o (d \o (f \o g)))
  BY <1>2, TwoStrings DEF AreStrings
<1>4. IsString(a \o b)
  BY TwoStrings DEF AreStrings
<1>5. IsString(a \o b \o c)
  BY <1>4, TwoStrings DEF AreStrings
<1>6. IsString(a \o b \o c \o d)
  BY <1>5, TwoStrings DEF AreStrings
<1>7. a \o (b \o (c \o (d \o (f \o g)))) = a \o b \o (c \o (d \o (f \o g)))
  <2>. DEFINE x == c \o (d \o (f \o g))
  <2>1. IsString(a) /\ IsString(b) /\ IsString(x)
    BY <1>3 DEF AreStrings
  <2>. HIDE DEF x
  <2>2. a \o (b \o x) = a \o b \o x
    BY <2>1, Chained
  <2>. QED
    BY <2>2 DEF x
<1>8. a \o b \o (c \o (d \o (f \o g))) = a \o b \o c \o (d \o (f \o g))
  <2>. DEFINE x == d \o (f \o g)
              y == a \o b
  <2>1. IsString(y) /\ IsString(c) /\ IsString(x)
    BY <1>2, <1>4 DEF AreStrings
  <2>. HIDE DEF x, y
  <2>2. y \o (c \o x) = y \o c \o x
    BY <2>1, Chained
  <2>. QED
    BY <2>2 DEF x, y
<1>9. a \o b \o c \o (d \o (f \o g)) = a \o b \o c \o d \o (f \o g)
  <2>1. IsString(a \o b \o c) /\ IsString(d) /\ IsString(f \o g)
    BY <1>1, <1>5 DEF AreStrings
  <2>. QED
    BY <2>1, Chained
<1>10. a \o b \o c \o d \o (f \o g) = a \o b \o c \o d \o f \o g
  <2>1. IsString(a \o b \o c \o d) /\ IsString(f) /\ IsString(g)
    BY <1>6 DEF AreStrings
  <2>. QED
    BY <2>1, Chained
<1>. QED
  BY <1>7, <1>8, <1>9, <1>10, Zenon DEF Regroups

Fits(key, value) == key \in Literals \ {"="} /\ value \in Seq(Pieces) /\ Free(value, Blank)
SixItems(k1, v1, k2, v2, k3, v3, k4, v4, k5, v5, k6, v6) ==
    Item(k1, v1) \o Item(k2, v2) \o Item(k3, v3) \o Item(k4, v4) \o Item(k5, v5) \o Item(k6, v6)
SixTokens(k1, v1, k2, v2, k3, v3, k4, v4, k5, v5, k6, v6) ==
    Tokens(k1, v1) \cup Tokens(k2, v2) \cup Tokens(k3, v3)
    \cup Tokens(k4, v4) \cup Tokens(k5, v5) \cup Tokens(k6, v6)

LEMMA SixSpell ==
    ASSUME NEW k1, NEW v1, NEW k2, NEW v2, NEW k3, NEW v3, NEW k4, NEW v4, NEW k5, NEW v5, NEW k6, NEW v6,
           Fits(k1, v1), Fits(k2, v2), Fits(k3, v3), Fits(k4, v4), Fits(k5, v5), Fits(k6, v6)
    PROVE  Spells(SixItems(k1, v1, k2, v2, k3, v3, k4, v4, k5, v5, k6, v6),
                  SixTokens(k1, v1, k2, v2, k3, v3, k4, v4, k5, v5, k6, v6))
<1>. DEFINE none == << >>
            s6 == Item(k6, v6) \o none
            s5 == Item(k5, v5) \o s6
            s4 == Item(k4, v4) \o s5
            s3 == Item(k3, v3) \o s4
            s2 == Item(k2, v2) \o s3
            s1 == Item(k1, v1) \o s2
            T6 == Tokens(k6, v6) \cup {}
            T5 == Tokens(k5, v5) \cup T6
            T4 == Tokens(k4, v4) \cup T5
            T3 == Tokens(k3, v3) \cup T4
            T2 == Tokens(k2, v2) \cup T3
            T1 == Tokens(k1, v1) \cup T2
<1>1. Spells(none, {})
  BY DEF Spells
<1>10. ASSUME NEW key, NEW value, Fits(key, value), NEW s, NEW T, Spells(s, T)
       PROVE  Item(key, value) \in Seq(Pieces) /\ Spells(Item(key, value) \o s, Tokens(key, value) \cup T)
  BY <1>10, ItemIs, ItemSpells DEF Fits
<1>. HIDE DEF none
<1>2. Spells(s6, T6)
  BY <1>1, <1>10
<1>. HIDE DEF s6, T6
<1>3. Spells(s5, T5)
  BY <1>2, <1>10
<1>. HIDE DEF s5, T5
<1>4. Spells(s4, T4)
  BY <1>3, <1>10
<1>. HIDE DEF s4, T4
<1>5. Spells(s3, T3)
  BY <1>4, <1>10
<1>. HIDE DEF s3, T3
<1>6. Spells(s2, T2)
  BY <1>5, <1>10
<1>. HIDE DEF s2, T2
<1>7. Spells(s1, T1)
  BY <1>6, <1>10
<1>8. s1 = SixItems(k1, v1, k2, v2, k3, v3, k4, v4, k5, v5, k6, v6)
  <2>1. /\ Item(k1, v1) \in Seq(Pieces) /\ Item(k2, v2) \in Seq(Pieces) /\ Item(k3, v3) \in Seq(Pieces)
        /\ Item(k4, v4) \in Seq(Pieces) /\ Item(k5, v5) \in Seq(Pieces) /\ Item(k6, v6) \in Seq(Pieces)
    BY <1>1, <1>10
  <2>2. s6 = Item(k6, v6)
    <3>1. Item(k6, v6) \o << >> = Item(k6, v6)
      BY <2>1
    <3>. QED
      BY <3>1 DEF s6, none
  <2>3. s1 = Item(k1, v1) \o (Item(k2, v2) \o (Item(k3, v3) \o (Item(k4, v4) \o (Item(k5, v5) \o Item(k6, v6)))))
    BY <2>2, Zenon DEF s5, s4, s3, s2, s1
  <2>4. Item(k1, v1) \o (Item(k2, v2) \o (Item(k3, v3) \o (Item(k4, v4) \o (Item(k5, v5) \o Item(k6, v6)))))
          = SixItems(k1, v1, k2, v2, k3, v3, k4, v4, k5, v5, k6, v6)
    <3>1. AreStrings(Item(k1, v1), Item(k2, v2), Item(k3, v3), Item(k4, v4), Item(k5, v5), Item(k6, v6))
      BY <2>1 DEF IsString, AreStrings
    <3>2. Regroups(Item(k1, v1), Item(k2, v2), Item(k3, v3), Item(k4, v4), Item(k5, v5), Item(k6, v6))
      BY <3>1, SixChained
    <3>. QED
      BY <3>2, Zenon DEF SixItems, Regroups
  <2>. QED
    BY <2>3, <2>4, Zenon
<1>9. T1 = SixTokens(k1, v1, k2, v2, k3, v3, k4, v4, k5, v5, k6, v6)
  BY DEF T2, T3, T4, T5, T6, SixTokens
<1>. HIDE DEF s1, T1
<1>. QED
  BY <1>7, <1>8, <1>9

\* Every way with words and "=" leads to the endpoint.
LEMMA KeywordParses ==
    ASSUME NEW e \in ServerEndpoint, NEW addr \in {<< >>, <<"10.0.0.7">>}, NEW key \in {"host", "HOST"},
           NEW host \in HostQuoted(e.host), NEW port \in PortWritten(e)
    PROVE  Parse(KeywordForm(e, addr, key, host, port)) = e
           /\ Parse(KeywordFormBackwards(e, addr, key, host, port)) = e
<1>. DEFINE word == <<"p", "=", "@", "q">>
            A == Tokens("hostaddr", addr)
            H == Tokens(key, host)
            W == Tokens("password", word)
            P == Tokens("port", port)
            S == Tokens("ssh", e.ssh)
            D == Tokens("dbname", e.dbname)
            T == A \cup H \cup W \cup P \cup S \cup D
<1>1. /\ "hostaddr" \in Literals \ {"="} /\ key \in Literals \ {"="} /\ "password" \in Literals \ {"="}
      /\ "port" \in Literals \ {"="} /\ "ssh" \in Literals \ {"="} /\ "dbname" \in Literals \ {"="}
  BY DEF Literals
<1>2. "10.0.0.7" \in Literals /\ "p" \in Literals /\ "=" \in Literals /\ "@" \in Literals /\ "q" \in Literals /\ "'" \in Literals
  BY DEF Literals
<1>3. \A x \in Literals : x \in Pieces /\ x # Blank
  BY WordIs
<1>4. addr \in Seq(Pieces) /\ Free(addr, Blank)
  <2>1. CASE addr = << >>
    BY <2>1 DEF Free, Range
  <2>2. CASE addr = <<"10.0.0.7">>
    BY <1>2, <1>3, <2>2 DEF Free, Range
  <2>. QED
    BY <2>1, <2>2
<1>5. word \in Seq(Pieces) /\ Free(word, Blank)
  BY <1>2, <1>3 DEF Free, Range
<1>6. /\ e.ssh \in Seq(Pieces) /\ e.dbname \in Seq(Pieces) /\ e.host \in Seq(Pieces) /\ e.host # << >>
      /\ Free(e.ssh, Blank) /\ Free(e.dbname, Blank) /\ Free(e.host, Blank)
      /\ TrimMatches(TrimMatches(e.ssh, "'"), "quote") = e.ssh
      /\ TrimMatches(TrimMatches(e.dbname, "'"), "quote") = e.dbname
  <2>1. Blank \in Quotes
    BY Zenon DEF Quotes
  <2>. QED
    BY <2>1, EndpointIs, LackingIs, Unquoted
<1>7. port \in Seq(Pieces) /\ Free(port, Blank) /\ TrimMatches(TrimMatches(port, "'"), "quote") = port
  <2>1. Blank \in Quotes
    BY Zenon DEF Quotes
  <2>2. CASE port = e.port
    BY <2>1, <2>2, EndpointIs, LackingIs, Unquoted
  <2>3. CASE port = << >>
    BY <2>3 DEF Free, Range, TrimMatches
  <2>. QED
    BY <2>2, <2>3 DEF PortWritten
<1>8. PICK value : /\ ToLowercase(value) = e.host /\ value # << >>
                   /\ host \in Seq(Pieces) /\ Free(host, Blank) /\ host # << >>
                   /\ TrimMatches(TrimMatches(host, "'"), "quote") = value
  <2>1. CASE host = Capitals(e.host)
    <3>1. Blank \in Quotes
      BY Zenon DEF Quotes
    <3>2. /\ host \in Seq(Pieces) /\ host # << >> /\ ToLowercase(host) = e.host /\ Lacks(host, Quotes)
      BY <2>1, HostIs
    <3>3. Free(host, Blank) /\ TrimMatches(TrimMatches(host, "'"), "quote") = host
      BY <3>1, <3>2, LackingIs, Unquoted
    <3>. QED
      BY <3>2, <3>3
  <2>2. CASE host = <<"'">> \o e.host \o <<"'">>
    <3>. DEFINE a == <<"'">>
    <3>1. a \in Seq(Pieces) /\ Free(a, Blank) /\ Len(a) = 1
      BY <1>2, <1>3 DEF Free, Range
    <3>2. host = a \o e.host \o a
      BY <2>2
    <3>. HIDE DEF a
    <3>3. a \o e.host \in Seq(Pieces) /\ Free(a \o e.host, Blank)
      BY <1>6, <3>1, FreeConcat
    <3>4. host \in Seq(Pieces) /\ Free(host, Blank)
      BY <3>1, <3>2, <3>3, FreeConcat
    <3>5. host # << >>
      BY <1>6, <3>1, <3>2
    <3>6. TrimMatches(TrimMatches(host, "'"), "quote") = e.host
      BY <1>6, <2>2, EndpointIs, Unquoted
    <3>7. ToLowercase(e.host) = e.host
      BY HostIs
    <3>. QED
      BY <1>6, <3>4, <3>5, <3>6, <3>7
  <2>. QED
    BY <2>1, <2>2 DEF HostQuoted
<1>. HIDE DEF word
<1>9. /\ Spells(KeywordForm(e, addr, key, host, port), A \cup H \cup W \cup P \cup S \cup D)
      /\ Spells(KeywordFormBackwards(e, addr, key, host, port), D \cup S \cup P \cup W \cup H \cup A)
  <2>1. /\ Fits("hostaddr", addr) /\ Fits(key, host) /\ Fits("password", word)
        /\ Fits("port", port) /\ Fits("ssh", e.ssh) /\ Fits("dbname", e.dbname)
    BY <1>1, <1>4, <1>5, <1>6, <1>7, <1>8 DEF Fits
  <2>2. /\ Spells(SixItems("hostaddr", addr, key, host, "password", word, "port", port,
                           "ssh", e.ssh, "dbname", e.dbname),
                  SixTokens("hostaddr", addr, key, host, "password", word, "port", port,
                            "ssh", e.ssh, "dbname", e.dbname))
        /\ Spells(SixItems("dbname", e.dbname, "ssh", e.ssh, "port", port, "password", word,
                           key, host, "hostaddr", addr),
                  SixTokens("dbname", e.dbname, "ssh", e.ssh, "port", port, "password", word,
                            key, host, "hostaddr", addr))
    BY <2>1, SixSpell
  <2>. QED
    BY <2>2, Zenon DEF SixItems, SixTokens, KeywordForm, KeywordFormBackwards, word
<1>10. D \cup S \cup P \cup W \cup H \cup A = T
  OBVIOUS
<1>11. /\ \A p \in A : KeyOf(p) = <<"hostaddr">>
       /\ \A p \in W : KeyOf(p) = <<"password">>
       /\ (\A p \in H : KeyOf(p) = <<"host">> /\ ValueOf(p) = value) /\ H # {}
       /\ (\A p \in P : KeyOf(p) = <<"port">> /\ ValueOf(p) = port) /\ (port # << >> => P # {})
       /\ (\A p \in S : KeyOf(p) = <<"ssh">> /\ ValueOf(p) = e.ssh) /\ (e.ssh # << >> => S # {})
       /\ (\A p \in D : KeyOf(p) = <<"dbname">> /\ ValueOf(p) = e.dbname) /\ (e.dbname # << >> => D # {})
  <2>1. /\ SmallOf("hostaddr") = "hostaddr" /\ SmallOf("password") = "password" /\ SmallOf(key) = "host"
        /\ SmallOf("port") = "port" /\ SmallOf("ssh") = "ssh" /\ SmallOf("dbname") = "dbname"
    BY DEF SmallOf
  <2>2. (\A p \in A : KeyOf(p) = <<"hostaddr">>) /\ (\A p \in W : KeyOf(p) = <<"password">>)
    BY <1>1, <1>4, <1>5, <2>1, TokensTell
  <2>3. (\A p \in H : KeyOf(p) = <<"host">> /\ ValueOf(p) = value) /\ H # {}
    BY <1>1, <1>8, <2>1, TokensTell
  <2>4. (\A p \in P : KeyOf(p) = <<"port">> /\ ValueOf(p) = port) /\ (port # << >> => P # {})
    BY <1>1, <1>7, <2>1, TokensTell
  <2>5. (\A p \in S : KeyOf(p) = <<"ssh">> /\ ValueOf(p) = e.ssh) /\ (e.ssh # << >> => S # {})
    BY <1>1, <1>6, <2>1, TokensTell
  <2>6. (\A p \in D : KeyOf(p) = <<"dbname">> /\ ValueOf(p) = e.dbname) /\ (e.dbname # << >> => D # {})
    BY <1>1, <1>6, <2>1, TokensTell
  <2>. QED
    BY <2>2, <2>3, <2>4, <2>5, <2>6
<1>. HIDE DEF A, H, W, P, S, D
<1>12. T # {}
  BY <1>11
<1>13. ToldBy(T, HostKeys, value)
  BY <1>11 DEF ToldBy, HostKeys
<1>14. ToldBy(T, {<<"port">>}, port)
  BY <1>11 DEF ToldBy
<1>15. ToldBy(T, {<<"ssh">>}, e.ssh)
  BY <1>11 DEF ToldBy
<1>16. ToldBy(T, {<<"dbname">>}, e.dbname)
  BY <1>11 DEF ToldBy
<1>. HIDE DEF T
<1>17. /\ Spells(KeywordForm(e, addr, key, host, port), T)
       /\ Spells(KeywordFormBackwards(e, addr, key, host, port), T)
  BY <1>9, <1>10 DEF T
<1>. QED
  BY <1>8, <1>12, <1>13, <1>14, <1>15, <1>16, <1>17, ToldIsRead

-----------------------------------------------------------------------------
(* Connection strings in the form of a URI.                                *)

CutIs(cut, left, right) == cut.left = left /\ cut.right = right

LEMMA EmptyIs == IsString(<< >>) /\ \A x : Free(<< >>, x)
  BY DEF IsString, Free, Range

LEMMA StringsAre ==
    ASSUME NEW a, NEW b, NEW x, IsString(a) /\ IsString(b)
    PROVE  Free(a \o b, x) <=> Free(a, x) /\ Free(b, x)
  BY FreeConcat DEF IsString

LEMMA PrefixedIs ==
    ASSUME NEW mark \in Pieces, NEW s, IsString(s)
    PROVE  /\ IsString(Prefixed(mark, s))
           /\ \A x : x # mark /\ Free(s, x) => Free(Prefixed(mark, s), x)
<1>1. CASE s = << >>
  BY <1>1, EmptyIs DEF Prefixed
<1>2. CASE s # << >>
  BY <1>2, FrontIs, FreeFront DEF Prefixed, IsString
<1>. QED
  BY <1>1, <1>2

\* A part that is there ends at its mark, and one that is not leaves nothing.
LEMMA CutPrefixed ==
    ASSUME NEW a, NEW mark \in Pieces, NEW s, IsString(a), IsString(s), Free(a, mark)
    PROVE  CutIs(SplitOnce(a \o Prefixed(mark, s), mark), a, s)
<1>1. CASE s = << >>
  <2>1. a \o Prefixed(mark, s) = a
    BY <1>1 DEF Prefixed, IsString
  <2>2. SplitOnce(a, mark) = NotFound(a)
    BY NoSplit
  <2>3. NotFound(a).left = a /\ NotFound(a).right = s
    BY <1>1 DEF NotFound
  <2>. QED
    BY <2>1, <2>2, <2>3 DEF CutIs
<1>2. CASE s # << >>
  <2>1. a \o (<<mark>> \o s) = a \o <<mark>> \o s
    BY DEF IsString
  <2>2. SplitOnce(a \o <<mark>> \o s, mark) = [found |-> TRUE, left |-> a, right |-> s]
    BY SplitIs DEF IsString
  <2>3. a \o Prefixed(mark, s) = a \o <<mark>> \o s
    BY <1>2, <2>1, Zenon DEF Prefixed
  <2>4. CutIs([found |-> TRUE, left |-> a, right |-> s], a, s)
    BY DEF CutIs
  <2>. QED
    BY <2>2, <2>3, <2>4, Zenon
<1>. QED
  BY <1>1, <1>2

Same(s, t) == s = t

\* The credentials end at the last "@".
LEMMA CredentialsGo ==
    ASSUME NEW c, NEW b, IsString(c), IsString(b), Free(b, "@")
    PROVE  Same(WithoutCredentials(Suffixed(c, "@") \o b), b)
<1>1. CASE c = << >>
  <2>1. Suffixed(c, "@") \o b = b
    BY <1>1 DEF Suffixed, IsString
  <2>2. RSplitOnce(b, "@") = NotFound(b)
    BY NoSplit
  <2>3. WithoutCredentials(b) = b
    BY <2>2 DEF WithoutCredentials, NotFound
  <2>. QED
    BY <2>1, <2>3, Zenon DEF Same
<1>2. CASE c # << >>
  <2>1. "@" \in Pieces
    <3>1. "@" \in Literals
      BY DEF Literals
    <3>. QED
      BY <3>1, WordIs
  <2>. DEFINE at == "@"
  <2>2. at \in Pieces /\ Free(b, at)
    BY <2>1
  <2>. HIDE DEF at
  <2>3. RSplitOnce(c \o <<at>> \o b, at) = [found |-> TRUE, left |-> c, right |-> b]
    BY <2>2, SplitIs DEF IsString
  <2>4. Suffixed(c, "@") \o b = c \o <<at>> \o b
    BY <1>2, Zenon DEF Suffixed, at
  <2>. DEFINE s == c \o <<at>> \o b
  <2>5. RSplitOnce(s, "@") = [found |-> TRUE, left |-> c, right |-> b]
    BY <2>3, Zenon DEF at
  <2>. HIDE DEF s
  <2>6. WithoutCredentials(s) = b
    BY <2>5 DEF WithoutCredentials
  <2>. QED
    BY <2>4, <2>6, Zenon DEF Same, s
<1>. QED
  BY <1>1, <1>2

\* The first parameter called ssh.
LEMMA SshIs ==
    ASSUME NEW q, NEW mark, NEW value, IsString(q),
           \A p \in Range(Split(q, mark)) :
               SplitOnce(p, "=").found /\ KeyOf(p) = <<"ssh">> => SplitOnce(p, "=").right = value,
           value = << >> \/ \E p \in Range(Split(q, mark)) : SplitOnce(p, "=").found /\ KeyOf(p) = <<"ssh">>
    PROVE  Same(SshParameter(Split(q, mark)), value)
<1>. DEFINE query == Split(q, mark)
            T == {i \in DOMAIN query : SplitOnce(query[i], "=").found /\ KeyOf(query[i]) = <<"ssh">>}
<1>1. DOMAIN query \in SUBSET (1..Len(q) + 1) /\ Len(q) + 1 \in Nat
  BY DEF Split, IsString
<1>. HIDE DEF query
<1>2. \A i \in T : SplitOnce(query[i], "=").right = value
  BY DEF query, Range
<1>3. T = {} => value = << >>
  BY DEF query, Range
<1>4. CASE T = {}
  BY <1>3, <1>4 DEF SshParameter, Same, query
<1>5. CASE T # {}
  <2>1. T \in SUBSET (1..Len(q) + 1)
    BY <1>1
  <2>2. FirstOf(T) \in T
    BY <1>1, <1>5, <2>1, EndPlaces
  <2>3. SplitOnce(query[FirstOf(T)], "=").right = value
    BY <1>2, <2>2
  <2>. QED
    BY <1>5, <2>3 DEF SshParameter, Same, query
<1>. QED
  BY <1>4, <1>5

LEMMA LongerIs ==
    ASSUME NEW a, NEW b, NEW c, IsString(a) /\ IsString(b) /\ IsString(c), NEW x
    PROVE  /\ IsString(a \o b) /\ IsString(a \o b \o c)
           /\ Free(a \o b \o c, x) <=> Free(a, x) /\ Free(b, x) /\ Free(c, x)
<1>1. IsString(a \o b)
  BY TwoStrings
<1>2. IsString(a \o b \o c)
  BY <1>1, TwoStrings
<1>3. Free(a \o b \o c, x) <=> Free(a \o b, x) /\ Free(c, x)
  BY <1>1, StringsAre
<1>4. Free(a \o b, x) <=> Free(a, x) /\ Free(b, x)
  BY StringsAre
<1>. QED
  BY <1>1, <1>2, <1>3, <1>4

\* The host and the port, in brackets and without.
LEMMA HostAndPortIs ==
    ASSUME NEW e \in ServerEndpoint, NEW port, IsString(port)
    PROVE  LET found == HostAndPort(HostWritten(e.host) \o Prefixed(":", port)) IN
           Same(ToLowercase(found.left), e.host) /\ Same(found.right, port)
<1>. DEFINE h == e.host
            colon == ":"
            tail == Prefixed(colon, port)
            found == HostAndPort(HostWritten(h) \o tail)
<1>1. ":" \in Literals /\ "[" \in Literals /\ "]" \in Literals
  BY DEF Literals
<1>2. colon \in Pieces /\ "[" \in Pieces /\ "]" \in Pieces
  BY <1>1, WordIs
<1>3. /\ IsString(h) /\ h # << >> /\ Free(h, "]") /\ Free(h, "[") /\ ToLowercase(h) = h
      /\ IsString(Capitals(h)) /\ Capitals(h) # << >> /\ ToLowercase(Capitals(h)) = h
      /\ \A x : Free(h, x) /\ x # "DB" => Free(Capitals(h), x)
  BY EndpointIs, HostIs, LackingIs DEF IsString
<1>4. IsString(tail)
  BY <1>2, PrefixedIs
<1>. HIDE DEF h
<1>5. CASE colon \in Range(h)
  <2>. DEFINE open == "["
              close == "]"
              s == <<open>> \o h \o <<close>> \o tail
              r == h \o <<close>> \o tail
  <2>1. open \in Pieces /\ close \in Pieces /\ Free(h, close)
    BY <1>2, <1>3
  <2>2. HostWritten(h) \o tail = s
    BY <1>5, Zenon DEF HostWritten
  <2>3. IsString(r) /\ s # << >> /\ s[1] = open /\ Same(Tail(s), r)
    <3>. HIDE DEF tail, open, close
    <3>1. h \in Seq(Pieces) /\ tail \in Seq(Pieces) /\ open \in Pieces /\ close \in Pieces
      BY <1>3, <1>4, <2>1 DEF IsString
    <3>2. r \in Seq(Pieces)
      BY <3>1
    <3>3. s = <<open>> \o r
      BY <3>1
    <3>. HIDE DEF r, s
    <3>4. <<open>> \o r # << >> /\ (<<open>> \o r)[1] = open /\ Same(Tail(<<open>> \o r), r)
      BY <3>1, <3>2, FrontIs DEF Same
    <3>. QED
      BY <3>2, <3>3, <3>4 DEF IsString
  <2>. HIDE DEF open, close, tail
  <2>4. SplitOnce(r, close) = [found |-> TRUE, left |-> h, right |-> tail]
    BY <1>3, <1>4, <2>1, SplitIs DEF IsString
  <2>5. CutIs(SplitOnce(r, close), h, tail)
    BY <2>4 DEF CutIs
  <2>. HIDE DEF r, s
  <2>6. HostAndPort(s) = [left |-> SplitOnce(r, close).left,
                          right |-> IF SplitOnce(r, close).right # << >> /\ SplitOnce(r, close).right[1] = ":"
                                    THEN Tail(SplitOnce(r, close).right) ELSE << >>]
    BY <2>3, Zenon DEF HostAndPort, Same, open, close
  <2>7. HostAndPort(s).left = h
    BY <2>5, <2>6 DEF CutIs
  <2>8. HostAndPort(s).right = IF tail # << >> /\ tail[1] = ":" THEN Tail(tail) ELSE << >>
    BY <2>5, <2>6 DEF CutIs
  <2>9. (IF tail # << >> /\ tail[1] = ":" THEN Tail(tail) ELSE << >>) = port
    <3>1. CASE port = << >>
      <4>1. tail = << >>
        BY <3>1, Zenon DEF tail, Prefixed
      <4>. QED
        BY <3>1, <4>1
    <3>2. CASE port # << >>
      <4>1. tail = <<colon>> \o port
        BY <3>2, Zenon DEF tail, Prefixed
      <4>2. <<colon>> \o port # << >> /\ (<<colon>> \o port)[1] = colon /\ Tail(<<colon>> \o port) = port
        BY <1>2, FrontIs DEF IsString
      <4>. QED
        BY <4>1, <4>2
    <3>. QED
      BY <3>1, <3>2
  <2>. QED
    BY <1>3, <2>2, <2>7, <2>8, <2>9, Zenon DEF Same, h, tail
<1>6. CASE colon \notin Range(h)
  <2>. DEFINE c == Capitals(h)
              s == c \o tail
  <2>1. HostWritten(h) \o tail = s
    BY <1>6, Zenon DEF HostWritten
  <2>2. Free(c, ":") /\ Free(c, "[")
    BY <1>3, <1>6 DEF Free
  <2>3. CutIs(SplitOnce(s, colon), c, port)
    BY <1>2, <1>3, <2>2, CutPrefixed
  <2>. HIDE DEF tail, c
  <2>4. s[1] # "["
    <3>1. c \in Seq(Pieces) /\ c # << >> /\ tail \in Seq(Pieces)
      BY <1>3, <1>4 DEF IsString, c
    <3>2. 1 \in 1..Len(c) /\ s[1] = c[1]
      BY <3>1
    <3>. QED
      BY <2>2, <3>1, <3>2, FreeIs
  <2>. HIDE DEF s
  <2>5. HostAndPort(s) = SplitOnce(s, ":")
    BY <2>4, Zenon DEF HostAndPort
  <2>6. HostAndPort(s).left = c /\ HostAndPort(s).right = port
    BY <2>3, <2>5 DEF CutIs
  <2>. QED
    BY <1>3, <2>1, <2>6, Zenon DEF Same, h, tail, c
<1>. QED
  BY <1>5, <1>6

\* One more part at the end.
LEMMA OneMore ==
    ASSUME NEW s, NEW a, NEW b, NEW c, Same(s, a \o b), IsString(a) /\ IsString(b) /\ IsString(c)
    PROVE  Same(s \o c, a \o (b \o c)) /\ IsString(b \o c)
<1>1. a \o (b \o c) = a \o b \o c
  BY Chained
<1>2. s \o c = a \o b \o c
  BY Zenon DEF Same
<1>3. IsString(b \o c)
  BY TwoStrings
<1>. QED
  BY <1>1, <1>2, <1>3, Zenon DEF Same

LEMMA LettersAre ==
    /\ \A x \in {"=", "/", ":", "@", ",", "?", "&", "[", "]", "://", "'", "quote", "u", "p", "q",
                 "postgres", "postgresql", "options", "db", "DB", "2", "5432", "ssh", "SSH"} :
           x \in Literals /\ x \in Pieces /\ x # Blank
<1>1. {"=", "/", ":", "@", ",", "?", "&", "[", "]", "://", "'", "quote", "u", "p", "q",
       "postgres", "postgresql", "options", "db", "DB", "2", "5432", "ssh", "SSH"} \subseteq Literals
  BY DEF Literals
<1>. QED
  BY <1>1, WordIs

\* Pieces written out one by one.
LEMMA OneIs ==
    ASSUME NEW p \in Pieces
    PROVE  IsString(<<p>>) /\ \A x : p # x => Free(<<p>>, x)
  BY DEF IsString, Free, Range

LEMMA TwoAre ==
    ASSUME NEW p \in Pieces, NEW q \in Pieces
    PROVE  IsString(<<p, q>>) /\ \A x : p # x /\ q # x => Free(<<p, q>>, x)
  BY DEF IsString, Free, Range

LEMMA FourAre ==
    ASSUME NEW p \in Pieces, NEW q \in Pieces, NEW r \in Pieces, NEW s \in Pieces
    PROVE  IsString(<<p, q, r, s>>) /\ \A x : p # x /\ q # x /\ r # x /\ s # x => Free(<<p, q, r, s>>, x)
  BY DEF IsString, Free, Range

LEMMA FiveAre ==
    ASSUME NEW p \in Pieces, NEW q \in Pieces, NEW r \in Pieces, NEW s \in Pieces, NEW t \in Pieces
    PROVE  /\ IsString(<<p, q, r, s, t>>)
           /\ \A x : p # x /\ q # x /\ r # x /\ s # x /\ t # x => Free(<<p, q, r, s, t>>, x)
  BY DEF IsString, Free, Range

\* What comes before the address and behind it never holds what ends it.
LEMMA CredentialsAre ==
    ASSUME NEW c \in {<< >>, <<"u">>, <<"u", ":", "p", "@", "q">>}
    PROVE  /\ IsString(c) /\ IsString(Suffixed(c, "@"))
           /\ \A x \in {Blank, "/", "?"} : Free(Suffixed(c, "@"), x)
<1>1. IsString(c) /\ \A x \in {Blank, "/", "?"} : Free(c, x)
  <2>1. CASE c = << >>
    BY <2>1, EmptyIs
  <2>2. CASE c = <<"u">>
    <3>1. "u" \in Pieces /\ "u" # Blank /\ "u" # "/" /\ "u" # "?"
      BY LettersAre
    <3>. QED
      BY <2>2, <3>1, OneIs
  <2>3. CASE c = <<"u", ":", "p", "@", "q">>
    <3>1. /\ "u" \in Pieces /\ ":" \in Pieces /\ "p" \in Pieces /\ "@" \in Pieces /\ "q" \in Pieces
          /\ "u" # Blank /\ ":" # Blank /\ "p" # Blank /\ "@" # Blank /\ "q" # Blank
      BY LettersAre
    <3>2. /\ "u" # "/" /\ ":" # "/" /\ "p" # "/" /\ "@" # "/" /\ "q" # "/"
          /\ "u" # "?" /\ ":" # "?" /\ "p" # "?" /\ "@" # "?" /\ "q" # "?"
      OBVIOUS
    <3>. QED
      BY <2>3, <3>1, <3>2, FiveAre
  <2>. QED
    BY <2>1, <2>2, <2>3
<1>2. CASE c = << >>
  BY <1>1, <1>2 DEF Suffixed
<1>3. CASE c # << >>
  <2>. DEFINE at == <<"@">>
  <2>1. IsString(at) /\ \A x \in {Blank, "/", "?"} : Free(at, x)
    <3>1. "@" \in Pieces /\ "@" # Blank /\ "@" # "/" /\ "@" # "?"
      BY LettersAre
    <3>. QED
      BY <3>1, OneIs
  <2>. HIDE DEF at
  <2>2. IsString(c \o at) /\ \A x \in {Blank, "/", "?"} : Free(c \o at, x)
    BY <1>1, <2>1, TwoStrings, StringsAre
  <2>3. Suffixed(c, "@") = c \o at
    BY <1>3, Zenon DEF Suffixed, at
  <2>. QED
    BY <1>1, <2>2, <2>3
<1>. QED
  BY <1>2, <1>3

LEMMA OthersAre ==
    ASSUME NEW others \in {<< >>, <<"db", "2", ":", "5432">>}
    PROVE  /\ IsString(others) /\ IsString(Prefixed(",", others))
           /\ \A x \in {Blank, "/", "?", "@"} : Free(Prefixed(",", others), x)
<1>1. IsString(others) /\ \A x \in {Blank, "/", "?", "@"} : Free(others, x)
  <2>1. CASE others = << >>
    BY <2>1, EmptyIs
  <2>2. CASE others = <<"db", "2", ":", "5432">>
    <3>1. /\ "db" \in Pieces /\ "2" \in Pieces /\ ":" \in Pieces /\ "5432" \in Pieces
          /\ "db" # Blank /\ "2" # Blank /\ ":" # Blank /\ "5432" # Blank
      BY LettersAre
    <3>2. /\ "db" # "/" /\ "2" # "/" /\ ":" # "/" /\ "5432" # "/"
          /\ "db" # "?" /\ "2" # "?" /\ ":" # "?" /\ "5432" # "?"
          /\ "db" # "@" /\ "2" # "@" /\ ":" # "@" /\ "5432" # "@"
      OBVIOUS
    <3>. QED
      BY <2>2, <3>1, <3>2, FourAre
  <2>. QED
    BY <2>1, <2>2
<1>2. "," \in Pieces /\ "," # Blank
  BY LettersAre
<1>. QED
  BY <1>1, <1>2, PrefixedIs

LEMMA PortsAre ==
    ASSUME NEW e \in ServerEndpoint, NEW port \in PortWritten(e)
    PROVE  /\ IsString(port) /\ IsString(Prefixed(":", port))
           /\ \A x \in {Blank, "/", "?", "@", ","} : Free(Prefixed(":", port), x)
<1>1. IsString(port) /\ \A x \in {Blank, "/", "?", "@", ","} : Free(port, x)
  <2>1. CASE port = << >>
    BY <2>1, EmptyIs
  <2>2. CASE port = e.port
    <3>1. Blank \in Quotes
      BY Zenon DEF Quotes
    <3>2. /\ e.port \in Seq(Pieces) /\ Lacks(e.port, Quotes) /\ Lacks(e.port, {"@", "/", "?", ",", ":"})
      BY EndpointIs
    <3>3. Free(e.port, Blank) /\ \A x \in {"@", "/", "?", ",", ":"} : Free(e.port, x)
      BY <3>1, <3>2, LackingIs
    <3>. QED
      BY <2>2, <3>2, <3>3 DEF IsString
  <2>. QED
    BY <2>1, <2>2 DEF PortWritten
<1>2. ":" \in Pieces /\ ":" # Blank
  BY LettersAre
<1>. QED
  BY <1>1, <1>2, PrefixedIs

LEMMA HostsAre ==
    ASSUME NEW e \in ServerEndpoint
    PROVE  /\ IsString(HostWritten(e.host))
           /\ \A x \in {Blank, "/", "?", "@", ","} : Free(HostWritten(e.host), x)
<1>. DEFINE h == e.host
<1>1. Blank \in Quotes
  BY Zenon DEF Quotes
<1>2. /\ IsString(h) /\ IsString(Capitals(h))
      /\ \A x \in {Blank, "/", "?", "@", ","} : Free(h, x) /\ Free(Capitals(h), x)
  <2>1. /\ h \in Seq(Pieces) /\ Lacks(h, Quotes) /\ Lacks(h, Capital \cup {"@", "/", "?", ",", "[", "]", "://"})
    BY EndpointIs
  <2>2. Free(h, Blank) /\ \A x \in {"@", "/", "?", ",", "[", "]", "://"} : Free(h, x)
    BY <1>1, <2>1, LackingIs
  <2>3. Capitals(h) \in Seq(Pieces) /\ \A x : Free(h, x) /\ x # "DB" => Free(Capitals(h), x)
    BY HostIs
  <2>4. Blank # "DB"
    BY LettersAre
  <2>. QED
    BY <2>1, <2>2, <2>3, <2>4 DEF IsString
<1>3. CASE ":" \in Range(h)
  <2>. DEFINE a == <<"[">>
              b == <<"]">>
  <2>1. IsString(a) /\ IsString(b) /\ \A x \in {Blank, "/", "?", "@", ","} : Free(a, x) /\ Free(b, x)
    <3>1. "[" \in Pieces /\ "]" \in Pieces /\ "[" # Blank /\ "]" # Blank
      BY LettersAre
    <3>. QED
      BY <3>1, OneIs
  <2>2. HostWritten(h) = a \o h \o b
    BY <1>3, Zenon DEF HostWritten
  <2>. HIDE DEF a, b, h
  <2>3. IsString(a \o h \o b) /\ \A x \in {Blank, "/", "?", "@", ","} : Free(a \o h \o b, x)
    BY <1>2, <2>1, LongerIs
  <2>. QED
    BY <2>2, <2>3 DEF h
<1>4. CASE ":" \notin Range(h)
  <2>1. HostWritten(h) = Capitals(h)
    BY <1>4, Zenon DEF HostWritten
  <2>. QED
    BY <1>2, <2>1
<1>. QED
  BY <1>3, <1>4

\* The tunnel stands behind the first parameter called ssh.
LEMMA ParametersAre ==
    ASSUME NEW e \in ServerEndpoint, NEW q \in Parameters(e)
    PROVE  IsString(q) /\ Free(q, Blank) /\ Same(SshParameter(Split(q, "&")), e.ssh)
<1>. DEFINE path == <<"/", "@">>
            options == Pair("options", path)
<1>1. path \in Seq(Pieces) /\ Free(path, Blank) /\ Free(path, "&")
  <2>1. "/" \in Pieces /\ "@" \in Pieces /\ "/" # Blank /\ "@" # Blank /\ "/" # "&" /\ "@" # "&"
    BY LettersAre
  <2>. QED
    BY <2>1, TwoAre DEF IsString
<1>. HIDE DEF path
<1>2. /\ options \in Seq(Pieces) /\ Free(options, Blank) /\ Free(options, "&")
      /\ KeyOf(options) = <<"options">>
  <2>1. SmallOf("options") = "options"
    BY DEF SmallOf
  <2>2. "options" \in Literals /\ "options" # "=" /\ "options" # Blank /\ "=" # Blank
    BY LettersAre
  <2>. QED
    BY <1>1, <2>1, <2>2, PairIs
<1>. HIDE DEF options
<1>3. e.ssh \in Seq(Pieces) /\ Free(e.ssh, Blank) /\ Free(e.ssh, "&")
  <2>1. Blank \in Quotes
    BY Zenon DEF Quotes
  <2>. QED
    BY <2>1, EndpointIs, LackingIs
<1>4. CASE q = << >> /\ e.ssh = << >>
  <2>1. IsString(q) /\ Free(q, Blank) /\ Free(q, "&")
    BY <1>4, EmptyIs
  <2>2. Range(Split(q, "&")) = {q}
    BY <2>1, OnePart DEF IsString
  <2>3. ~SplitOnce(q, "=").found
    <3>1. Free(q, "=")
      BY <1>4, EmptyIs
    <3>. QED
      BY <3>1, NoSplit DEF NotFound
  <2>. QED
    BY <1>4, <2>1, <2>2, <2>3, SshIs
<1>5. CASE q = options /\ e.ssh = << >>
  <2>1. IsString(q)
    BY <1>2, <1>5 DEF IsString
  <2>2. Range(Split(q, "&")) = {q}
    BY <1>2, <1>5, OnePart
  <2>. QED
    BY <1>2, <1>5, <2>1, <2>2, SshIs
<1>6. ASSUME NEW key \in {"ssh", "SSH"}, q = options \o (<<"&">> \o Pair(key, e.ssh)), e.ssh # << >>
      PROVE  IsString(q) /\ Free(q, Blank) /\ Same(SshParameter(Split(q, "&")), e.ssh)
  <2>. DEFINE and == "&"
              pair == Pair(key, e.ssh)
  <2>1. /\ pair \in Seq(Pieces) /\ Free(pair, Blank) /\ Free(pair, and) /\ KeyOf(pair) = <<"ssh">>
        /\ SplitOnce(pair, "=").found /\ SplitOnce(pair, "=").right = e.ssh
    <3>1. SmallOf(key) = "ssh"
      BY DEF SmallOf
    <3>2. key \in Literals /\ key # "=" /\ key # Blank /\ "=" # Blank /\ key # "&"
      BY LettersAre
    <3>3. pair \in Seq(Pieces) /\ Free(pair, Blank) /\ Free(pair, and)
      BY <1>3, <3>2, PairIs
    <3>4. KeyOf(pair) = <<"ssh">>
      BY <1>3, <3>1, <3>2, PairIs
    <3>5. SplitOnce(pair, "=") = [found |-> TRUE, left |-> <<key>>, right |-> e.ssh]
      BY <1>3, <3>2, PairIs
    <3>. HIDE DEF pair
    <3>6. SplitOnce(pair, "=").found /\ SplitOnce(pair, "=").right = e.ssh
      BY <3>5
    <3>. QED
      BY <3>3, <3>4, <3>6
  <2>2. and \in Pieces /\ and # Blank /\ Free(options, and)
    BY <1>2, LettersAre
  <2>3. q = options \o (<<and>> \o pair)
    BY <1>6
  <2>. HIDE DEF and, pair
  <2>4. q = options \o <<and>> \o pair
    BY <1>2, <2>1, <2>2, <2>3
  <2>5. Range(Split(options \o <<and>> \o pair, and)) = {options} \cup Range(Split(pair, and))
    BY <1>2, <2>1, <2>2, PartsAre
  <2>6. Range(Split(pair, and)) = {pair}
    BY <2>1, OnePart
  <2>7. Range(Split(q, and)) = {options, pair}
    BY <2>4, <2>5, <2>6
  <2>8. IsString(q) /\ Free(q, Blank)
    <3>1. <<and>> \o pair \in Seq(Pieces) /\ Free(<<and>> \o pair, Blank)
      BY <2>1, <2>2, FrontIs, FreeFront
    <3>. DEFINE r == <<and>> \o pair
    <3>2. IsString(r) /\ Free(r, Blank) /\ IsString(options) /\ q = options \o r
      BY <1>2, <2>3, <3>1 DEF IsString
    <3>. HIDE DEF r
    <3>3. IsString(options \o r) /\ Free(options \o r, Blank)
      BY <1>2, <3>2, TwoStrings, StringsAre
    <3>. QED
      BY <3>2, <3>3
  <2>9. Same(SshParameter(Split(q, and)), e.ssh)
    BY <1>2, <2>1, <2>7, <2>8, SshIs
  <2>. QED
    BY <2>8, <2>9 DEF and
<1>7. \/ q = << >> /\ e.ssh = << >>
      \/ q = options /\ e.ssh = << >>
      \/ \E key \in {"ssh", "SSH"} : q = options \o (<<"&">> \o Pair(key, e.ssh)) /\ e.ssh # << >>
  <2>1. CASE e.ssh = << >>
    <3>1. options \o << >> = options
      BY <1>2
    <3>2. q = << >> \/ q = options \o << >>
      BY <2>1 DEF Parameters, options, path
    <3>. QED
      BY <2>1, <3>1, <3>2
  <2>2. CASE e.ssh # << >>
    BY <2>2, Zenon DEF Parameters, options, path
  <2>. QED
    BY <2>1, <2>2
<1>. QED
  BY <1>4, <1>5, <1>6, <1>7

\* The blank in front goes.
LEMMA BlankGoes ==
    ASSUME NEW s, IsString(s), Free(s, Blank), s # << >>
    PROVE  Same(TrimMatches(<<Blank>> \o s, Blank), s)
<1>. DEFINE blank == <<Blank>>
            none == << >>
<1>1. /\ blank \in Seq(Pieces) /\ none \in Seq(Pieces) /\ s \in Seq(Pieces) /\ Blank \in Pieces
      /\ (\A i \in 1..Len(blank) : blank[i] = Blank) /\ \A i \in 1..Len(none) : none[i] = Blank
  BY BlankIs DEF IsString
<1>2. s[1] # Blank /\ s[Len(s)] # Blank
  <2>1. 1 \in 1..Len(s) /\ Len(s) \in 1..Len(s)
    BY <1>1
  <2>. QED
    BY <1>1, <2>1, FreeIs
<1>3. blank \o s \o none = blank \o s
  BY <1>1
<1>. HIDE DEF blank, none
<1>4. TrimMatches(blank \o s \o none, Blank) = s
  BY <1>1, <1>2, TrimMatchesIs
<1>. QED
  BY <1>3, <1>4, Zenon DEF Same, blank

\* LabelEnd the scheme comes the rest.
LEMMA SchemeGoes ==
    ASSUME NEW scheme \in {"postgres", "postgresql"}, NEW rest, IsString(rest), Free(rest, Blank)
    PROVE  LET s == <<scheme, "://">> \o rest IN
           /\ IsUri(s) /\ IsString(s) /\ Free(s, Blank) /\ s # << >>
           /\ Same(SplitOnce(s, "://").right, rest)
<1>. DEFINE mark == "://"
            s == <<scheme, mark>> \o rest
<1>1. scheme \in Pieces /\ mark \in Pieces /\ scheme # Blank /\ mark # Blank /\ scheme # mark
  BY LettersAre
<1>2. mark = "://"
  OBVIOUS
<1>. HIDE DEF mark
<1>3. rest \in Seq(Pieces)
  BY DEF IsString
<1>4. s \in Seq(Pieces) /\ Len(s) = Len(rest) + 2 /\ s[1] = scheme /\ s[2] = mark
  BY <1>1, <1>3, TwoPieces
<1>5. Free(s, Blank)
  BY <1>1, <1>3, FreeTwo
<1>6. <<scheme, mark>> \o rest = <<scheme>> \o <<mark>> \o rest
  BY <1>1, <1>3, TwoPieces
<1>7. SplitOnce(<<scheme>> \o <<mark>> \o rest, mark) = [found |-> TRUE, left |-> <<scheme>>, right |-> rest]
  BY <1>1, <1>3, CutBehind
<1>8. SplitOnce(s, mark) = [found |-> TRUE, left |-> <<scheme>>, right |-> rest]
  BY <1>6, <1>7, Zenon
<1>. HIDE DEF s
<1>9. SplitOnce(s, mark).right = rest
  BY <1>8
<1>10. IsUri(s) /\ s # << >>
  BY <1>2, <1>3, <1>4 DEF IsUri
<1>11. IsString(s)
  BY <1>4 DEF IsString
<1>. QED
  BY <1>5, <1>9, <1>10, <1>11, Zenon DEF Same, s, mark

\* The rest: credentials, address, alternate hosts, database, parameters.
Rest(c, address, others, dbname, parameters) ==
    Suffixed(c, "@") \o (address \o Prefixed(",", others)) \o Prefixed("/", dbname) \o Prefixed("?", parameters)
RestIsFree(c, address, others, dbname, parameters) ==
    /\ IsString(c) /\ IsString(Suffixed(c, "@")) /\ IsString(address) /\ IsString(others)
    /\ IsString(Prefixed(",", others)) /\ IsString(dbname) /\ IsString(parameters)
    /\ \A x \in {Blank, "/", "?"} : Free(Suffixed(c, "@"), x)
    /\ \A x \in {Blank, "/", "?", "@", ","} : Free(address, x)
    /\ \A x \in {Blank, "/", "?", "@"} : Free(Prefixed(",", others), x)
    /\ Free(dbname, Blank) /\ Free(dbname, "?") /\ Free(parameters, Blank)

LEMMA RestIs ==
    ASSUME NEW c, NEW address, NEW others, NEW dbname, NEW parameters,
           RestIsFree(c, address, others, dbname, parameters)
    PROVE  LET rest == Rest(c, address, others, dbname, parameters)
               query == SplitOnce(rest, "?")
               path == SplitOnce(query.left, "/")
           IN /\ IsString(rest) /\ Free(rest, Blank)
              /\ Same(query.right, parameters) /\ Same(path.right, dbname)
              /\ Same(SplitOnce(WithoutCredentials(path.left), ",").left, address)
<1>. DEFINE cr == Suffixed(c, "@")
            oo == Prefixed(",", others)
            b == address \o oo
            A == cr \o b
            db == Prefixed("/", dbname)
            D == A \o db
            qq == Prefixed("?", parameters)
            rest == D \o qq
            query == SplitOnce(rest, "?")
            path == SplitOnce(query.left, "/")
<1>1. /\ IsString(c) /\ IsString(cr) /\ IsString(address) /\ IsString(others) /\ IsString(oo)
      /\ IsString(dbname) /\ IsString(parameters)
  BY DEF RestIsFree
<1>2. /\ Free(cr, Blank) /\ Free(cr, "/") /\ Free(cr, "?")
      /\ Free(address, Blank) /\ Free(address, "/") /\ Free(address, "?") /\ Free(address, "@") /\ Free(address, ",")
      /\ Free(oo, Blank) /\ Free(oo, "/") /\ Free(oo, "?") /\ Free(oo, "@")
      /\ Free(dbname, Blank) /\ Free(dbname, "?") /\ Free(parameters, Blank)
  BY DEF RestIsFree
<1>3. /\ "/" \in Pieces /\ "?" \in Pieces /\ "," \in Pieces
      /\ "/" # Blank /\ "?" # Blank /\ "/" # "?"
  BY LettersAre
<1>4. IsString(db) /\ Free(db, Blank) /\ Free(db, "?")
  BY <1>1, <1>2, <1>3, PrefixedIs
<1>5. IsString(qq) /\ Free(qq, Blank)
  BY <1>1, <1>2, <1>3, PrefixedIs
<1>6. CutIs(SplitOnce(address \o oo, ","), address, others)
  BY <1>1, <1>2, <1>3, CutPrefixed
<1>. HIDE DEF oo
<1>7. IsString(b) /\ Free(b, Blank) /\ Free(b, "/") /\ Free(b, "?") /\ Free(b, "@")
  BY <1>1, <1>2, TwoStrings, StringsAre
<1>8. CutIs(SplitOnce(b, ","), address, others)
  BY <1>6, Zenon DEF b
<1>. HIDE DEF b
<1>9. Same(WithoutCredentials(A), b)
  BY <1>1, <1>7, CredentialsGo
<1>. HIDE DEF cr
<1>10. IsString(A) /\ Free(A, Blank) /\ Free(A, "/") /\ Free(A, "?")
  BY <1>1, <1>2, <1>7, TwoStrings, StringsAre
<1>. HIDE DEF A
<1>11. CutIs(SplitOnce(D, "/"), A, dbname)
  BY <1>1, <1>3, <1>10, CutPrefixed
<1>. HIDE DEF db
<1>12. IsString(D) /\ Free(D, Blank) /\ Free(D, "?")
  BY <1>4, <1>10, TwoStrings, StringsAre
<1>. HIDE DEF D
<1>13. CutIs(SplitOnce(rest, "?"), D, parameters)
  BY <1>1, <1>3, <1>12, CutPrefixed
<1>. HIDE DEF qq
<1>14. IsString(rest) /\ Free(rest, Blank)
  BY <1>5, <1>12, TwoStrings, StringsAre
<1>15. Same(rest, Rest(c, address, others, dbname, parameters))
  BY Zenon DEF Same, Rest, cr, oo, b, A, db, D, qq
<1>. HIDE DEF rest
<1>16. query.right = parameters /\ query.left = D
  BY <1>13 DEF CutIs
<1>. HIDE DEF query
<1>17. path.right = dbname /\ path.left = A
  BY <1>11, <1>16 DEF CutIs
<1>. HIDE DEF path
<1>18. SplitOnce(WithoutCredentials(path.left), ",").left = address
  BY <1>8, <1>9, <1>17, Zenon DEF CutIs, Same
<1>. QED
  BY <1>14, <1>15, <1>16, <1>17, <1>18, Zenon DEF Same, query, path

\* Six strings behind one another, put together as they are read.
LEMMA RestIsGrouped ==
    ASSUME NEW h, NEW c, NEW w, NEW p, NEW o, NEW d, NEW q,
           IsString(h), AreStrings(c, w, p, o, d, q)
    PROVE  Same(h \o c \o w \o p \o o \o d \o q, h \o (c \o (w \o p \o o) \o d \o q))
<1>. DEFINE wp == w \o p
            wpo == wp \o o
            all == c \o wpo
            alld == all \o d
            hc == h \o c
            hcw == hc \o w
            hcwp == hcw \o p
            cw == c \o w
            cwp == cw \o p
<1>1. IsString(h) /\ IsString(c) /\ IsString(w) /\ IsString(p) /\ IsString(o) /\ IsString(d) /\ IsString(q)
  BY DEF AreStrings
<1>2. IsString(wp) /\ IsString(cw) /\ IsString(hc)
  BY <1>1, TwoStrings
<1>3. c \o wp = cw \o p
  BY <1>1, Chained
<1>4. h \o cw = hc \o w
  BY <1>1, Chained
<1>. HIDE DEF wp, cw, hc
<1>5. IsString(wpo) /\ IsString(cwp)
  BY <1>1, <1>2, TwoStrings
<1>6. c \o wpo = (c \o wp) \o o
  <2>1. IsString(c) /\ IsString(wp) /\ IsString(o)
    BY <1>1, <1>2
  <2>. QED
    BY <2>1, Chained
<1>7. h \o cwp = (h \o cw) \o p
  <2>1. IsString(h) /\ IsString(cw) /\ IsString(p)
    BY <1>1, <1>2
  <2>. QED
    BY <2>1, Chained
<1>. HIDE DEF wpo, cwp
<1>8. all = cwp \o o
  BY <1>3, <1>6, Zenon DEF cwp, all
<1>9. h \o (cwp \o o) = (h \o cwp) \o o
  <2>1. IsString(h) /\ IsString(cwp) /\ IsString(o)
    BY <1>1, <1>5
  <2>. QED
    BY <2>1, Chained
<1>10. h \o all = hcwp \o o
  BY <1>4, <1>7, <1>8, <1>9, Zenon DEF hcwp, hcw
<1>11. IsString(all)
  BY <1>1, <1>5, TwoStrings
<1>. HIDE DEF all
<1>12. h \o (all \o d) = (h \o all) \o d
  <2>1. IsString(h) /\ IsString(all) /\ IsString(d)
    BY <1>1, <1>11
  <2>. QED
    BY <2>1, Chained
<1>14. IsString(alld)
  BY <1>1, <1>11, TwoStrings
<1>. HIDE DEF alld
<1>13. h \o (alld \o q) = (h \o alld) \o q
  <2>1. IsString(h) /\ IsString(alld) /\ IsString(q)
    BY <1>1, <1>14
  <2>. QED
    BY <2>1, Chained
<1>. QED
  BY <1>10, <1>12, <1>13, Zenon DEF Same, wp, wpo, all, alld, hc, hcw, hcwp

\* Every URI leads to the endpoint.
LEMMA UriParses ==
    ASSUME NEW e \in ServerEndpoint, NEW scheme \in {"postgres", "postgresql"}, NEW port \in PortWritten(e),
           NEW credentials \in {<< >>, <<"u">>, <<"u", ":", "p", "@", "q">>},
           NEW others \in {<< >>, <<"db", "2", ":", "5432">>}, NEW parameters \in Parameters(e)
    PROVE  Parse(UriForm(e, scheme, credentials, port, others, parameters)) = e
<1>. DEFINE hw == HostWritten(e.host)
            pp == Prefixed(":", port)
            address == hw \o pp
            rest == Rest(credentials, address, others, e.dbname, parameters)
            head == <<scheme, "://">>
            s == UriForm(e, scheme, credentials, port, others, parameters)
<1>1. /\ IsString(e.dbname) /\ Free(e.dbname, Blank) /\ Free(e.dbname, "?")
  <2>1. Blank \in Quotes
    BY Zenon DEF Quotes
  <2>. QED
    BY <2>1, EndpointIs, LackingIs DEF IsString
<1>2. IsString(hw) /\ IsString(pp) /\ \A x \in {Blank, "/", "?", "@", ","} : Free(hw, x) /\ Free(pp, x)
  BY PortsAre, HostsAre
<1>3. IsString(parameters) /\ Free(parameters, Blank) /\ Same(SshParameter(Split(parameters, "&")), e.ssh)
  BY ParametersAre
<1>4. LET found == HostAndPort(hw \o pp) IN Same(ToLowercase(found.left), e.host) /\ Same(found.right, port)
  BY PortsAre, HostAndPortIs
<1>. HIDE DEF hw, pp
<1>5. IsString(address) /\ \A x \in {Blank, "/", "?", "@", ","} : Free(address, x)
  BY <1>2, TwoStrings, StringsAre
<1>6. LET found == HostAndPort(address) IN Same(ToLowercase(found.left), e.host) /\ Same(found.right, port)
  BY <1>4
<1>. HIDE DEF address
<1>7. RestIsFree(credentials, address, others, e.dbname, parameters)
  BY <1>1, <1>3, <1>5, CredentialsAre, OthersAre DEF RestIsFree
<1>8. /\ IsString(rest) /\ Free(rest, Blank)
      /\ Same(SplitOnce(rest, "?").right, parameters)
      /\ Same(SplitOnce(SplitOnce(rest, "?").left, "/").right, e.dbname)
      /\ Same(SplitOnce(WithoutCredentials(SplitOnce(SplitOnce(rest, "?").left, "/").left), ",").left, address)
  BY <1>7, RestIs
<1>9. Same(s, <<Blank>> \o (head \o rest))
  <2>. DEFINE h == <<Blank, scheme, "://">>
              c == Suffixed(credentials, "@")
              o == Prefixed(",", others)
              d == Prefixed("/", e.dbname)
              q == Prefixed("?", parameters)
  <2>1. "/" \in Pieces /\ "?" \in Pieces /\ "://" \in Pieces /\ scheme \in Pieces /\ Blank \in Pieces
    BY LettersAre, BlankIs
  <2>2. IsString(h)
    BY <2>1 DEF IsString
  <2>3. AreStrings(c, hw, pp, o, d, q)
    BY <1>1, <1>2, <1>3, <2>1, CredentialsAre, OthersAre, PrefixedIs DEF AreStrings
  <2>. HIDE DEF h, c, o, d, q
  <2>4. Same(h \o c \o hw \o pp \o o \o d \o q, h \o (c \o (hw \o pp \o o) \o d \o q))
    BY <2>2, <2>3, RestIsGrouped
  <2>5. Same(h \o c \o hw \o pp \o o \o d \o q, s)
    BY Zenon DEF Same, UriForm, h, c, hw, pp, o, d, q
  <2>6. Same(h \o (c \o (hw \o pp \o o) \o d \o q), h \o rest)
    BY Zenon DEF Same, Rest, address, c, o, d, q
  <2>7. Same(h \o rest, <<Blank>> \o (head \o rest))
    <3>1. rest \in Seq(Pieces)
      BY <1>8 DEF IsString
    <3>. HIDE DEF rest
    <3>2. <<Blank, scheme, "://">> \o rest = <<Blank>> \o (head \o rest)
      BY <2>1, <3>1
    <3>. QED
      BY <3>2 DEF Same, h
  <2>. QED
    BY <2>4, <2>5, <2>6, <2>7, Zenon DEF Same
<1>. HIDE DEF s, rest
<1>10. /\ IsUri(head \o rest) /\ IsString(head \o rest) /\ Free(head \o rest, Blank) /\ head \o rest # << >>
       /\ Same(SplitOnce(head \o rest, "://").right, rest)
  BY <1>8, SchemeGoes
<1>. DEFINE t == head \o rest
<1>. HIDE DEF t
<1>11. /\ IsUri(t) /\ IsString(t) /\ Free(t, Blank) /\ t # << >> /\ Same(SplitOnce(t, "://").right, rest)
       /\ Same(s, <<Blank>> \o t)
  BY <1>9, <1>10, Zenon DEF t
<1>12. Same(TrimMatches(<<Blank>> \o t, Blank), t)
  BY <1>11, BlankGoes
<1>13. Parse(s) = ParseUri(t)
  BY <1>11, <1>12, Zenon DEF Parse, Same
<1>14. ParseUri(t) = [host |-> OrElse(ToLowercase(HostAndPort(address).left), UNKNOWN_HOST),
                      port |-> OrElse(HostAndPort(address).right, DEFAULT_PORT),
                      ssh |-> SshParameter(Split(parameters, "&")), dbname |-> e.dbname]
  BY <1>8, <1>11, Zenon DEF ParseUri, Same
<1>15. OrElse(ToLowercase(HostAndPort(address).left), UNKNOWN_HOST) = e.host
  BY <1>6, EndpointIs DEF OrElse, Same
<1>16. OrElse(HostAndPort(address).right, DEFAULT_PORT) = e.port
  BY <1>6, EndpointIs DEF OrElse, Same, PortWritten
<1>17. ParseUri(t) = [host |-> e.host, port |-> e.port, ssh |-> e.ssh, dbname |-> e.dbname]
  BY <1>3, <1>14, <1>15, <1>16, Zenon DEF Same
<1>18. e = [host |-> e.host, port |-> e.port, ssh |-> e.ssh, dbname |-> e.dbname]
  BY DEF ServerEndpoint
<1>. QED
  BY <1>13, <1>17, <1>18, Zenon DEF s

-----------------------------------------------------------------------------
(* Keys and labels.                                                        *)

LEMMA PartsOfEndpoint ==
    ASSUME NEW e \in ServerEndpoint
    PROVE  /\ IsString(e.host) /\ IsString(e.port) /\ IsString(e.ssh) /\ IsString(e.dbname)
           /\ e.host # << >> /\ e.port # << >>
           /\ Free(e.host, "/") /\ Free(e.host, "://") /\ Free(e.host, Blank)
           /\ Free(e.port, "/") /\ Free(e.port, ":") /\ Free(e.port, Blank)
           /\ Free(e.ssh, "/")
<1>1. Blank \in Quotes
  BY Zenon DEF Quotes
<1>. QED
  BY <1>1, EndpointIs, LackingIs DEF IsString

\* A mark cuts only one way, where it is the first and where it is the last.
LEMMA FirstCutIs ==
    ASSUME NEW mark \in Pieces, NEW a, NEW b, NEW c, NEW d,
           IsString(a) /\ IsString(b) /\ IsString(c) /\ IsString(d), Free(a, mark), Free(c, mark),
           Same(a \o <<mark>> \o b, c \o <<mark>> \o d)
    PROVE  Same(a, c) /\ Same(b, d)
<1>1. /\ SplitOnce(a \o <<mark>> \o b, mark) = [found |-> TRUE, left |-> a, right |-> b]
      /\ SplitOnce(c \o <<mark>> \o d, mark) = [found |-> TRUE, left |-> c, right |-> d]
  BY SplitIs DEF IsString
<1>2. [found |-> TRUE, left |-> a, right |-> b] = [found |-> TRUE, left |-> c, right |-> d]
  BY <1>1, Zenon DEF Same
<1>. QED
  BY <1>2 DEF Same

LEMMA LastCutIs ==
    ASSUME NEW mark \in Pieces, NEW a, NEW b, NEW c, NEW d,
           IsString(a) /\ IsString(b) /\ IsString(c) /\ IsString(d), Free(b, mark), Free(d, mark),
           Same(a \o <<mark>> \o b, c \o <<mark>> \o d)
    PROVE  Same(a, c) /\ Same(b, d)
<1>1. /\ RSplitOnce(a \o <<mark>> \o b, mark) = [found |-> TRUE, left |-> a, right |-> b]
      /\ RSplitOnce(c \o <<mark>> \o d, mark) = [found |-> TRUE, left |-> c, right |-> d]
  BY SplitIs DEF IsString
<1>2. [found |-> TRUE, left |-> a, right |-> b] = [found |-> TRUE, left |-> c, right |-> d]
  BY <1>1, Zenon DEF Same
<1>. QED
  BY <1>2 DEF Same

\* What stands between the same ends is told by the whole.
LEMMA BetweenIs ==
    ASSUME NEW a, NEW b, NEW s, NEW t, IsString(a) /\ IsString(b) /\ IsString(s) /\ IsString(t),
           Same(a \o s \o b, a \o t \o b)
    PROVE  Same(s, t)
<1>1. a \in Seq(Pieces) /\ b \in Seq(Pieces) /\ s \in Seq(Pieces) /\ t \in Seq(Pieces)
  BY DEF IsString
<1>. DEFINE x == a \o s \o b
            y == a \o t \o b
<1>2. /\ Len(x) = Len(a) + Len(s) + Len(b) /\ \A i \in 1..Len(s) : x[Len(a) + i] = s[i]
      /\ Len(y) = Len(a) + Len(t) + Len(b) /\ \A i \in 1..Len(t) : y[Len(a) + i] = t[i]
  BY <1>1
<1>3. x = y
  BY Zenon DEF Same
<1>. HIDE DEF x, y
<1>4. Len(s) = Len(t) /\ \A i \in 1..Len(s) : s[i] = t[i]
  BY <1>1, <1>2, <1>3
<1>5. s = t
  BY <1>1, <1>4, SeqEqual
<1>. QED
  BY <1>5 DEF Same

Address(e) == e.host \o <<":">> \o e.port
Tunnel(e) == <<"ssh", "://">> \o e.ssh

LEMMA AddressIs ==
    ASSUME NEW e \in ServerEndpoint
    PROVE  /\ IsString(Address(e)) /\ Free(Address(e), "/")
           /\ Len(Address(e)) > 1 /\ Address(e)[2] # "://"
<1>. DEFINE colon == ":"
            h == e.host
            p == e.port
            a == h \o <<colon>> \o p
<1>1. colon \in Pieces /\ colon # "://" /\ colon # "/"
  BY LettersAre
<1>2. /\ IsString(h) /\ IsString(p) /\ h # << >> /\ Free(h, "://") /\ Free(h, "/") /\ Free(p, "/")
  BY PartsOfEndpoint
<1>3. IsString(<<colon>>) /\ Free(<<colon>>, "/")
  BY <1>1, OneIs
<1>. HIDE DEF colon, h, p
<1>4. h \in Seq(Pieces) /\ p \in Seq(Pieces)
  BY <1>2 DEF IsString
<1>5. /\ a \in Seq(Pieces) /\ Len(a) = Len(h) + 1 + Len(p)
      /\ \A i \in 1..Len(h) : a[i] = h[i]
      /\ a[Len(h) + 1] = colon
  BY <1>1, <1>4, Around
<1>6. Free(a, "/")
  BY <1>2, <1>3, LongerIs
<1>. HIDE DEF a
<1>7. Len(a) > 1
  BY <1>2, <1>4, <1>5
<1>8. a[2] # "://"
  <2>1. CASE Len(h) = 1
    BY <1>1, <1>5, <2>1
  <2>2. CASE Len(h) # 1
    <3>2. Len(h) \in Nat /\ Len(h) # 0
      BY <1>2, <1>4
    <3>1. 2 \in 1..Len(h)
      <4>1. \A n \in Nat : n # 0 /\ n # 1 => 2 \in 1..n
        OBVIOUS
      <4>. QED
        BY <2>2, <3>2, <4>1, Zenon
    <3>. QED
      BY <1>2, <1>4, <1>5, <3>1, FreeIs
  <2>. QED
    BY <2>1, <2>2
<1>9. a = Address(e)
  BY Zenon DEF a, Address, colon, h, p
<1>10. IsString(a)
  BY <1>5 DEF IsString
<1>. QED
  BY <1>6, <1>7, <1>8, <1>9, <1>10

LEMMA TunnelIs ==
    ASSUME NEW e \in ServerEndpoint
    PROVE  IsString(Tunnel(e)) /\ Free(Tunnel(e), "/") /\ Len(Tunnel(e)) > 1 /\ Tunnel(e)[2] = "://"
<1>. DEFINE p == "ssh"
            q == "://"
            s == <<p, q>> \o e.ssh
<1>1. p \in Pieces /\ q \in Pieces /\ p # "/" /\ q # "/" /\ q = "://"
  BY LettersAre
<1>2. e.ssh \in Seq(Pieces) /\ Free(e.ssh, "/")
  BY PartsOfEndpoint DEF IsString
<1>. HIDE DEF p, q
<1>3. s \in Seq(Pieces) /\ Len(s) = Len(e.ssh) + 2 /\ s[2] = q
  BY <1>1, <1>2, TwoPieces
<1>4. Free(s, "/")
  BY <1>1, <1>2, FreeTwo
<1>5. s = Tunnel(e)
  BY Zenon DEF s, Tunnel, p, q
<1>. HIDE DEF s
<1>6. Len(s) > 1 /\ IsString(s)
  BY <1>2, <1>3 DEF IsString
<1>. QED
  BY <1>1, <1>3, <1>4, <1>5, <1>6

\* What stands in front decides the second piece.
LEMMA SecondIs ==
    ASSUME NEW a, NEW b, IsString(a) /\ IsString(b), Len(a) > 1
    PROVE  (a \o b)[2] = a[2]
<1>1. a \in Seq(Pieces) /\ b \in Seq(Pieces) /\ 2 \in 1..Len(a)
  BY DEF IsString
<1>. QED
  BY <1>1

LEMMA FiveChained ==
    ASSUME NEW t, NEW s, NEW a, NEW d, IsString(t) /\ IsString(s) /\ IsString(a) /\ IsString(d)
    PROVE  Same((t \o s \o a) \o s \o d, t \o s \o (a \o s \o d))
<1>. DEFINE ts == t \o s
            sd == s \o d
<1>1. IsString(ts) /\ IsString(sd)
  BY TwoStrings
<1>. HIDE DEF ts, sd
<1>2. ts \o (a \o sd) = ts \o a \o sd
  <2>1. IsString(ts) /\ IsString(a) /\ IsString(sd)
    BY <1>1
  <2>. QED
    BY <2>1, Chained
<1>3. a \o (s \o d) = a \o s \o d
  <2>1. IsString(a) /\ IsString(s) /\ IsString(d)
    OBVIOUS
  <2>. QED
    BY <2>1, Chained
<1>. DEFINE tsa == ts \o a
<1>4. IsString(tsa)
  BY <1>1, TwoStrings
<1>. HIDE DEF tsa
<1>5. tsa \o (s \o d) = tsa \o s \o d
  <2>1. IsString(tsa) /\ IsString(s) /\ IsString(d)
    BY <1>4
  <2>. QED
    BY <2>1, Chained
<1>. QED
  BY <1>2, <1>3, <1>5, Zenon DEF Same, ts, sd, tsa

\* A key, and what stands behind a slash: the parts are what they were.
Located(e, d) == (IF e.ssh = << >> THEN Address(e) ELSE Tunnel(e) \o <<"/">> \o Address(e)) \o <<"/">> \o d

LEMMA LocatedIs ==
    ASSUME NEW e \in ServerEndpoint, NEW d, IsString(d)
    PROVE  /\ e.ssh = << >> => Same(Located(e, d), Address(e) \o <<"/">> \o d)
                               /\ Located(e, d)[2] # "://"
           /\ e.ssh # << >> => Same(Located(e, d), Tunnel(e) \o <<"/">> \o (Address(e) \o <<"/">> \o d))
                               /\ Located(e, d)[2] = "://"
<1>. DEFINE slash == <<"/">>
            a == Address(e)
            t == Tunnel(e)
            right == a \o slash \o d
<1>1. IsString(slash)
  <2>1. "/" \in Pieces
    BY LettersAre
  <2>. QED
    BY <2>1, OneIs
<1>2. /\ IsString(a) /\ Len(a) > 1 /\ a[2] # "://"
      /\ IsString(t) /\ Len(t) > 1 /\ t[2] = "://"
  BY AddressIs, TunnelIs
<1>. HIDE DEF slash, a, t
<1>3. IsString(a \o slash) /\ IsString(slash \o d) /\ IsString(right) /\ IsString(t \o slash) /\ IsString(slash \o right)
  <2>1. IsString(a \o slash) /\ IsString(slash \o d) /\ IsString(t \o slash)
    BY <1>1, <1>2, TwoStrings
  <2>2. IsString(right)
    BY <1>1, <1>2, <2>1, TwoStrings
  <2>. HIDE DEF right
  <2>3. IsString(slash \o right)
    BY <1>1, <2>2, TwoStrings
  <2>. QED
    BY <2>1, <2>2, <2>3
<1>4. CASE e.ssh = << >>
  <2>1. Located(e, d) = right
    BY <1>4, Zenon DEF Located, slash, a, t
  <2>2. a \o (slash \o d) = right
    <3>1. IsString(a) /\ IsString(slash) /\ IsString(d)
      BY <1>1, <1>2
    <3>. QED
      BY <3>1, Chained
  <2>3. (a \o (slash \o d))[2] = a[2]
    <3>1. IsString(a) /\ IsString(slash \o d) /\ Len(a) > 1
      BY <1>2, <1>3
    <3>. QED
      BY <3>1, SecondIs
  <2>. QED
    BY <1>2, <1>4, <2>1, <2>2, <2>3, Zenon DEF Same, slash, a
<1>5. CASE e.ssh # << >>
  <2>1. Located(e, d) = (t \o slash \o a) \o slash \o d
    BY <1>5, Zenon DEF Located, slash, a, t
  <2>2. Same((t \o slash \o a) \o slash \o d, t \o slash \o (a \o slash \o d))
    <3>1. IsString(t) /\ IsString(slash) /\ IsString(a) /\ IsString(d)
      BY <1>1, <1>2
    <3>. QED
      BY <3>1, FiveChained
  <2>3. t \o (slash \o right) = (t \o slash) \o right
    <3>1. IsString(t) /\ IsString(slash) /\ IsString(right)
      BY <1>1, <1>2, <1>3
    <3>. HIDE DEF right
    <3>. QED
      BY <3>1, Chained
  <2>4. (t \o (slash \o right))[2] = t[2]
    <3>1. IsString(t) /\ IsString(slash \o right) /\ Len(t) > 1
      BY <1>2, <1>3
    <3>. HIDE DEF right
    <3>. QED
      BY <3>1, SecondIs
  <2>. QED
    BY <1>2, <1>5, <2>1, <2>2, <2>3, <2>4, Zenon DEF Same, slash, a, t, right
<1>. QED
  BY <1>4, <1>5

LEMMA AddressTells ==
    ASSUME NEW e \in ServerEndpoint, NEW f \in ServerEndpoint, Same(Address(e), Address(f))
    PROVE  e.host = f.host /\ e.port = f.port
<1>. DEFINE colon == ":"
<1>1. colon \in Pieces
  BY LettersAre
<1>2. /\ IsString(e.host) /\ IsString(e.port) /\ IsString(f.host) /\ IsString(f.port)
      /\ Free(e.port, colon) /\ Free(f.port, colon)
  BY PartsOfEndpoint
<1>3. Same(e.host \o <<colon>> \o e.port, f.host \o <<colon>> \o f.port)
  BY Zenon DEF Address, Same
<1>. HIDE DEF colon
<1>4. Same(e.host, f.host) /\ Same(e.port, f.port)
  BY <1>1, <1>2, <1>3, LastCutIs
<1>. QED
  BY <1>4 DEF Same

LEMMA TunnelTells ==
    ASSUME NEW e \in ServerEndpoint, NEW f \in ServerEndpoint, Same(Tunnel(e), Tunnel(f))
    PROVE  e.ssh = f.ssh
<1>. DEFINE head == <<"ssh", "://">>
            none == << >>
<1>1. IsString(head) /\ IsString(none) /\ IsString(e.ssh) /\ IsString(f.ssh)
  <2>1. "ssh" \in Pieces /\ "://" \in Pieces
    BY LettersAre
  <2>. QED
    BY <2>1, TwoAre, EmptyIs, PartsOfEndpoint
<1>2. Tunnel(e) = head \o e.ssh /\ Tunnel(f) = head \o f.ssh
  BY DEF Tunnel
<1>3. IsString(Tunnel(e)) /\ Tunnel(e) \o none = Tunnel(e) /\ Tunnel(f) \o none = Tunnel(f)
  BY TunnelIs DEF IsString
<1>. HIDE DEF head, none
<1>4. Same(head \o e.ssh \o none, head \o f.ssh \o none)
  BY <1>2, <1>3, Zenon DEF Same
<1>5. Same(e.ssh, f.ssh)
  BY <1>1, <1>4, BetweenIs
<1>. QED
  BY <1>5 DEF Same

LEMMA LocatedTells ==
    ASSUME NEW e \in ServerEndpoint, NEW f \in ServerEndpoint, NEW d, NEW g, IsString(d), IsString(g),
           Same(Located(e, d), Located(f, g))
    PROVE  SameServer(e, f) /\ d = g
<1>. DEFINE slash == "/"
<1>1. slash \in Pieces
  BY LettersAre
<1>2. /\ IsString(Address(e)) /\ IsString(Address(f)) /\ IsString(Tunnel(e)) /\ IsString(Tunnel(f))
      /\ Free(Address(e), slash) /\ Free(Address(f), slash) /\ Free(Tunnel(e), slash) /\ Free(Tunnel(f), slash)
  BY AddressIs, TunnelIs
<1>3. /\ e.ssh = << >> => Same(Located(e, d), Address(e) \o <<slash>> \o d) /\ Located(e, d)[2] # "://"
      /\ e.ssh # << >> => Same(Located(e, d), Tunnel(e) \o <<slash>> \o (Address(e) \o <<slash>> \o d))
                          /\ Located(e, d)[2] = "://"
  BY LocatedIs
<1>4. /\ f.ssh = << >> => Same(Located(f, g), Address(f) \o <<slash>> \o g) /\ Located(f, g)[2] # "://"
      /\ f.ssh # << >> => Same(Located(f, g), Tunnel(f) \o <<slash>> \o (Address(f) \o <<slash>> \o g))
                          /\ Located(f, g)[2] = "://"
  BY LocatedIs
<1>. HIDE DEF slash
<1>5. e.ssh = << >> <=> f.ssh = << >>
  BY <1>3, <1>4, Zenon DEF Same
<1>6. ASSUME Same(Address(e) \o <<slash>> \o d, Address(f) \o <<slash>> \o g)
      PROVE  e.host = f.host /\ e.port = f.port /\ d = g
  <2>1. Same(Address(e), Address(f)) /\ Same(d, g)
    BY <1>1, <1>2, <1>6, FirstCutIs
  <2>. QED
    BY <2>1, AddressTells DEF Same
<1>7. CASE e.ssh = << >>
  <2>1. Same(Address(e) \o <<slash>> \o d, Address(f) \o <<slash>> \o g)
    BY <1>3, <1>4, <1>5, <1>7, Zenon DEF Same
  <2>. QED
    BY <1>5, <1>6, <1>7, <2>1 DEF SameServer
<1>8. CASE e.ssh # << >>
  <2>. DEFINE x == Address(e) \o <<slash>> \o d
              y == Address(f) \o <<slash>> \o g
  <2>1. Same(Tunnel(e) \o <<slash>> \o x, Tunnel(f) \o <<slash>> \o y)
    BY <1>3, <1>4, <1>5, <1>8, Zenon DEF Same
  <2>2. IsString(x) /\ IsString(y)
    <3>1. IsString(<<slash>>)
      BY <1>1, OneIs
    <3>. QED
      BY <1>2, <3>1, LongerIs
  <2>. HIDE DEF x, y
  <2>3. Same(Tunnel(e), Tunnel(f)) /\ Same(x, y)
    BY <1>1, <1>2, <2>1, <2>2, FirstCutIs
  <2>4. e.ssh = f.ssh
    BY <2>3, TunnelTells
  <2>. QED
    BY <1>6, <2>3, <2>4 DEF SameServer, x, y
<1>. QED
  BY <1>7, <1>8

LEMMA SlashIs == IsString(<<"/">>)
<1>1. "/" \in Pieces
  BY LettersAre
<1>. QED
  BY <1>1, OneIs

\* The key, with a database behind it, as the lemmas about them see it.
LEMMA KeyIs ==
    ASSUME NEW e \in ServerEndpoint
    PROVE  /\ IsString(Key(e))
           /\ \A d : Key(e) \o <<"/">> \o d = Located(e, d)
<1>. DEFINE slash == <<"/">>
            head == <<"ssh", "://">>
            colon == <<":">>
            t == Tunnel(e)
            a == Address(e)
            h == e.host
            p == e.port
<1>1. IsString(slash) /\ IsString(colon) /\ IsString(h) /\ IsString(p) /\ IsString(t) /\ IsString(a)
  <2>1. ":" \in Pieces
    BY LettersAre
  <2>. QED
    BY <2>1, SlashIs, OneIs, PartsOfEndpoint, AddressIs, TunnelIs
<1>2. t = head \o e.ssh /\ a = h \o colon \o p
  BY DEF Tunnel, Address
<1>. HIDE DEF slash, head, colon, t, a, h, p
<1>3. CASE e.ssh = << >>
  <2>1. IsString(h \o colon) /\ << >> \o h = h
    BY <1>1, TwoStrings DEF IsString
  <2>2. Key(e) = << >> \o h \o colon \o p
    BY <1>3, Zenon DEF Key, h, colon, p
  <2>3. Key(e) = a
    BY <1>2, <2>1, <2>2, Zenon
  <2>. QED
    BY <1>1, <1>3, <2>3, Zenon DEF Located, a
<1>4. CASE e.ssh # << >>
  <2>. DEFINE ts == t \o slash
              hc == h \o colon
  <2>1. Key(e) = ts \o h \o colon \o p
    BY <1>2, <1>4, Zenon DEF Key, h, colon, p, head, slash, ts
  <2>2. IsString(ts) /\ IsString(hc) /\ IsString(ts \o a)
    <3>1. IsString(ts) /\ IsString(hc)
      BY <1>1, TwoStrings
    <3>. HIDE DEF ts, hc
    <3>. QED
      BY <1>1, <3>1, TwoStrings
  <2>. HIDE DEF ts
  <2>3. ts \o (h \o colon) = ts \o h \o colon
    <3>1. IsString(ts) /\ IsString(h) /\ IsString(colon)
      BY <1>1, <2>2
    <3>. QED
      BY <3>1, Chained
  <2>. HIDE DEF hc
  <2>4. ts \o (hc \o p) = ts \o hc \o p
    <3>1. IsString(ts) /\ IsString(hc) /\ IsString(p)
      BY <1>1, <2>2
    <3>. QED
      BY <3>1, Chained
  <2>5. Key(e) = ts \o a
    BY <1>2, <2>1, <2>3, <2>4, Zenon DEF hc
  <2>6. \A d : Located(e, d) = (ts \o a) \o slash \o d
    BY <1>4, Zenon DEF Located, ts, t, slash, a
  <2>. QED
    BY <2>2, <2>5, <2>6, Zenon DEF slash
<1>. QED
  BY <1>3, <1>4

LEMMA KeyTells ==
    ASSUME NEW e \in ServerEndpoint, NEW f \in ServerEndpoint
    PROVE  Key(e) = Key(f) <=> SameServer(e, f)
<1>1. ASSUME Key(e) = Key(f)
      PROVE  SameServer(e, f)
  <2>. DEFINE none == << >>
  <2>1. IsString(none)
    BY EmptyIs
  <2>. HIDE DEF none
  <2>2. Same(Located(e, none), Located(f, none))
    BY <1>1, KeyIs, Zenon DEF Same
  <2>. QED
    BY <2>1, <2>2, LocatedTells
<1>2. ASSUME SameServer(e, f)
      PROVE  Key(e) = Key(f)
  BY <1>2 DEF SameServer, Key
<1>. QED
  BY <1>1, <1>2

LEMMA DatabaseKeyTells ==
    ASSUME NEW e \in ServerEndpoint, NEW f \in ServerEndpoint
    PROVE  (DatabaseKey(e) = DatabaseKey(f) /\ DatabaseKey(e) # << >>)
           <=> (SameServer(e, f) /\ e.dbname = f.dbname /\ e.dbname # << >>)
<1>1. ASSUME NEW g \in ServerEndpoint
      PROVE  /\ g.dbname = << >> => DatabaseKey(g) = << >>
             /\ g.dbname # << >> => DatabaseKey(g) = Located(g, g.dbname) /\ DatabaseKey(g) # << >>
  <2>. DEFINE slash == <<"/">>
              k == Key(g)
              d == g.dbname
  <2>1. IsString(k) /\ IsString(d) /\ IsString(slash) /\ Len(slash) = 1
    BY KeyIs, PartsOfEndpoint, SlashIs
  <2>. HIDE DEF slash, k, d
  <2>2. k \o slash \o d # << >>
    <3>1. k \in Seq(Pieces) /\ d \in Seq(Pieces) /\ slash \in Seq(Pieces)
      BY <2>1 DEF IsString
    <3>2. Len(k \o slash \o d) = Len(k) + Len(slash) + Len(d) /\ Len(k) \in Nat /\ Len(d) \in Nat
      BY <3>1
    <3>3. Len(k \o slash \o d) # 0
      BY <2>1, <3>2
    <3>. QED
      BY <3>3
  <2>3. k \o slash \o d = Located(g, g.dbname)
    BY KeyIs, Zenon DEF k, slash, d
  <2>4. d # << >> => DatabaseKey(g) = k \o slash \o d
    BY Zenon DEF DatabaseKey, k, slash, d
  <2>. QED
    BY <2>2, <2>3, <2>4, Zenon DEF DatabaseKey, d
<1>2. ASSUME DatabaseKey(e) = DatabaseKey(f), DatabaseKey(e) # << >>
      PROVE  SameServer(e, f) /\ e.dbname = f.dbname /\ e.dbname # << >>
  <2>1. e.dbname # << >> /\ f.dbname # << >>
    BY <1>1, <1>2, Zenon
  <2>2. Same(Located(e, e.dbname), Located(f, f.dbname))
    BY <1>1, <1>2, <2>1, Zenon DEF Same
  <2>3. IsString(e.dbname) /\ IsString(f.dbname)
    BY PartsOfEndpoint
  <2>4. SameServer(e, f) /\ e.dbname = f.dbname
    BY <2>2, <2>3, LocatedTells
  <2>. QED
    BY <2>1, <2>4
<1>3. ASSUME SameServer(e, f), e.dbname = f.dbname, e.dbname # << >>
      PROVE  DatabaseKey(e) = DatabaseKey(f) /\ DatabaseKey(e) # << >>
  <2>1. Key(e) = Key(f)
    BY <1>3, KeyTells
  <2>2. DatabaseKey(e) = DatabaseKey(f)
    BY <1>3, <2>1, Zenon DEF DatabaseKey
  <2>. QED
    BY <1>1, <1>3, <2>2, Zenon
<1>. QED
  BY <1>2, <1>3

-----------------------------------------------------------------------------
(* Labels: up to the first blank the host, and the port when it is not the *)
(* one everybody uses; behind it the tunnel.                               *)

PortOf(e) == IF e.port = DEFAULT_PORT THEN << >> ELSE e.port
LabelFront(e) == e.host \o Prefixed(":", PortOf(e))
TunnelPart(e) == <<"(via", Blank, "ssh", Blank>> \o e.ssh \o <<")">>
LabelEnd(e) == IF e.ssh = << >> THEN << >> ELSE TunnelPart(e)

LEMMA FrontOfLabel ==
    ASSUME NEW e \in ServerEndpoint
    PROVE  IsString(LabelFront(e)) /\ Free(LabelFront(e), Blank) /\ IsString(PortOf(e)) /\ Free(PortOf(e), ":")
<1>1. IsString(PortOf(e)) /\ Free(PortOf(e), ":") /\ Free(PortOf(e), Blank)
  BY PartsOfEndpoint, EmptyIs DEF PortOf
<1>2. ":" \in Pieces /\ ":" # Blank
  BY LettersAre
<1>. DEFINE p == Prefixed(":", PortOf(e))
            h == e.host
<1>3. IsString(p) /\ Free(p, Blank) /\ IsString(h) /\ Free(h, Blank)
  BY <1>1, <1>2, PrefixedIs, PartsOfEndpoint
<1>. HIDE DEF p, h
<1>4. IsString(h \o p) /\ Free(h \o p, Blank)
  BY <1>3, TwoStrings, StringsAre
<1>. QED
  BY <1>1, <1>4, Zenon DEF LabelFront, p, h

LEMMA ViaIs ==
    ASSUME NEW e \in ServerEndpoint, NEW f \in ServerEndpoint
    PROVE  /\ IsString(TunnelPart(e)) /\ TunnelPart(e) # << >>
           /\ Same(TunnelPart(e), TunnelPart(f)) => e.ssh = f.ssh
<1>. DEFINE a == <<"(via", Blank, "ssh", Blank>>
            b == <<")">>
            x == e.ssh
            y == f.ssh
<1>1. IsString(a) /\ IsString(b) /\ IsString(x) /\ IsString(y) /\ Len(b) = 1
  <2>1. "(via" \in Literals /\ ")" \in Literals /\ "ssh" \in Literals
    BY DEF Literals
  <2>2. "(via" \in Pieces /\ ")" \in Pieces /\ "ssh" \in Pieces /\ Blank \in Pieces
    BY <2>1, WordIs, BlankIs
  <2>. QED
    BY <2>2, FourAre, OneIs, PartsOfEndpoint
<1>2. Same(TunnelPart(e), a \o x \o b) /\ Same(TunnelPart(f), a \o y \o b)
  BY Zenon DEF Same, TunnelPart, a, b, x, y
<1>. HIDE DEF a, b, x, y
<1>3. IsString(a \o x \o b)
  BY <1>1, LongerIs
<1>4. a \o x \o b # << >>
  <2>1. a \in Seq(Pieces) /\ x \in Seq(Pieces) /\ b \in Seq(Pieces)
    BY <1>1 DEF IsString
  <2>2. Len(a \o x \o b) = Len(a) + Len(x) + Len(b) /\ Len(a) \in Nat /\ Len(x) \in Nat
    BY <2>1
  <2>3. Len(a \o x \o b) # 0
    BY <1>1, <2>2
  <2>. QED
    BY <2>3
<1>5. ASSUME Same(TunnelPart(e), TunnelPart(f))
      PROVE  x = y
  <2>1. Same(a \o x \o b, a \o y \o b)
    BY <1>2, <1>5, Zenon DEF Same
  <2>2. Same(x, y)
    BY <1>1, <2>1, BetweenIs
  <2>. QED
    BY <2>2 DEF Same
<1>. QED
  BY <1>2, <1>3, <1>4, <1>5, Zenon DEF Same, x, y

LEMMA LabelIs ==
    ASSUME NEW e \in ServerEndpoint
    PROVE  Same(Label(e), LabelFront(e) \o Prefixed(Blank, LabelEnd(e)))
<1>. DEFINE blank == <<Blank>>
            a == <<"(via", Blank, "ssh", Blank>>
            b == <<")">>
            s == e.ssh
            h == e.host
            p == Prefixed(":", PortOf(e))
            tail == IF s = << >> THEN << >> ELSE <<Blank, "(via", Blank, "ssh", Blank>> \o s \o b
<1>1. p = IF e.port = DEFAULT_PORT THEN << >> ELSE <<":">> \o e.port
  BY PartsOfEndpoint DEF Prefixed, PortOf
<1>2. Label(e) = h \o p \o tail
  BY <1>1, Zenon DEF Label, h, s, b, tail
<1>3. h \o p = LabelFront(e)
  BY Zenon DEF LabelFront, h, p
<1>4. tail = Prefixed(Blank, LabelEnd(e))
  <2>1. CASE s = << >>
    BY <2>1, Zenon DEF tail, Prefixed, LabelEnd, s
  <2>2. CASE s # << >>
    <3>1. "(via" \in Pieces /\ ")" \in Pieces /\ "ssh" \in Pieces /\ Blank \in Pieces /\ s \in Seq(Pieces)
      <4>1. "(via" \in Literals /\ ")" \in Literals /\ "ssh" \in Literals
        BY DEF Literals
      <4>. QED
        BY <4>1, WordIs, BlankIs, PartsOfEndpoint DEF IsString
    <3>2. IsString(a) /\ IsString(b) /\ IsString(blank) /\ IsString(s)
      BY <3>1, FourAre, OneIs DEF IsString
    <3>3. <<Blank, "(via", Blank, "ssh", Blank>> = blank \o a
      BY <3>1
    <3>. HIDE DEF blank, a, b, s
    <3>4. blank \o (a \o s) = blank \o a \o s
      <4>1. IsString(blank) /\ IsString(a) /\ IsString(s)
        BY <3>2
      <4>. QED
        BY <4>1, Chained
    <3>. DEFINE as1 == a \o s
    <3>5. IsString(as1)
      BY <3>2, TwoStrings
    <3>. HIDE DEF as1
    <3>6. blank \o (as1 \o b) = blank \o as1 \o b
      <4>1. IsString(blank) /\ IsString(as1) /\ IsString(b)
        BY <3>2, <3>5
      <4>. QED
        BY <4>1, Chained
    <3>7. tail = blank \o (a \o s \o b)
      BY <2>2, <3>3, <3>4, <3>6, Zenon DEF tail, as1
    <3>8. TunnelPart(e) = a \o s \o b
      BY Zenon DEF TunnelPart, a, s, b
    <3>9. TunnelPart(e) # << >>
      BY ViaIs
    <3>10. LabelEnd(e) = TunnelPart(e)
      BY <2>2, Zenon DEF LabelEnd, s
    <3>. QED
      BY <3>7, <3>8, <3>9, <3>10, Zenon DEF Prefixed, blank
  <2>. QED
    BY <2>1, <2>2
<1>. QED
  BY <1>2, <1>3, <1>4, Zenon DEF Same

LEMMA FrontTells ==
    ASSUME NEW e \in ServerEndpoint, NEW f \in ServerEndpoint, Same(LabelFront(e), LabelFront(f)),
           LabelTells(e), LabelTells(f)
    PROVE  e.host = f.host /\ e.port = f.port
<1>. DEFINE colon == ":"
<1>1. colon \in Pieces
  BY LettersAre
<1>2. ASSUME NEW g \in ServerEndpoint, LabelTells(g)
      PROVE  /\ IsString(g.host) /\ IsString(g.port) /\ Free(g.port, colon)
             /\ g.port = DEFAULT_PORT => Same(LabelFront(g), g.host) /\ Free(LabelFront(g), colon)
             /\ g.port # DEFAULT_PORT => Same(LabelFront(g), g.host \o <<colon>> \o g.port) /\ ~Free(LabelFront(g), colon)
  <2>. DEFINE h == g.host
              p == g.port
  <2>1. IsString(h) /\ IsString(p) /\ Free(p, colon) /\ p # << >>
    BY PartsOfEndpoint
  <2>2. CASE p = DEFAULT_PORT
    <3>1. LabelFront(g) = h \o << >>
      BY <2>2, Zenon DEF LabelFront, Prefixed, PortOf, h, p
    <3>2. h \o << >> = h
      BY <2>1 DEF IsString
    <3>3. Free(h, colon)
      BY <1>2, <2>2 DEF LabelTells, Free
    <3>. QED
      BY <2>1, <2>2, <3>1, <3>2, <3>3, Zenon DEF Same
  <2>3. CASE p # DEFAULT_PORT
    <3>1. LabelFront(g) = h \o (<<colon>> \o p)
      BY <2>1, <2>3, Zenon DEF LabelFront, Prefixed, PortOf, h, p
    <3>. HIDE DEF h, p, colon
    <3>2. h \in Seq(Pieces) /\ p \in Seq(Pieces)
      BY <2>1 DEF IsString
    <3>3. h \o (<<colon>> \o p) = h \o <<colon>> \o p
      BY <1>1, <3>2
    <3>4. ~Free(h \o <<colon>> \o p, colon)
      BY <1>1, <3>2, Around DEF Free
    <3>. QED
      BY <2>1, <2>3, <3>1, <3>3, <3>4, Zenon DEF Same, h, p
  <2>. QED
    BY <2>2, <2>3
<1>. HIDE DEF colon
<1>3. (e.port = DEFAULT_PORT) <=> (f.port = DEFAULT_PORT)
  BY <1>2, Zenon DEF Same
<1>4. CASE e.port = DEFAULT_PORT
  BY <1>2, <1>3, <1>4, Zenon DEF Same
<1>5. CASE e.port # DEFAULT_PORT
  <2>1. Same(e.host \o <<colon>> \o e.port, f.host \o <<colon>> \o f.port)
    BY <1>2, <1>3, <1>5, Zenon DEF Same
  <2>2. /\ IsString(e.host) /\ IsString(e.port) /\ IsString(f.host) /\ IsString(f.port)
        /\ Free(e.port, colon) /\ Free(f.port, colon)
    BY <1>2
  <2>3. Same(e.host, f.host) /\ Same(e.port, f.port)
    BY <1>1, <2>1, <2>2, LastCutIs
  <2>. QED
    BY <2>3 DEF Same
<1>. QED
  BY <1>4, <1>5

LEMMA LabelIsTold ==
    ASSUME NEW e \in ServerEndpoint, NEW f \in ServerEndpoint
    PROVE  /\ SameServer(e, f) => Label(e) = Label(f)
           /\ Label(e) = Label(f) /\ LabelTells(e) /\ LabelTells(f) => SameServer(e, f)
<1>1. SameServer(e, f) => Label(e) = Label(f)
  BY DEF SameServer, Label
<1>2. ASSUME Label(e) = Label(f), LabelTells(e), LabelTells(f)
      PROVE  SameServer(e, f)
  <2>1. IsString(LabelEnd(e)) /\ IsString(LabelEnd(f))
    BY ViaIs, EmptyIs DEF LabelEnd
  <2>2. IsString(LabelFront(e)) /\ Free(LabelFront(e), Blank) /\ IsString(LabelFront(f)) /\ Free(LabelFront(f), Blank) /\ Blank \in Pieces
    BY FrontOfLabel, BlankIs
  <2>3. /\ CutIs(SplitOnce(LabelFront(e) \o Prefixed(Blank, LabelEnd(e)), Blank), LabelFront(e), LabelEnd(e))
        /\ CutIs(SplitOnce(LabelFront(f) \o Prefixed(Blank, LabelEnd(f)), Blank), LabelFront(f), LabelEnd(f))
    BY <2>1, <2>2, CutPrefixed
  <2>4. Same(LabelFront(e), LabelFront(f)) /\ Same(LabelEnd(e), LabelEnd(f))
    BY <1>2, <2>3, LabelIs, Zenon DEF CutIs, Same
  <2>5. e.host = f.host /\ e.port = f.port
    BY <1>2, <2>4, FrontTells
  <2>6. e.ssh = f.ssh
    <3>1. TunnelPart(e) # << >> /\ TunnelPart(f) # << >> /\ (Same(TunnelPart(e), TunnelPart(f)) => e.ssh = f.ssh)
      BY ViaIs
    <3>. QED
      BY <2>4, <3>1, Zenon DEF Same, LabelEnd
  <2>. QED
    BY <2>5, <2>6 DEF SameServer
<1>. QED
  BY <1>1, <1>2

-----------------------------------------------------------------------------
(* What is read and told.                                                  *)

\* Every way to write an endpoint down is read as that endpoint.
LEMMA WrittenParses ==
    ASSUME NEW e \in ServerEndpoint, NEW s \in KeywordForms(e) \cup UriForms(e)
    PROVE  Parse(s) = e
<1>1. CASE s \in KeywordForms(e)
  <2>1. PICK addr \in {<< >>, <<"10.0.0.7">>}, key \in {"host", "HOST"}, port \in PortWritten(e),
             host \in HostQuoted(e.host) :
             s \in {KeywordForm(e, addr, key, host, port), KeywordFormBackwards(e, addr, key, host, port)}
    BY <1>1 DEF KeywordForms
  <2>2. /\ Parse(KeywordForm(e, addr, key, host, port)) = e
        /\ Parse(KeywordFormBackwards(e, addr, key, host, port)) = e
    BY KeywordParses
  <2>. QED
    BY <2>1, <2>2
<1>2. CASE s \in UriForms(e)
  <2>1. PICK scheme \in {"postgres", "postgresql"}, port \in PortWritten(e),
             credentials \in {<< >>, <<"u">>, <<"u", ":", "p", "@", "q">>},
             others \in {<< >>, <<"db", "2", ":", "5432">>}, parameters \in Parameters(e) :
             s = UriForm(e, scheme, credentials, port, others, parameters)
    BY <1>2 DEF UriForms
  <2>2. Parse(UriForm(e, scheme, credentials, port, others, parameters)) = e
    BY UriParses
  <2>. QED
    BY <2>1, <2>2
<1>. QED
  BY <1>1, <1>2

\* What is read is one of the ways to write down what is meant.
EndpointInv ==
    conn_string # << >> => meant \in ServerEndpoint /\ conn_string \in KeywordForms(meant) \cup UriForms(meant)

LEMMA InitEndpoint ==
    ASSUME Init PROVE EndpointInv
  BY DEF Init, NoEndpoint, EndpointInit, EndpointInv

LEMMA StepEndpoint ==
    ASSUME EndpointInv, [Next]_<<classifierVars, settingsVars, chartVars, endpointVars, diskVars>>
    PROVE  EndpointInv'
<1>1. UNCHANGED endpointVars
  BY DEF Next
<1>. QED
  BY <1>1 DEF EndpointInv, endpointVars

LEMMA EndpointIsTold == EndpointInv => OneCardPerServer
<1>. SUFFICES ASSUME EndpointInv, conn_string # << >>, NEW other \in ServerEndpoint
              PROVE  LET read == ServerEndpointModel(Parse(conn_string))
                         model == ServerEndpointModel(other)
                         sameDatabase == SameServer(meant, other) /\ meant.dbname = other.dbname
                                         /\ meant.dbname # << >>
                     IN /\ (read.key = model.key) <=> SameServer(meant, other)
                        /\ SameServer(meant, other) => read.label = model.label
                        /\ read.label = model.label /\ LabelTells(meant) /\ LabelTells(other)
                             => SameServer(meant, other)
                        /\ (read.database_key = model.database_key /\ read.database_key # << >>) <=> sameDatabase
  BY DEF OneCardPerServer
<1>1. meant \in ServerEndpoint /\ Parse(conn_string) = meant
  BY WrittenParses DEF EndpointInv
<1>2. \A e : /\ ServerEndpointModel(e).key = Key(e) /\ ServerEndpointModel(e).label = Label(e)
             /\ ServerEndpointModel(e).database_key = DatabaseKey(e)
  BY DEF ServerEndpointModel
<1>3. Key(meant) = Key(other) <=> SameServer(meant, other)
  BY <1>1, KeyTells
<1>4. /\ SameServer(meant, other) => Label(meant) = Label(other)
      /\ Label(meant) = Label(other) /\ LabelTells(meant) /\ LabelTells(other) => SameServer(meant, other)
  BY <1>1, LabelIsTold
<1>5. (DatabaseKey(meant) = DatabaseKey(other) /\ DatabaseKey(meant) # << >>)
      <=> (SameServer(meant, other) /\ meant.dbname = other.dbname /\ meant.dbname # << >>)
  BY <1>1, DatabaseKeyTells
<1>. QED
  BY <1>1, <1>2, <1>3, <1>4, <1>5, Zenon

-----------------------------------------------------------------------------
(* The inductive invariant.                                                *)

Inv == TextInv /\ SettingsInv /\ DiskInv /\ ChartInv /\ EndpointInv

LEMMA InitInv ==
    Init => Inv
  BY InitText, InitSettings, InitDisk, InitChart, InitEndpoint DEF Init, Inv

LEMMA SettingsStay ==
    ASSUME SettingsInv, UNCHANGED settingsVars PROVE SettingsInv'
<1>1. UNCHANGED <<file, mounts, connected, named>>
  BY DEF settingsVars
<1>2. MountsInv'
  BY <1>1 DEF SettingsInv, MountsInv
<1>3. NamesInv'
  BY <1>1 DEF SettingsInv, NamesInv, OwnConnection, Names
<1>. QED
  BY <1>2, <1>3 DEF SettingsInv

LEMMA DiskStays ==
    ASSUME DiskInv, UNCHANGED diskVars PROVE DiskInv'
<1>1. UNCHANGED <<version, count, reading, snapshot, shown, real, seen, window>>
  BY DEF diskVars
<1>2. version' # 0 => CountersInv' /\ ReadingInv' /\ SnapshotInv'
  BY <1>1 DEF DiskInv, CountersInv, ReadingInv, SnapshotInv
<1>3. NothingInvented' /\ HotTablesAreListed'
  BY <1>1 DEF DiskInv, NothingInvented, HotTablesAreListed, Told
<1>. QED
  BY <1>2, <1>3 DEF DiskInv

LEMMA StepInv ==
    ASSUME Inv, [Next]_<<classifierVars, settingsVars, chartVars, endpointVars, diskVars>>
    PROVE  Inv'
<1>1. TextInv /\ SettingsInv /\ DiskInv /\ ChartInv
  BY DEF Inv
<1>2. EndpointInv'
  BY StepEndpoint DEF Inv
<1>3. CASE SettingsNext /\ UNCHANGED <<classifierVars, chartVars, diskVars>>
  BY <1>1, <1>2, <1>3, StepText, StepSettings, StepChart, DiskStays DEF Inv
<1>4. CASE version # 0 /\ DiskNext /\ UNCHANGED <<classifierVars, settingsVars, chartVars>>
  BY <1>1, <1>2, <1>4, StepText, SettingsStay, StepChart, StepDisk DEF Inv
<1>5. CASE [ClassifierNext]_classifierVars /\ [ChartNext]_chartVars /\ UNCHANGED <<settingsVars, diskVars>>
  BY <1>1, <1>2, <1>5, StepText, SettingsStay, StepChart, DiskStays DEF Inv
<1>6. \/ SettingsNext /\ UNCHANGED <<classifierVars, chartVars, diskVars>>
      \/ version # 0 /\ DiskNext /\ UNCHANGED <<classifierVars, settingsVars, chartVars>>
      \/ [ClassifierNext]_classifierVars /\ [ChartNext]_chartVars /\ UNCHANGED <<settingsVars, diskVars>>
  BY DEF Next
<1>. QED
  BY <1>3, <1>4, <1>5, <1>6

LEMMA Invariance ==
    Spec => []Inv
<1>1. Init => Inv
  BY InitInv
<1>2. Inv /\ [Next]_<<classifierVars, settingsVars, chartVars, endpointVars, diskVars>> => Inv'
  BY StepInv
<1>. QED
  BY <1>1, <1>2, PTL DEF Spec

-----------------------------------------------------------------------------
(* What is promised.                                                       *)

\* Whatever a text is made of, `classify` lets it run with the window closed
\* only if it is one statement without a word that vetoes, and a query or a SHOW
\* that only reads, or an EXPLAIN that runs nothing; and it lets every such query
\* or SHOW run.
THEOREM ReadsAreHarmless == Spec => []ReadMeansHarmless
<1>1. Inv => ReadMeansHarmless
  BY ReadIsHarmless, UnitsAre DEF Inv, TextInv
<1>. QED
  BY <1>1, Invariance, PTL

\* For every text, the words and marks that `tokenize` keeps are the ones that
\* stand in the open when the text is read from left to right, in their order, and
\* it refuses exactly the texts in which something is left open.
THEOREM StatementsAreSame == Spec => []SameStatement
<1>1. Inv => SameStatement
  BY StatementIsSame, UnitsAre DEF Inv, TextInv
<1>. QED
  BY <1>1, Invariance, PTL

\* Whatever a settings file holds that `get_mounts` accepts, however its paths
\* are spelled, each mount is served under its own path by `setup_server` and
\* named by it in `get_db`, and the two agree on every spelling.
THEOREM EveryMountIsServed == Spec => []MountsAreServed
<1>1. Inv => MountsAreServed
  BY ServedByInv DEF Inv, SettingsInv
<1>. QED
  BY <1>1, Invariance, PTL

\* However often the file is edited while the server runs, a mount connects with
\* a string that was written for its own path, and always with one
\* (`get_connection_string` of DbConnectionSettings).
THEOREM ConnectionsAreOwn == Spec => []ConnectsToItsOwn
<1>1. Inv => ConnectsToItsOwn
  <2>1. Inv => OwnConnection
    BY DEF Inv, SettingsInv, NamesInv
  <2>2. Inv => NeverEmpty
    BY ConnectsWithItsOwn DEF Inv, NeverEmpty
  <2>. QED
    BY <2>1, <2>2 DEF ConnectsToItsOwn
<1>. QED
  BY <1>1, Invariance, PTL

\* A difference that `build` publishes, for a table or for the WAL, is never more
\* than what was read since the previous tick that published, and exactly that
\* when both ticks saw the counter and it did not start again.
THEOREM NoReadIsInvented == Spec => []NothingInvented
<1>1. Inv => NothingInvented
  BY DEF Inv, DiskInv
<1>. QED
  BY <1>1, Invariance, PTL

\* No table that two ticks saw is cut off the list of `build` by one that read
\* less in between, whatever the lifetime totals and the limits are.
THEOREM HotTablesStay == Spec => []HotTablesAreListed
<1>1. Inv => HotTablesAreListed
  BY DEF Inv, DiskInv
<1>. QED
  BY <1>1, Invariance, PTL

\* Whatever was recorded, however long the gap and the window are, and however
\* long the panels take to be fetched: the marks of a panel are its samples in
\* their order, cut exactly where nothing was recorded for longer than the gap
\* (`segments`), each where it was taken, and none that is on the left edge is
\* older than the time the refresh took (`refresh_chart`, `LoadPanel`).
THEOREM ChartsAreAsRecorded == Spec => []DrawnAsRecorded
<1>1. Inv => DrawnAsRecorded
  BY DrawnIsRecorded DEF Inv
<1>. QED
  BY <1>1, Invariance, PTL

\* However an endpoint is written - as words in one order or the other or as a
\* URI, the host in capitals, in quotes or in brackets, with or without the port
\* everybody uses, credentials, alternate hosts and parameters - it is read as
\* that endpoint (`parse`), and so its server has one card, its database is
\* counted once, and neither is taken for another (`key`, `database_key`,
\* `label`), for any hosts, ports, tunnels and databases.
THEOREM ServersAreTold == Spec => []OneCardPerServer
<1>1. Inv => OneCardPerServer
  BY EndpointIsTold DEF Inv
<1>. QED
  BY <1>1, Invariance, PTL

=============================================================================
