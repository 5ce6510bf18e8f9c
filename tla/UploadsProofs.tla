--------------------------- MODULE UploadsProofs ---------------------------
(***************************************************************************)
(* For any uploads, names and bounds: an upload whose scratch files no     *)
(* other upload uses stores what was sent, and its rows download so, unless*)
(* their names mislead; which scratch files stay when nothing runs.        *)
(* A step of another upload writes elsewhere (lemma Others), and a step of *)
(* its own keeps the chain from the received bytes to the node's object.   *)
(***************************************************************************)
EXTENDS Uploads, SequenceTheorems, TLAPS

(* The names of the files and of their copies. *)
LEMMA Naming ==
  /\ Names \subseteq Paths
  /\ \A n \in Names, c \in BOOLEAN :
       /\ n \in Scratch(n, c) /\ EncName(n, c) \in Scratch(n, c)
       /\ c => Zst(n) \in Scratch(n, c)
       /\ Zst(n) \in Paths /\ EncName(n, c) \in Paths /\ Scratch(n, c) \subseteq Paths
BY DEF Paths, Scratch

(* v goes on with the job it has ... *)
KeepsJob(v) ==
  /\ \A u \in Uploads \ {v} : up'[u] = up[u]
  /\ up'[v].kind = up[v].kind /\ up'[v].name = up[v].name
  /\ up'[v].compress = up[v].compress /\ up'[v].files = up[v].files
  /\ up'[v].pc # "idle"
  /\ disturbed \subseteq disturbed'

(* ... and writes only scratch files of that job. *)
WritesOwn(v) ==
  \A p \in Places, n \in Paths :
    \/ disk'[p][n] = disk[p][n]
    \/ /\ up[v].kind = "file" /\ p = "temp"
       /\ n \in Scratch(up[v].name, up[v].compress)
    \/ up[v].kind # "file" /\ p # "temp"

(* A step of v keeps what the invariant says of the other uploads and of   *)
(* the rows.                                                               *)
LEMMA Others ==
  ASSUME ChainInv, NEW v \in Uploads, Running(v), KeepsJob(v), WritesOwn(v)
  PROVE  /\ Apart'
         /\ \A u \in Uploads \ disturbed' : u # v => ScratchOK(u)'
         /\ \A r \in rows : RowOK(r)'
<1>1. Apart'
  <2> SUFFICES ASSUME NEW u \in Uploads, NEW w \in Uploads, u # w, u \notin disturbed,
                      Running(u)', Running(w)'
               PROVE  ~Overlap(u, w)'
    BY DEF Apart, KeepsJob
  <2>1. Running(u) /\ Running(w)
    BY DEF KeepsJob, Running
  <2>2. ~Overlap(u, w)
    BY <2>1 DEF ChainInv, Apart
  <2> QED BY <2>2 DEF KeepsJob, Overlap
<1>2. ASSUME NEW u \in Uploads \ disturbed', u # v
      PROVE  ScratchOK(u)'
  <2>1. /\ u \in Uploads \ disturbed /\ up'[u] = up[u]
    BY <1>2 DEF KeepsJob
  <2>2. ScratchOK(u) /\ KindOK(u)
    BY <2>1 DEF ChainInv
  <2>3. CASE ~Running(u)
    BY <2>1, <2>3 DEF ScratchOK, Running
  <2>4. CASE Running(u)
    <3>1. ~Overlap(u, v)
      BY <2>1, <2>4, <1>2 DEF ChainInv, Apart
    <3>2. up[u].name \in Names /\ up[u].compress \in BOOLEAN
      BY <2>1, <2>2, <2>4 DEF KindOK, Running, ChainInv, TypeOK, Requests
    <3>3. CASE up[u].kind = "file"
      <4>1. \A n \in Scratch(up[u].name, up[u].compress) : disk'["temp"][n] = disk["temp"][n]
        BY <3>1, <3>2, <3>3, Naming DEF WritesOwn, Overlap, Places
      <4>2. /\ disk'["temp"][up[u].name] = disk["temp"][up[u].name]
            /\ disk'["temp"][EncPath(u)] = disk["temp"][EncPath(u)]
            /\ up[u].compress => disk'["temp"][Zst(up[u].name)] = disk["temp"][Zst(up[u].name)]
        BY <3>2, <4>1, Naming DEF EncPath
      <4>3. up[u].pc \notin {"receiving", "accepted", "packed", "sealed", "indexing", "entry", "entrysent"}
        BY <2>2, <3>3 DEF KindOK
      <4> QED BY <2>1, <2>2, <4>2, <4>3
            DEF ScratchOK, EncPath, Expected, Payload, Archived, Own
    <3>4. CASE up[u].kind # "file"
      <4>1. \A p \in Places \ {"temp"}, n \in Names : disk'[p][n] = disk[p][n]
        BY <3>1, <3>4, Naming DEF WritesOwn, Overlap
      <4>2. /\ up[u].pc \notin {"received", "compressed", "encrypted"}
            /\ up[u].pc = "entry" => up[u].entry \in Names
        BY <2>2, <3>4 DEF KindOK
      <4>3. \A n \in Names : /\ disk'["tree"][n] = disk["tree"][n]
                             /\ disk'["archive"][n] = disk["archive"][n]
                             /\ disk'["sealed"][n] = disk["sealed"][n]
                             /\ disk'["piece"][n] = disk["piece"][n]
        BY <4>1 DEF Places
      <4> QED BY <2>1, <2>2, <3>2, <4>2, <4>3
            DEF ScratchOK, TreeIs, Expected, Payload, Archived, Own
    <3> QED BY <3>3, <3>4
  <2> QED BY <2>3, <2>4
<1>3. ASSUME NEW r \in rows
      PROVE  RowOK(r)'
  <2>1. RowOK(r) /\ r.owner \in Uploads
    BY DEF ChainInv, TypeOK, Rows
  <2>2. /\ up'[r.owner].kind = up[r.owner].kind /\ up'[r.owner].files = up[r.owner].files
        /\ up'[r.owner].compress = up[r.owner].compress
        /\ up'[r.owner].pc # "idle" /\ disturbed \subseteq disturbed'
    BY <2>1 DEF KeepsJob, RowOK
  <2> QED BY <2>1, <2>2 DEF RowOK, Expected, Payload, Archived, Own
<1> QED BY <1>1, <1>2, <1>3

(* What a step of v must show for the invariant to hold again. *)
LEMMA Assemble ==
  ASSUME ChainInv, NEW v \in Uploads, Running(v), NEW x \in Requests,
         up' = [up EXCEPT ![v] = x],
         x.kind = up[v].kind, x.name = up[v].name, x.compress = up[v].compress,
         x.files = up[v].files, x.pc # "idle",
         disturbed \subseteq disturbed', disturbed' \in SUBSET Uploads,
         disk' \in [Places -> [Paths -> Content \cup {None}]], WritesOwn(v),
         made' \in BOOLEAN, KindOK(v)', v \notin disturbed' => ScratchOK(v)',
         rows' \in SUBSET Rows, \A r \in rows' : r \in rows \/ RowOK(r)'
  PROVE  ChainInv'
<1>1. up'[v] = x /\ \A u \in Uploads \ {v} : up'[u] = up[u]
  BY DEF ChainInv, TypeOK
<1>2. KeepsJob(v)
  BY <1>1 DEF KeepsJob
<1>3. TypeOK'
  BY DEF ChainInv, TypeOK
<1>4. \A u \in Uploads : KindOK(u)'
  BY <1>1 DEF ChainInv, KindOK
<1>5. /\ Apart'
      /\ \A u \in Uploads \ disturbed' : u # v => ScratchOK(u)'
      /\ \A r \in rows : RowOK(r)'
  BY <1>2, Others
<1> QED BY <1>3, <1>4, <1>5 DEF ChainInv

(* The same for a step that records nothing. *)
LEMMA AssembleNoRow ==
  ASSUME ChainInv, NEW v \in Uploads, Running(v), NEW x \in Requests,
         up' = [up EXCEPT ![v] = x],
         x.kind = up[v].kind, x.name = up[v].name, x.compress = up[v].compress,
         x.files = up[v].files, x.pc # "idle", disturbed' = disturbed,
         disk' \in [Places -> [Paths -> Content \cup {None}]], WritesOwn(v),
         made' \in BOOLEAN, KindOK(v)', v \notin disturbed => ScratchOK(v)',
         UNCHANGED rows
  PROVE  ChainInv'
BY Assemble DEF ChainInv, TypeOK

(* What the invariant says of one running upload. *)
LEMMA Here ==
  ASSUME ChainInv, NEW v \in Uploads
  PROVE  /\ up[v] \in Requests /\ KindOK(v)
         /\ v \notin disturbed => ScratchOK(v)
         /\ disk \in [Places -> [Paths -> Content \cup {None}]]
         /\ made \in BOOLEAN
         /\ rows \in SUBSET Rows /\ disturbed \in SUBSET Uploads
         /\ Running(v) =>
              /\ up[v].name \in Names /\ Zst(up[v].name) \in Paths /\ EncPath(v) \in Paths
              /\ up[v].name \in Scratch(up[v].name, up[v].compress)
              /\ EncPath(v) \in Scratch(up[v].name, up[v].compress)
              /\ up[v].compress => Zst(up[v].name) \in Scratch(up[v].name, up[v].compress)
<1>1. up[v] \in Requests /\ KindOK(v)
  BY DEF ChainInv, TypeOK
<1>2. Running(v) => up[v].name \in Names /\ up[v].compress \in BOOLEAN
  BY <1>1 DEF KindOK, Running, Requests
<1> QED BY <1>1, <1>2, Naming DEF ChainInv, TypeOK, EncPath

(* The transformations make contents of contents. *)
LEMMA Contents ==
  ASSUME NEW u \in Uploads, NEW n \in Names
  PROVE  /\ Own(u, n) \in Content
         /\ \A c \in Content : Compressed(c) \in Content /\ Encrypted(c, <<u, n>>) \in Content
         /\ Partial \in Content
BY DEF Own, Compressed, Encrypted, Partial, Content

LEMMA PackedContent ==
  ASSUME NEW tree \in [Paths -> Content \cup {None}]
  PROVE  Packed(tree) \in Content
<1>1. \A n \in {m \in Names : tree[m] # None} : tree[n].data \in SUBSET (Uploads \X Names)
  BY Naming DEF Content
<1> QED BY <1>1 DEF Packed, Content

(* One scratch file is written. *)
LEMMA Write ==
  ASSUME disk \in [Places -> [Paths -> Content \cup {None}]],
         NEW p \in Places, NEW n \in Paths, NEW c \in Content \cup {None},
         disk' = [disk EXCEPT ![p][n] = c]
  PROVE  /\ disk' \in [Places -> [Paths -> Content \cup {None}]]
         /\ disk'[p][n] = c
         /\ \A q \in Places, m \in Paths : q # p \/ m # n => disk'[q][m] = disk[q][m]
OBVIOUS

(* Two scratch files are written, one after the other. *)
LEMMA WriteTwo ==
  ASSUME disk \in [Places -> [Paths -> Content \cup {None}]],
         NEW p \in Places, NEW n \in Paths, NEW c \in Content \cup {None},
         NEW m \in Paths, NEW d \in Content \cup {None},
         disk' = [[disk EXCEPT ![p][n] = c] EXCEPT ![p][m] = d]
  PROVE  /\ disk' \in [Places -> [Paths -> Content \cup {None}]]
         /\ \A k \in Paths :
              disk'[p][k] = IF k = m THEN d ELSE IF k = n THEN c ELSE disk[p][k]
         /\ \A q \in Places \ {p}, k \in Paths : disk'[q][k] = disk[q][k]
<1> DEFINE w == [disk EXCEPT ![p][n] = c]
<1>1. /\ w \in [Places -> [Paths -> Content \cup {None}]]
      /\ \A k \in Paths : w[p][k] = IF k = n THEN c ELSE disk[p][k]
      /\ \A q \in Places \ {p}, k \in Paths : w[q][k] = disk[q][k]
  OBVIOUS
<1>2. disk' = [w EXCEPT ![p][m] = d]
  OBVIOUS
<1> HIDE DEF w
<1> QED BY <1>1, <1>2

(* A name gets one more part. *)
LEMMA NextPart ==
  ASSUME NEW m \in Seq(Parts)
  PROVE  /\ \A e \in {Tar(m), Zst(m), Enc(m)} :
              /\ e \in Seq(Parts) /\ Len(e) = Len(m) + 1
              /\ \A i \in 1..Len(m) : e[i] = m[i]
         /\ Tar(m)[Len(m) + 1] = "tar" /\ Zst(m)[Len(m) + 1] = "zst"
         /\ Enc(m)[Len(m) + 1] = "enc"
<1>1. "tar" \in Parts /\ "zst" \in Parts /\ "enc" \in Parts
  BY NamesAssumption
<1>2. ASSUME NEW part \in Parts
      PROVE  LET e == Append(m, part)
             IN  /\ e \in Seq(Parts) /\ Len(e) = Len(m) + 1
                 /\ \A i \in 1..Len(m) : e[i] = m[i]
                 /\ e[Len(m) + 1] = part
  BY AppendProperties
<1> QED BY <1>1, <1>2 DEF Tar, Zst, Enc

(* The copies of a file are named by a sequence of parts. *)
LEMMA Lengths ==
  ASSUME NEW n \in Names, NEW c \in BOOLEAN
  PROVE  /\ n \in Seq(Parts) /\ Zst(n) \in Seq(Parts) /\ EncName(n, c) \in Seq(Parts)
         /\ Enc(n) \in Seq(Parts) /\ Enc(Zst(Tar(n))) \in Seq(Parts)
         /\ Len(n) \in Nat /\ Len(n) > 0
         /\ Len(Zst(n)) = Len(n) + 1 /\ Len(EncName(n, c)) > Len(n)
<1>1. n \in Seq(Parts) /\ Len(n) \in Nat /\ Len(n) > 0
  BY NamesAssumption
<1>2. Zst(n) \in Seq(Parts) /\ Len(Zst(n)) = Len(n) + 1
  BY <1>1, NextPart
<1>3. Tar(n) \in Seq(Parts) /\ Enc(n) \in Seq(Parts) /\ Len(Enc(n)) = Len(n) + 1
  BY <1>1, NextPart
<1>4. Enc(Zst(n)) \in Seq(Parts) /\ Len(Enc(Zst(n))) = Len(Zst(n)) + 1
  BY <1>2, NextPart
<1>5. Zst(Tar(n)) \in Seq(Parts)
  BY <1>3, NextPart
<1>6. Enc(Zst(Tar(n))) \in Seq(Parts)
  BY <1>5, NextPart
<1> QED BY <1>1, <1>2, <1>3, <1>4, <1>6 DEF EncName

(* The sealed copy of a compressed file, and of a folder archive, looks so. *)
LEMMA Looks ==
  ASSUME NEW r, NEW n \in Names
  PROVE  /\ r.filename = EncName(n, TRUE) => isCompressedFile(r)
         /\ r.filename = Enc(Zst(Tar(n))) => isArchiveFile(r) /\ isCompressedFile(r)
<1>1. n \in Seq(Parts) /\ Len(n) \in Nat /\ Len(n) > 0
  BY NamesAssumption
<1>2. ASSUME NEW m \in Seq(Parts), Len(m) > 0
      PROVE  /\ Enc(Zst(m)) \in Seq(Parts) /\ Len(Enc(Zst(m))) = Len(m) + 2
             /\ \A i \in 1..Len(m) : Enc(Zst(m))[i] = m[i]
             /\ Enc(Zst(m))[Len(m) + 1] = "zst" /\ Enc(Zst(m))[Len(m) + 2] = "enc"
  <2>1. /\ Zst(m) \in Seq(Parts) /\ Len(Zst(m)) = Len(m) + 1
        /\ Zst(m)[Len(m) + 1] = "zst" /\ \A i \in 1..Len(m) : Zst(m)[i] = m[i]
    BY NextPart
  <2> DEFINE z == Zst(m)
  <2> HIDE DEF z
  <2>2. /\ Enc(z) \in Seq(Parts) /\ Len(Enc(z)) = Len(z) + 1
        /\ Enc(z)[Len(z) + 1] = "enc" /\ \A i \in 1..Len(z) : Enc(z)[i] = z[i]
    BY <2>1, NextPart DEF z
  <2>3. Len(m) \in Nat
    OBVIOUS
  <2> QED BY <2>1, <2>2, <2>3, Zenon, SMT DEF z
<1>3. Tar(n) \in Seq(Parts) /\ Len(Tar(n)) = Len(n) + 1 /\ Tar(n)[Len(n) + 1] = "tar"
  BY <1>1, NextPart
<1>4. r.filename = EncName(n, TRUE) => isCompressedFile(r)
  BY <1>1, <1>2 DEF EncName, isCompressedFile
<1>5. ASSUME r.filename = Enc(Zst(Tar(n)))
      PROVE  isArchiveFile(r) /\ isCompressedFile(r)
  <2> DEFINE f == r.filename
             l == Len(n)
  <2>1. /\ Len(f) = l + 3 /\ f[l + 1] = "tar" /\ f[l + 2] = "zst" /\ f[l + 3] = "enc"
    <3> DEFINE t == Tar(n)
    <3> HIDE DEF t
    <3>1. /\ t \in Seq(Parts) /\ Len(t) = l + 1 /\ t[l + 1] = "tar" /\ Len(t) > 0
          /\ f = Enc(Zst(t)) /\ l \in Nat
      BY <1>1, <1>3, <1>5 DEF t
    <3>2. /\ Len(f) = Len(t) + 2 /\ f[Len(t) + 1] = "zst" /\ f[Len(t) + 2] = "enc"
          /\ \A i \in 1..Len(t) : f[i] = t[i]
      BY <1>2, <3>1
    <3> HIDE DEF l, f
    <3> QED BY <3>1, <3>2
  <2>2. Len(f) - 2 = l + 1 /\ Len(f) - 1 = l + 2 /\ Len(f) > 3
    BY <1>1, <2>1
  <2> HIDE DEF l
  <2> QED BY <2>1, <2>2 DEF isArchiveFile, isCompressedFile
<1> QED BY <1>4, <1>5

LEMMA ProcessFailsKeeps ==
  ASSUME ChainInv, NEW u \in Uploads, NEW ok \in BOOLEAN, ProcessFails(u, ok)
  PROVE  ChainInv'
<1> DEFINE x == [up[u] EXCEPT !.pc = "done", !.reply = "failed"]
           n == up[u].name
<1>1. /\ up[u] \in Requests /\ KindOK(u) /\ Running(u) /\ up[u].kind = "file" /\ n \in Names
      /\ made' = made /\ UNCHANGED <<rows, disturbed>> /\ made \in BOOLEAN
  BY Here DEF ProcessFails, Running, KindOK
<1>2. up' = [up EXCEPT ![u] = x] /\ x \in Requests
  BY <1>1 DEF ProcessFails, Fail, Requests
<1>3. disk' \in [Places -> [Paths -> Content \cup {None}]] /\ WritesOwn(u)
  <2>1. /\ Target(u) \in Paths /\ Target(u) \in Scratch(n, up[u].compress)
        /\ n \in Paths /\ n \in Scratch(n, up[u].compress)
    BY <1>1, Here, Naming DEF Target
  <2>2. Partial \in Content \cup {None} /\ "temp" \in Places
    BY <1>1, Contents DEF Places
  <2>3. CASE ok
    <3>1. disk' = [[disk EXCEPT !["temp"][Target(u)] = Partial] EXCEPT !["temp"][n] = None]
      BY <2>3 DEF ProcessFails
    <3>2. disk \in [Places -> [Paths -> Content \cup {None}]] /\ up[u].kind = "file"
      BY <1>1, Here
    <3> DEFINE t == Target(u)
               k == Scratch(n, up[u].compress)
    <3> HIDE DEF t, k, n
    <3>3. /\ disk' \in [Places -> [Paths -> Content \cup {None}]]
          /\ \A m \in Paths :
               disk'["temp"][m] = IF m = n THEN None ELSE IF m = t THEN Partial ELSE disk["temp"][m]
          /\ \A q \in Places \ {"temp"}, m \in Paths : disk'[q][m] = disk[q][m]
      BY <2>1, <2>2, <3>1, <3>2, WriteTwo DEF t
    <3>4. \A p \in Places, m \in Paths :
            disk'[p][m] = disk[p][m] \/ (p = "temp" /\ m \in k)
      BY <2>1, <3>3 DEF t, k
    <3> QED BY <3>2, <3>3, <3>4 DEF WritesOwn, k, n
  <2>4. CASE ~ok
    <3>1. disk' = [disk EXCEPT !["temp"][n] = None]
      BY <2>4 DEF ProcessFails
    <3> QED BY <1>1, <2>1, <2>2, <3>1, Here, Write DEF WritesOwn
  <2> QED BY <2>3, <2>4
<1>4. up'[u] = x
  BY <1>2 DEF ChainInv, TypeOK
<1>5. KindOK(u)' /\ ScratchOK(u)'
  BY <1>1, <1>4 DEF KindOK, ScratchOK, Requests
<1> QED BY <1>1, <1>2, <1>3, <1>5, AssembleNoRow DEF Requests

LEMMA CompressFileKeeps ==
  ASSUME ChainInv, NEW u \in Uploads, NEW ok \in BOOLEAN, CompressFile(u, ok)
  PROVE  ChainInv'
<1> DEFINE x == [up[u] EXCEPT !.pc = "compressed"]
           n == up[u].name
           c == IF ok THEN Compressed(disk["temp"][n]) ELSE Partial
<1>1. /\ up[u] \in Requests /\ KindOK(u) /\ Running(u) /\ up[u].kind = "file" /\ n \in Names
      /\ up[u].compress
      /\ made' = made /\ UNCHANGED rows /\ made \in BOOLEAN
      /\ disturbed \subseteq disturbed' /\ disturbed' \in SUBSET Uploads
      /\ ok \/ u \in disturbed'
  BY Here DEF CompressFile, Running, KindOK
<1>2. up' = [up EXCEPT ![u] = x] /\ x \in Requests
  BY <1>1 DEF CompressFile, Move, Requests
<1>3. c \in Content
  BY <1>1, Here, Contents, Naming DEF CompressFile, Places
<1>4. /\ disk' \in [Places -> [Paths -> Content \cup {None}]] /\ WritesOwn(u)
      /\ disk'["temp"][Zst(n)] = c
  <2>1. disk' = [disk EXCEPT !["temp"][Zst(n)] = c] /\ "temp" \in Places
    BY DEF CompressFile, Places
  <2>2. /\ Zst(n) \in Paths /\ Zst(n) \in Scratch(n, up[u].compress) /\ c \in Content \cup {None}
        /\ disk \in [Places -> [Paths -> Content \cup {None}]]
    BY <1>1, <1>3, Here
  <2> HIDE DEF c
  <2>3. /\ disk' \in [Places -> [Paths -> Content \cup {None}]] /\ disk'["temp"][Zst(n)] = c
        /\ \A q \in Places, m \in Paths : q # "temp" \/ m # Zst(n) => disk'[q][m] = disk[q][m]
    BY <2>1, <2>2, Write
  <2> QED BY <1>1, <2>2, <2>3 DEF WritesOwn
<1>5. up'[u] = x
  BY <1>2 DEF ChainInv, TypeOK
<1>6. KindOK(u)'
  BY <1>1, <1>5 DEF KindOK, Requests
<1>7. ASSUME u \notin disturbed'
      PROVE  ScratchOK(u)'
  <2>1. disk["temp"][n] = Own(u, n) /\ ok
    BY <1>1, <1>7, Here DEF CompressFile, ScratchOK
  <2>2. /\ up'[u].pc = "compressed" /\ up'[u].name = n /\ up'[u].compress
    BY <1>1, <1>5 DEF Requests
  <2>3. Payload(u, n)' = Compressed(Own(u, n))
    BY <2>2 DEF Payload, Own, Compressed
  <2> QED BY <1>4, <2>1, <2>2, <2>3 DEF ScratchOK, Payload, Own
<1> QED BY <1>1, <1>2, <1>4, <1>6, <1>7, Here, Assemble DEF Requests

LEMMA EncryptFileKeeps ==
  ASSUME ChainInv, NEW u \in Uploads, NEW ok \in BOOLEAN, EncryptFile(u, ok)
  PROVE  ChainInv'
<1> DEFINE n == up[u].name
           p == EncPath(u)
           src == disk["temp"][IF up[u].compress THEN Zst(n) ELSE n]
           c == Encrypted(src, <<u, n>>)
           written == [disk EXCEPT !["temp"][p] = c]
<1>1. /\ up[u] \in Requests /\ KindOK(u) /\ Running(u) /\ up[u].kind = "file" /\ n \in Names
      /\ made' = made /\ UNCHANGED <<rows, disturbed>> /\ made \in BOOLEAN
  BY Here DEF EncryptFile, Running, KindOK
<1>2. /\ p \in Paths /\ p \in Scratch(n, up[u].compress) /\ "temp" \in Places
      /\ n \in Paths /\ n \in Scratch(n, up[u].compress) /\ Zst(n) \in Paths
  BY <1>1, Here, Naming DEF Places
<1>3. src \in Content /\ c \in Content
  <2>1. src \in Content
    BY <1>1, <1>2, Here DEF EncryptFile
  <2> QED BY <1>1, <2>1, Contents
<1>4. /\ written \in [Places -> [Paths -> Content \cup {None}]]
      /\ written["temp"][p] = c
      /\ \A q \in Places, m \in Paths : q # "temp" \/ m # p => written[q][m] = disk[q][m]
  <2> HIDE DEF c, p
  <2> QED BY <1>1, <1>2, <1>3, Here
<1>5. CASE ok
  <2> DEFINE x == [up[u] EXCEPT !.pc = "encrypted"]
  <2>1. up' = [up EXCEPT ![u] = x] /\ x \in Requests /\ disk' = written
    BY <1>1, <1>5 DEF EncryptFile, Move, Requests
  <2>2. disk' \in [Places -> [Paths -> Content \cup {None}]] /\ WritesOwn(u)
    BY <1>1, <1>2, <1>4, <2>1 DEF WritesOwn
  <2>3. up'[u] = x
    BY <2>1 DEF ChainInv, TypeOK
  <2>4. /\ up'[u].pc = "encrypted" /\ up'[u].name = n /\ up'[u].compress = up[u].compress
        /\ up'[u].kind = "file"
    BY <1>1, <2>3 DEF Requests
  <2>5. KindOK(u)'
    BY <1>1, <2>3 DEF KindOK, Requests
  <2>6. ASSUME u \notin disturbed
        PROVE  ScratchOK(u)'
    <3>1. src = Payload(u, n)
      BY <1>1, <2>6, Here DEF EncryptFile, ScratchOK, Payload
    <3>2. Payload(u, n)' = Payload(u, n)
      BY <2>4 DEF Payload, Own
    <3>3. Expected(u, n)' = c
      BY <2>4, <3>1, <3>2 DEF Expected
    <3>4. EncPath(u)' = p
      BY <2>4 DEF EncPath
    <3>5. disk'["temp"][p] = c
      BY <1>4, <2>1
    <3> QED BY <2>4, <3>3, <3>4, <3>5 DEF ScratchOK, Expected, Payload, Own
  <2> QED BY <1>1, <2>1, <2>2, <2>5, <2>6, AssembleNoRow DEF Requests
<1>6. CASE ~ok
  <2> DEFINE x == [up[u] EXCEPT !.pc = "done", !.reply = "failed"]
  <2>1. /\ up' = [up EXCEPT ![u] = x] /\ x \in Requests
        /\ disk' = [written EXCEPT !["temp"][n] = None]
    BY <1>1, <1>6 DEF EncryptFile, Fail, Requests
  <2>2. disk' \in [Places -> [Paths -> Content \cup {None}]] /\ WritesOwn(u)
    <3> HIDE DEF c, p
    <3> QED BY <1>1, <1>2, <1>3, <2>1, Here, WriteTwo DEF WritesOwn
  <2>3. up'[u] = x
    BY <2>1 DEF ChainInv, TypeOK
  <2>4. KindOK(u)' /\ ScratchOK(u)'
    BY <1>1, <2>3 DEF KindOK, ScratchOK, Requests
  <2> QED BY <1>1, <2>1, <2>2, <2>4, AssembleNoRow DEF Requests
<1> QED BY <1>5, <1>6

LEMMA SendFileKeeps ==
  ASSUME ChainInv, NEW u \in Uploads, NEW ok \in BOOLEAN, SendFile(u, ok)
  PROVE  ChainInv'
<1> DEFINE n == up[u].name
           sent == disk["temp"][EncPath(u)]
           x == IF sent # None /\ ok
                  THEN [up[u] EXCEPT !.pc = "sent", !.object = sent]
                  ELSE [up[u] EXCEPT !.pc = "closing", !.reply = "failed"]
<1>1. /\ up[u] \in Requests /\ KindOK(u) /\ Running(u) /\ up[u].kind = "file" /\ n \in Names
      /\ UNCHANGED <<disk, made, rows, disturbed>> /\ made \in BOOLEAN
      /\ up[u].pc = "encrypted"
  BY Here DEF SendFile, Running, KindOK
<1>2. sent \in Content \cup {None}
  BY <1>1, Here DEF Places
<1>3. up' = [up EXCEPT ![u] = x] /\ x \in Requests
  BY <1>1, <1>2 DEF SendFile, Requests
<1>4. disk' \in [Places -> [Paths -> Content \cup {None}]] /\ WritesOwn(u)
  BY <1>1, Here DEF WritesOwn
<1>5. up'[u] = x
  BY <1>3 DEF ChainInv, TypeOK
<1>6. /\ up'[u].kind = "file" /\ up'[u].name = n /\ up'[u].compress = up[u].compress
      /\ \/ up'[u].pc = "sent" /\ up'[u].object = sent /\ sent # None
         \/ up'[u].pc = "closing"
  BY <1>1, <1>5 DEF Requests
<1>7. KindOK(u)'
  BY <1>1, <1>2, <1>6 DEF KindOK
<1>8. ASSUME u \notin disturbed
      PROVE  ScratchOK(u)'
  <2>1. sent = Expected(u, n)
    BY <1>1, <1>8, Here DEF ScratchOK
  <2>2. Expected(u, n)' = Expected(u, n)
    BY <1>1, <1>6 DEF Expected, Payload, Own
  <2> QED BY <1>6, <2>1, <2>2 DEF ScratchOK, Expected, Payload, Own
<1> QED BY <1>1, <1>3, <1>4, <1>7, <1>8, AssembleNoRow DEF Requests

LEMMA RecordFileKeeps ==
  ASSUME ChainInv, NEW u \in Uploads, NEW ok \in BOOLEAN, RecordFile(u, ok)
  PROVE  ChainInv'
<1> DEFINE n == up[u].name
           x == [up[u] EXCEPT !.pc = "closing", !.reply = "ok"]
           r == Row(u, n, FALSE, EncPath(u))
<1>1. /\ up[u] \in Requests /\ KindOK(u) /\ Running(u) /\ up[u].kind = "file" /\ n \in Names
      /\ UNCHANGED <<disk, made, disturbed>> /\ made \in BOOLEAN
      /\ up[u].pc = "sent" /\ up[u].object \in Content
  BY Here DEF RecordFile, Running, KindOK
<1>2. up' = [up EXCEPT ![u] = x] /\ x \in Requests
  BY <1>1 DEF RecordFile, Requests
<1>3. disk' \in [Places -> [Paths -> Content \cup {None}]] /\ WritesOwn(u)
  BY <1>1, Here DEF WritesOwn
<1>4. up'[u] = x
  BY <1>2 DEF ChainInv, TypeOK
<1>5. /\ up'[u].kind = "file" /\ up'[u].name = n /\ up'[u].compress = up[u].compress
      /\ up'[u].pc = "closing"
  BY <1>1, <1>4 DEF Requests
<1>6. KindOK(u)' /\ ScratchOK(u)'
  BY <1>1, <1>5 DEF KindOK, ScratchOK
<1>7. r \in Rows
  <2>1. EncPath(u) \in Seq(Parts)
    BY <1>1, Lengths DEF Requests, EncPath
  <2> QED BY <1>1, <2>1 DEF Row, Rows
<1>8. rows' \in SUBSET Rows /\ \A s \in rows' : s \in rows \/ s = r
  BY <1>1, <1>7, Here DEF RecordFile
<1>9. ASSUME NEW s, s = r
      PROVE  RowOK(s)'
  <2>1. /\ s.owner = u /\ s.name = n /\ s.object = up[u].object /\ ~s.relative
        /\ s.filename = EncName(n, up[u].compress)
    BY <1>9 DEF Row, EncPath
  <2>2. u \notin disturbed => s.object = Expected(u, n)
    BY <1>1, <2>1, Here DEF ScratchOK
  <2>3. Expected(u, n)' = Expected(u, n)
    BY <1>1, <1>5 DEF Expected, Payload, Own
  <2> HIDE DEF r, n
  <2> QED BY <1>1, <1>5, <2>1, <2>2, <2>3 DEF RowOK, Expected, Payload, Own
<1> QED BY <1>1, <1>2, <1>3, <1>6, <1>8, <1>9, Here, Assemble DEF Requests

LEMMA CloseFileKeeps ==
  ASSUME ChainInv, NEW u \in Uploads, CloseFile(u)
  PROVE  ChainInv'
<1> DEFINE n == up[u].name
           x == [up[u] EXCEPT !.pc = "done"]
<1>1. /\ up[u] \in Requests /\ KindOK(u) /\ Running(u) /\ up[u].kind = "file" /\ n \in Names
      /\ UNCHANGED <<made, rows, disturbed>> /\ made \in BOOLEAN
  BY Here DEF CloseFile, Running, KindOK
<1>2. up' = [up EXCEPT ![u] = x] /\ x \in Requests
  BY <1>1 DEF CloseFile, Move, Requests
<1>3. /\ n \in Paths /\ "temp" \in Places
      /\ disk' = [[disk EXCEPT !["temp"][n] = None] EXCEPT !["temp"][EncPath(u)] = None]
  BY <1>1, Naming DEF CloseFile, Places
<1>4. disk' \in [Places -> [Paths -> Content \cup {None}]] /\ WritesOwn(u)
  BY <1>1, <1>3, Here, WriteTwo DEF WritesOwn
<1>5. up'[u] = x
  BY <1>2 DEF ChainInv, TypeOK
<1>6. KindOK(u)' /\ ScratchOK(u)'
  BY <1>1, <1>5 DEF KindOK, ScratchOK, Requests
<1> QED BY <1>1, <1>2, <1>4, <1>6, AssembleNoRow DEF Requests

LEMMA ReceivePartKeeps ==
  ASSUME ChainInv, NEW u \in Uploads, ReceivePart(u)
  PROVE  ChainInv'
<1>1. /\ up[u] \in Requests /\ KindOK(u) /\ Running(u) /\ up[u].kind # "file"
      /\ made' = TRUE /\ UNCHANGED <<rows, disturbed>> /\ up[u].pc = "receiving"
  BY Here DEF ReceivePart, Running, KindOK
<1>2. PICK n \in up[u].todo :
        /\ disk' = [disk EXCEPT !["tree"][n] = Own(u, n)]
        /\ up' = [up EXCEPT ![u].todo = @ \ {n}]
  BY DEF ReceivePart
<1> DEFINE x == [up[u] EXCEPT !.todo = @ \ {n}]
<1>3. up' = [up EXCEPT ![u] = x] /\ x \in Requests /\ n \in Names
  BY <1>1, <1>2 DEF Requests
<1>4. /\ disk' \in [Places -> [Paths -> Content \cup {None}]] /\ WritesOwn(u)
      /\ \A m \in Names : disk'["tree"][m] = IF m = n THEN Own(u, n) ELSE disk["tree"][m]
  <2>1. Own(u, n) \in Content \cup {None} /\ n \in Paths /\ "tree" \in Places
    BY <1>3, Contents, Naming DEF Places
  <2> QED BY <1>1, <1>2, <1>3, <2>1, Here, Write, Naming DEF WritesOwn
<1>5. up'[u] = x
  BY <1>3 DEF ChainInv, TypeOK
<1>6. /\ up'[u].pc = "receiving" /\ up'[u].files = up[u].files /\ up'[u].todo = up[u].todo \ {n}
  BY <1>1, <1>5 DEF Requests
<1>7. KindOK(u)'
  BY <1>1, <1>5 DEF KindOK, Requests
<1>8. ASSUME u \notin disturbed
      PROVE  ScratchOK(u)'
  <2>1. up[u].todo \subseteq up[u].files /\ TreeIs(u, up[u].files \ up[u].todo)
    BY <1>1, <1>8, Here DEF ScratchOK
  <2>2. TreeIs(u, up[u].files \ up[u].todo)' 
    BY <1>2, <1>4, <1>6, <2>1 DEF TreeIs, Own
  <2> QED BY <1>6, <2>1, <2>2 DEF ScratchOK
<1> QED BY <1>1, <1>3, <1>4, <1>7, <1>8, AssembleNoRow DEF Requests

LEMMA AcceptUploadKeeps ==
  ASSUME ChainInv, NEW u \in Uploads, AcceptUpload(u)
  PROVE  ChainInv'
<1> DEFINE x == [up[u] EXCEPT !.pc = "accepted"]
<1>1. /\ up[u] \in Requests /\ KindOK(u) /\ Running(u) /\ up[u].kind # "file"
      /\ UNCHANGED <<disk, made, rows, disturbed>> /\ made \in BOOLEAN
      /\ up[u].pc = "receiving" /\ up[u].todo = {}
  BY Here DEF AcceptUpload, Running, KindOK
<1>2. up' = [up EXCEPT ![u] = x] /\ x \in Requests
  BY <1>1 DEF AcceptUpload, Move, Requests
<1>3. disk' \in [Places -> [Paths -> Content \cup {None}]] /\ WritesOwn(u)
  BY <1>1, Here DEF WritesOwn
<1>4. up'[u] = x
  BY <1>2 DEF ChainInv, TypeOK
<1>5. up'[u].pc = "accepted" /\ up'[u].files = up[u].files
  BY <1>1, <1>4 DEF Requests
<1>6. KindOK(u)'
  BY <1>1, <1>4 DEF KindOK, Requests
<1>7. ASSUME u \notin disturbed
      PROVE  ScratchOK(u)'
  <2>1. TreeIs(u, up[u].files)
    BY <1>1, <1>7, Here DEF ScratchOK, TreeIs
  <2>2. TreeIs(u, up[u].files)'
    BY <1>1, <1>5, <2>1 DEF TreeIs, Own
  <2> QED BY <1>5, <2>2 DEF ScratchOK
<1> QED BY <1>1, <1>2, <1>3, <1>6, <1>7, AssembleNoRow DEF Requests

(* An upload that ends without touching a file keeps the invariant. *)
LEMMA FailKeeps ==
  ASSUME ChainInv, NEW u \in Uploads, Running(u), Fail(u),
         UNCHANGED <<made, rows, disturbed>>,
         disk' \in [Places -> [Paths -> Content \cup {None}]], WritesOwn(u)
  PROVE  ChainInv'
<1> DEFINE x == [up[u] EXCEPT !.pc = "done", !.reply = "failed"]
<1>1. up[u] \in Requests /\ KindOK(u) /\ made \in BOOLEAN /\ up[u].name \in Names
  BY Here DEF Running, KindOK
<1>2. up' = [up EXCEPT ![u] = x] /\ x \in Requests
  BY <1>1 DEF Fail, Requests
<1>3. up'[u] = x
  BY <1>2 DEF ChainInv, TypeOK
<1>4. KindOK(u)' /\ ScratchOK(u)'
  BY <1>1, <1>3 DEF KindOK, ScratchOK, Requests
<1> QED BY <1>1, <1>2, <1>4, AssembleNoRow DEF Requests

LEMMA RefuseFolderKeeps ==
  ASSUME ChainInv, NEW u \in Uploads, RefuseFolder(u)
  PROVE  ChainInv'
<1>1. Running(u) /\ Fail(u) /\ UNCHANGED <<disk, made, rows, disturbed>>
  BY DEF RefuseFolder, Running
<1>2. disk' \in [Places -> [Paths -> Content \cup {None}]] /\ WritesOwn(u)
  BY <1>1, Here DEF WritesOwn
<1> QED BY <1>1, <1>2, FailKeeps

LEMMA AcceptFailsKeeps ==
  ASSUME ChainInv, NEW u \in Uploads, NEW ok \in BOOLEAN, AcceptFails(u, ok)
  PROVE  ChainInv'
<1> DEFINE place == IF up[u].pc = "accepted" THEN "archive" ELSE "sealed"
<1>1. /\ Running(u) /\ Fail(u) /\ UNCHANGED <<made, rows, disturbed>>
      /\ up[u].kind = "archive"
  BY DEF AcceptFails, Running
<1>2. /\ up[u].name \in Paths /\ place \in Places \ {"temp"}
      /\ Partial \in Content \cup {None}
  BY <1>1, Here, Naming, Contents DEF Places
<1>3. disk' \in [Places -> [Paths -> Content \cup {None}]] /\ WritesOwn(u)
  <2>1. disk' = disk \/ disk' = [disk EXCEPT ![place][up[u].name] = Partial]
    BY DEF AcceptFails
  <2> HIDE DEF place
  <2>2. CASE disk' = disk
    BY <2>2, Here DEF WritesOwn
  <2>3. CASE disk' = [disk EXCEPT ![place][up[u].name] = Partial]
    BY <1>1, <1>2, <2>3, Here, Write DEF WritesOwn
  <2> QED BY <2>1, <2>2, <2>3
<1> QED BY <1>1, <1>3, FailKeeps

LEMMA PackFolderKeeps ==
  ASSUME ChainInv, NEW u \in Uploads, PackFolder(u)
  PROVE  ChainInv'
<1> DEFINE n == up[u].name
           c == Packed(disk["tree"])
           x == [up[u] EXCEPT !.pc = "packed"]
<1>1. /\ up[u] \in Requests /\ KindOK(u) /\ Running(u) /\ up[u].kind = "archive" /\ n \in Names
      /\ UNCHANGED <<made, rows, disturbed>> /\ made \in BOOLEAN /\ up[u].pc = "accepted"
  BY Here DEF PackFolder, Running, KindOK
<1>2. c \in Content
  BY Here, PackedContent DEF Places
<1>3. /\ disk' \in [Places -> [Paths -> Content \cup {None}]] /\ WritesOwn(u)
      /\ disk'["archive"][n] = c
  <2>1. disk' = [disk EXCEPT !["archive"][n] = c] /\ "archive" \in Places /\ n \in Paths
    BY <1>1, Naming DEF PackFolder, Places
  <2> HIDE DEF c
  <2> QED BY <1>1, <1>2, <2>1, Here, Write DEF WritesOwn
<1>4. CASE ~made
  BY <1>1, <1>3, <1>4, FailKeeps DEF PackFolder
<1>5. CASE made
  <2>1. up' = [up EXCEPT ![u] = x] /\ x \in Requests
    BY <1>1, <1>5 DEF PackFolder, Move, Requests
  <2>2. up'[u] = x
    BY <2>1 DEF ChainInv, TypeOK
  <2>3. up'[u].pc = "packed" /\ up'[u].files = up[u].files /\ up'[u].name = n
    BY <1>1, <2>2 DEF Requests
  <2>4. KindOK(u)'
    BY <1>1, <2>2 DEF KindOK, Requests
  <2>5. ASSUME u \notin disturbed
        PROVE  ScratchOK(u)'
    <3>1. TreeIs(u, up[u].files) /\ up[u].files \subseteq Names
      BY <1>1, <2>5, Here DEF ScratchOK, Requests
    <3>2. c = Archived(u)
      <4>1. \A m \in Names : Own(u, m) # None
        BY Contents, NoneAssumption
      <4>2. {m \in Names : disk["tree"][m] # None} = up[u].files
        BY <3>1, <4>1 DEF TreeIs
      <4>3. \A m \in up[u].files : disk["tree"][m].data = {<<u, m>>}
        <5> SUFFICES ASSUME NEW m \in up[u].files
                     PROVE  disk["tree"][m].data = {<<u, m>>}
          OBVIOUS
        <5>1. disk["tree"][m] = Own(u, m)
          BY <3>1 DEF TreeIs
        <5> QED BY <5>1 DEF Own
      <4>4. UNION {disk["tree"][m].data : m \in up[u].files} = {<<u, m>> : m \in up[u].files}
        BY <4>3
      <4> QED BY <4>2, <4>4 DEF Packed, Archived
    <3>3. Archived(u)' = Archived(u)
      BY <2>3 DEF Archived
    <3> QED BY <1>3, <2>3, <3>2, <3>3 DEF ScratchOK, Archived
  <2> QED BY <1>1, <1>3, <2>1, <2>4, <2>5, AssembleNoRow DEF Requests
<1> QED BY <1>4, <1>5

LEMMA SealArchiveKeeps ==
  ASSUME ChainInv, NEW u \in Uploads, SealArchive(u)
  PROVE  ChainInv'
<1> DEFINE n == up[u].name
           c == Encrypted(disk["archive"][n], <<u, n>>)
           x == [up[u] EXCEPT !.pc = "sealed"]
<1>1. /\ up[u] \in Requests /\ KindOK(u) /\ Running(u) /\ up[u].kind = "archive" /\ n \in Names
      /\ UNCHANGED <<made, rows, disturbed>> /\ made \in BOOLEAN /\ up[u].pc = "packed"
  BY Here DEF SealArchive, Running, KindOK
<1>2. c \in Content
  BY <1>1, Here, Contents, Naming DEF SealArchive, Places
<1>3. /\ disk' \in [Places -> [Paths -> Content \cup {None}]] /\ WritesOwn(u)
      /\ disk'["sealed"][n] = c
  <2>1. disk' = [disk EXCEPT !["sealed"][n] = c] /\ "sealed" \in Places /\ n \in Paths
    BY <1>1, Naming DEF SealArchive, Places
  <2> HIDE DEF c
  <2>2. /\ disk' \in [Places -> [Paths -> Content \cup {None}]] /\ disk'["sealed"][n] = c
        /\ \A q \in Places, m \in Paths : q # "sealed" \/ m # n => disk'[q][m] = disk[q][m]
    BY <1>1, <1>2, <2>1, Here, Write
  <2> QED BY <1>1, <2>2 DEF WritesOwn
<1>4. up' = [up EXCEPT ![u] = x] /\ x \in Requests
  BY <1>1 DEF SealArchive, Move, Requests
<1>5. up'[u] = x
  BY <1>4 DEF ChainInv, TypeOK
<1>6. /\ up'[u].pc = "sealed" /\ up'[u].files = up[u].files /\ up'[u].name = n
      /\ up'[u].kind = "archive"
  BY <1>1, <1>5 DEF Requests
<1>7. KindOK(u)'
  BY <1>1, <1>5 DEF KindOK, Requests
<1>8. ASSUME u \notin disturbed
      PROVE  ScratchOK(u)'
  <2>1. c = Expected(u, n)
    BY <1>1, <1>8, Here DEF ScratchOK, Expected
  <2>2. Expected(u, n)' = Expected(u, n)
    BY <1>1, <1>6 DEF Expected, Archived
  <2> QED BY <1>3, <1>6, <2>1, <2>2 DEF ScratchOK, Expected, Archived
<1> QED BY <1>1, <1>3, <1>4, <1>7, <1>8, AssembleNoRow DEF Requests

LEMMA SendArchiveKeeps ==
  ASSUME ChainInv, NEW u \in Uploads, SendArchive(u)
  PROVE  ChainInv'
<1> DEFINE n == up[u].name
           sent == disk["sealed"][n]
           x == [up[u] EXCEPT !.pc = "sent", !.object = sent]
<1>1. /\ up[u] \in Requests /\ KindOK(u) /\ Running(u) /\ up[u].kind = "archive" /\ n \in Names
      /\ UNCHANGED <<disk, made, rows, disturbed>> /\ made \in BOOLEAN /\ up[u].pc = "sealed"
  BY Here DEF SendArchive, Running, KindOK
<1>2. sent \in Content
  BY <1>1, Here, Naming DEF SendArchive, Places
<1>3. up' = [up EXCEPT ![u] = x] /\ x \in Requests
  BY <1>1, <1>2 DEF SendArchive, Requests
<1>4. disk' \in [Places -> [Paths -> Content \cup {None}]] /\ WritesOwn(u)
  BY <1>1, Here DEF WritesOwn
<1>5. up'[u] = x
  BY <1>3 DEF ChainInv, TypeOK
<1>6. /\ up'[u].pc = "sent" /\ up'[u].files = up[u].files /\ up'[u].name = n
      /\ up'[u].kind = "archive" /\ up'[u].object = sent
  BY <1>1, <1>5 DEF Requests
<1>7. KindOK(u)'
  BY <1>1, <1>2, <1>5 DEF KindOK, Requests
<1>8. ASSUME u \notin disturbed
      PROVE  ScratchOK(u)'
  <2>1. sent = Expected(u, n)
    BY <1>1, <1>8, Here DEF ScratchOK
  <2>2. Expected(u, n)' = Expected(u, n)
    BY <1>1, <1>6 DEF Expected, Archived
  <2> QED BY <1>6, <2>1, <2>2 DEF ScratchOK, Expected, Archived
<1> QED BY <1>1, <1>3, <1>4, <1>7, <1>8, AssembleNoRow DEF Requests

LEMMA RecordArchiveKeeps ==
  ASSUME ChainInv, NEW u \in Uploads, NEW ok \in BOOLEAN, RecordArchive(u, ok)
  PROVE  ChainInv'
<1> DEFINE n == up[u].name
           x == [up[u] EXCEPT !.pc = "closing"]
           r == Row(u, n, FALSE, Enc(Zst(Tar(n))))
<1>1. /\ up[u] \in Requests /\ KindOK(u) /\ Running(u) /\ up[u].kind = "archive" /\ n \in Names
      /\ UNCHANGED <<disk, made, disturbed>> /\ made \in BOOLEAN
      /\ up[u].pc = "sent" /\ up[u].object \in Content
  BY Here DEF RecordArchive, Running, KindOK
<1>2. disk' \in [Places -> [Paths -> Content \cup {None}]] /\ WritesOwn(u)
  BY <1>1, Here DEF WritesOwn
<1>3. CASE ~ok
  BY <1>1, <1>2, <1>3, FailKeeps DEF RecordArchive
<1>4. CASE ok
  <2>1. up' = [up EXCEPT ![u] = x] /\ x \in Requests /\ rows' = rows \cup {r}
    BY <1>1, <1>4 DEF RecordArchive, Move, Requests
  <2>2. up'[u] = x
    BY <2>1 DEF ChainInv, TypeOK
  <2>3. /\ up'[u].kind = "archive" /\ up'[u].name = n /\ up'[u].files = up[u].files
        /\ up'[u].pc = "closing"
    BY <1>1, <2>2 DEF Requests
  <2>4. KindOK(u)' /\ ScratchOK(u)'
    BY <1>1, <2>2 DEF KindOK, ScratchOK, Requests
  <2>5. r \in Rows
    <3>1. Enc(Zst(Tar(n))) \in Seq(Parts)
      BY <1>1, Lengths
    <3> QED BY <1>1, <3>1 DEF Row, Rows
  <2>6. rows' \in SUBSET Rows /\ \A s \in rows' : s \in rows \/ s = r
    BY <2>1, <2>5, Here
  <2>7. ASSUME NEW s, s = r
        PROVE  RowOK(s)'
    <3>1. /\ s.owner = u /\ s.name = n /\ s.object = up[u].object /\ ~s.relative
          /\ s.filename = Enc(Zst(Tar(s.name)))
      BY <2>7 DEF Row
    <3>2. u \notin disturbed => s.object = Expected(u, n)
      BY <1>1, <3>1, Here DEF ScratchOK
    <3>3. Expected(u, n)' = Expected(u, n)
      BY <1>1, <2>3 DEF Expected, Archived
    <3> HIDE DEF r, n
    <3> QED BY <1>1, <2>3, <3>1, <3>2, <3>3 DEF RowOK, Expected, Archived
  <2> QED BY <1>1, <1>2, <2>1, <2>4, <2>6, <2>7, Here, Assemble DEF Requests
<1> QED BY <1>3, <1>4

(* The end of a folder upload, which empties the temporary folder. *)
LEMMA CloseKeeps ==
  ASSUME ChainInv, NEW u \in Uploads, CloseArchive(u) \/ CloseIndexed(u)
  PROVE  ChainInv'
<1> DEFINE x == [up[u] EXCEPT !.pc = "done", !.reply = "ok"]
<1>1. /\ up[u] \in Requests /\ KindOK(u) /\ Running(u) /\ up[u].kind # "file"
      /\ made' = FALSE /\ UNCHANGED <<rows, disturbed>> /\ up[u].name \in Names
  BY Here DEF CloseArchive, CloseIndexed, Running, KindOK
<1>2. up' = [up EXCEPT ![u] = x] /\ x \in Requests
  <2>1. CloseArchive(u) => up' = [up EXCEPT ![u] = x]
    BY DEF CloseArchive
  <2>2. CloseIndexed(u) => up' = [up EXCEPT ![u] = x]
    BY DEF CloseIndexed
  <2>3. x \in Requests
    BY <1>1 DEF Requests
  <2> QED BY <2>1, <2>2, <2>3
<1>3. Empty \in [Paths -> Content \cup {None}]
  BY DEF Empty
<1>4. disk' \in [Places -> [Paths -> Content \cup {None}]] /\ WritesOwn(u)
  BY <1>1, <1>3, Here, Naming DEF CloseArchive, CloseIndexed, WritesOwn, Places
<1>5. up'[u] = x
  BY <1>2 DEF ChainInv, TypeOK
<1>6. KindOK(u)' /\ ScratchOK(u)'
  BY <1>1, <1>5 DEF KindOK, ScratchOK, Requests
<1> QED BY <1>1, <1>2, <1>4, <1>6, AssembleNoRow DEF Requests

LEMMA IndexFolderKeeps ==
  ASSUME ChainInv, NEW u \in Uploads, NEW ok \in BOOLEAN, IndexFolder(u, ok)
  PROVE  ChainInv'
<1> DEFINE x == [up[u] EXCEPT !.pc = "indexing", !.todo = {n \in Names : disk["tree"][n] # None}]
<1>1. /\ up[u] \in Requests /\ KindOK(u) /\ Running(u) /\ up[u].kind = "indexed"
      /\ UNCHANGED <<disk, made, rows, disturbed>> /\ made \in BOOLEAN
      /\ up[u].pc = "accepted" /\ up[u].name \in Names
  BY Here DEF IndexFolder, Running, KindOK
<1>2. disk' \in [Places -> [Paths -> Content \cup {None}]] /\ WritesOwn(u)
  BY <1>1, Here DEF WritesOwn
<1>3. CASE ~(made /\ ok)
  BY <1>1, <1>2, <1>3, FailKeeps DEF IndexFolder
<1>4. CASE made /\ ok
  <2>1. up' = [up EXCEPT ![u] = x] /\ x \in Requests
    BY <1>1, <1>4 DEF IndexFolder, Requests
  <2>2. up'[u] = x
    BY <2>1 DEF ChainInv, TypeOK
  <2>3. up'[u].pc = "indexing" /\ up'[u].files = up[u].files
    BY <1>1, <2>2 DEF Requests
  <2>4. KindOK(u)'
    BY <1>1, <2>2 DEF KindOK, Requests
  <2>5. ASSUME u \notin disturbed
        PROVE  ScratchOK(u)'
    <3>1. TreeIs(u, up[u].files)
      BY <1>1, <2>5, Here DEF ScratchOK
    <3>2. TreeIs(u, up[u].files)'
      BY <1>1, <2>3, <3>1 DEF TreeIs, Own
    <3> QED BY <2>3, <3>2 DEF ScratchOK
  <2> QED BY <1>1, <1>2, <2>1, <2>4, <2>5, AssembleNoRow DEF Requests
<1> QED BY <1>3, <1>4

LEMMA SealEntryKeeps ==
  ASSUME ChainInv, NEW u \in Uploads, SealEntry(u)
  PROVE  ChainInv'
<1>1. /\ up[u] \in Requests /\ KindOK(u) /\ Running(u) /\ up[u].kind = "indexed"
      /\ UNCHANGED <<made, rows, disturbed>> /\ made \in BOOLEAN
      /\ up[u].pc = "indexing" /\ up[u].name \in Names
  BY Here DEF SealEntry, Running, KindOK
<1>2. PICK n \in up[u].todo :
        /\ disk["tree"][n] # None
        /\ disk' = [disk EXCEPT !["piece"][n] = Encrypted(disk["tree"][n], <<u, n>>)]
        /\ up' = [up EXCEPT ![u].pc = "entry", ![u].todo = @ \ {n}, ![u].entry = n]
  BY DEF SealEntry
<1> DEFINE x == [up[u] EXCEPT !.pc = "entry", !.todo = @ \ {n}, !.entry = n]
           c == Encrypted(disk["tree"][n], <<u, n>>)
<1>3. up' = [up EXCEPT ![u] = x] /\ x \in Requests /\ n \in Names
  BY <1>1, <1>2 DEF Requests
<1>4. c \in Content
  BY <1>2, <1>3, Here, Contents, Naming DEF Places
<1>5. /\ disk' \in [Places -> [Paths -> Content \cup {None}]] /\ WritesOwn(u)
      /\ disk'["piece"][n] = c
      /\ \A m \in Names : disk'["tree"][m] = disk["tree"][m]
  <2>1. disk' = [disk EXCEPT !["piece"][n] = c] /\ "piece" \in Places /\ n \in Paths
    BY <1>2, <1>3, Naming DEF Places
  <2> HIDE DEF c
  <2> QED BY <1>1, <1>4, <2>1, Here, Write, Naming DEF WritesOwn, Places
<1>6. up'[u] = x
  BY <1>3 DEF ChainInv, TypeOK
<1>7. /\ up'[u].pc = "entry" /\ up'[u].files = up[u].files /\ up'[u].entry = n
      /\ up'[u].kind = "indexed" /\ up'[u].compress = up[u].compress
  BY <1>1, <1>6 DEF Requests
<1>8. KindOK(u)'
  BY <1>1, <1>3, <1>6 DEF KindOK, Requests
<1>9. ASSUME u \notin disturbed
      PROVE  ScratchOK(u)'
  <2>1. TreeIs(u, up[u].files)
    BY <1>1, <1>9, Here DEF ScratchOK
  <2>2. TreeIs(u, up[u].files)'
    BY <1>5, <1>7, <2>1 DEF TreeIs, Own
  <2>3. disk["tree"][n] = Own(u, n)
    BY <1>2, <1>3, <2>1 DEF TreeIs
  <2>4. ~up[u].compress
    BY <1>1 DEF KindOK
  <2>5. Expected(u, n)' = c
    BY <1>7, <2>3, <2>4 DEF Expected, Payload, Own
  <2> QED BY <1>5, <1>7, <2>2, <2>5 DEF ScratchOK
<1> QED BY <1>1, <1>3, <1>5, <1>8, <1>9, AssembleNoRow DEF Requests

LEMMA SkipEntryKeeps ==
  ASSUME ChainInv, NEW u \in Uploads, SkipEntry(u)
  PROVE  ChainInv'
<1>1. /\ up[u] \in Requests /\ KindOK(u) /\ Running(u) /\ up[u].kind = "indexed"
      /\ UNCHANGED <<made, rows, disturbed>> /\ made \in BOOLEAN
      /\ up[u].pc = "indexing" /\ up[u].name \in Names
  BY Here DEF SkipEntry, Running, KindOK
<1>2. PICK n \in up[u].todo :
        /\ \/ disk' = disk
           \/ \E left \in {Partial, None} : disk' = [disk EXCEPT !["piece"][n] = left]
        /\ up' = [up EXCEPT ![u].todo = @ \ {n}]
  BY DEF SkipEntry
<1> DEFINE x == [up[u] EXCEPT !.todo = @ \ {n}]
<1>3. up' = [up EXCEPT ![u] = x] /\ x \in Requests /\ n \in Names
  BY <1>1, <1>2 DEF Requests
<1>4. /\ disk' \in [Places -> [Paths -> Content \cup {None}]] /\ WritesOwn(u)
      /\ \A m \in Names : disk'["tree"][m] = disk["tree"][m]
  <2>1. "piece" \in Places /\ n \in Paths /\ {Partial, None} \subseteq Content \cup {None}
    BY <1>3, Naming, Contents DEF Places
  <2>2. CASE disk' = disk
    BY <2>2, Here DEF WritesOwn
  <2>3. ASSUME NEW left \in {Partial, None}, disk' = [disk EXCEPT !["piece"][n] = left]
        PROVE  /\ disk' \in [Places -> [Paths -> Content \cup {None}]] /\ WritesOwn(u)
               /\ \A m \in Names : disk'["tree"][m] = disk["tree"][m]
    BY <1>1, <2>1, <2>3, Here, Write, Naming DEF WritesOwn, Places
  <2> QED BY <1>2, <2>2, <2>3
<1>5. up'[u] = x
  BY <1>3 DEF ChainInv, TypeOK
<1>6. up'[u].pc = "indexing" /\ up'[u].files = up[u].files
  BY <1>1, <1>5 DEF Requests
<1>7. KindOK(u)'
  BY <1>1, <1>5 DEF KindOK, Requests
<1>8. ASSUME u \notin disturbed
      PROVE  ScratchOK(u)'
  <2>1. TreeIs(u, up[u].files)
    BY <1>1, <1>8, Here DEF ScratchOK
  <2>2. TreeIs(u, up[u].files)'
    BY <1>4, <1>6, <2>1 DEF TreeIs, Own
  <2> QED BY <1>6, <2>2 DEF ScratchOK
<1> QED BY <1>1, <1>3, <1>4, <1>7, <1>8, AssembleNoRow DEF Requests

LEMMA SendEntryKeeps ==
  ASSUME ChainInv, NEW u \in Uploads, NEW ok \in BOOLEAN, SendEntry(u, ok)
  PROVE  ChainInv'
<1> DEFINE n == up[u].entry
           sent == disk["piece"][n]
           x == IF sent # None /\ ok
                  THEN [up[u] EXCEPT !.pc = "entrysent", !.object = sent]
                  ELSE [up[u] EXCEPT !.pc = "indexing", !.entry = None]
<1>1. /\ up[u] \in Requests /\ KindOK(u) /\ Running(u) /\ up[u].kind = "indexed" /\ n \in Names
      /\ UNCHANGED <<made, rows, disturbed>> /\ made \in BOOLEAN
      /\ up[u].pc = "entry" /\ up[u].name \in Names
      /\ disk' = [disk EXCEPT !["piece"][n] = None]
  BY Here DEF SendEntry, Running, KindOK
<1>2. sent \in Content \cup {None} /\ n \in Paths
  BY <1>1, Here, Naming DEF Places
<1>3. up' = [up EXCEPT ![u] = x] /\ x \in Requests
  BY <1>1, <1>2 DEF SendEntry, Requests
<1>4. /\ disk' \in [Places -> [Paths -> Content \cup {None}]] /\ WritesOwn(u)
      /\ \A m \in Names : disk'["tree"][m] = disk["tree"][m]
  BY <1>1, <1>2, Here, Write, Naming DEF WritesOwn, Places
<1>5. up'[u] = x
  BY <1>3 DEF ChainInv, TypeOK
<1>6. /\ up'[u].files = up[u].files /\ up'[u].kind = "indexed"
      /\ up'[u].compress = up[u].compress /\ up'[u].name \in Names
      /\ \/ up'[u].pc = "entrysent" /\ up'[u].object = sent /\ sent # None /\ up'[u].entry = n
         \/ up'[u].pc = "indexing"
  BY <1>1, <1>5 DEF Requests
<1>7. KindOK(u)'
  BY <1>1, <1>2, <1>6 DEF KindOK
<1>8. ASSUME u \notin disturbed
      PROVE  ScratchOK(u)'
  <2>1. TreeIs(u, up[u].files) /\ sent = Expected(u, n)
    BY <1>1, <1>8, Here DEF ScratchOK
  <2>2. TreeIs(u, up[u].files)'
    BY <1>4, <1>6, <2>1 DEF TreeIs, Own
  <2>3. up'[u].pc = "entrysent" => Expected(u, up[u].entry)' = Expected(u, n)
    BY <1>1, <1>6 DEF Expected, Payload, Own
  <2> QED BY <1>6, <2>1, <2>2, <2>3 DEF ScratchOK, Expected, Payload, Own
<1> QED BY <1>1, <1>3, <1>4, <1>7, <1>8, AssembleNoRow DEF Requests

LEMMA RecordEntryKeeps ==
  ASSUME ChainInv, NEW u \in Uploads, NEW ok \in BOOLEAN, RecordEntry(u, ok)
  PROVE  ChainInv'
<1> DEFINE n == up[u].entry
           x == [up[u] EXCEPT !.pc = "indexing", !.entry = None, !.object = None]
           r == Row(u, n, TRUE, Enc(n))
<1>1. /\ up[u] \in Requests /\ KindOK(u) /\ Running(u) /\ up[u].kind = "indexed" /\ n \in Names
      /\ UNCHANGED <<disk, made, disturbed>> /\ made \in BOOLEAN
      /\ up[u].pc = "entrysent" /\ up[u].object \in Content
  BY Here DEF RecordEntry, Running, KindOK
<1>2. up' = [up EXCEPT ![u] = x] /\ x \in Requests
  BY <1>1 DEF RecordEntry, Requests
<1>3. disk' \in [Places -> [Paths -> Content \cup {None}]] /\ WritesOwn(u)
  BY <1>1, Here DEF WritesOwn
<1>4. up'[u] = x
  BY <1>2 DEF ChainInv, TypeOK
<1>5. /\ up'[u].kind = "indexed" /\ up'[u].files = up[u].files
      /\ up'[u].compress = up[u].compress /\ up'[u].pc = "indexing"
  BY <1>1, <1>4 DEF Requests
<1>6. KindOK(u)'
  BY <1>1, <1>4 DEF KindOK, Requests
<1>7. u \notin disturbed => ScratchOK(u)'
  <2>1. u \notin disturbed => TreeIs(u, up[u].files)
    BY <1>1, Here DEF ScratchOK
  <2>2. u \notin disturbed => TreeIs(u, up[u].files)'
    BY <1>1, <1>5, <2>1 DEF TreeIs, Own
  <2> QED BY <1>5, <2>2 DEF ScratchOK
<1>8. r \in Rows
  <2>1. Enc(n) \in Seq(Parts)
    BY <1>1, Lengths
  <2> QED BY <1>1, <2>1 DEF Row, Rows
<1>9. rows' \in SUBSET Rows /\ \A s \in rows' : s \in rows \/ s = r
  BY <1>8, Here DEF RecordEntry
<1>10. ASSUME NEW s, s = r
       PROVE  RowOK(s)'
  <2>1. /\ s.owner = u /\ s.name = n /\ s.object = up[u].object /\ s.relative
        /\ s.filename = Enc(s.name)
    BY <1>10 DEF Row
  <2>2. u \notin disturbed => s.object = Expected(u, n)
    BY <1>1, <2>1, Here DEF ScratchOK
  <2>3. Expected(u, s.name)' = Expected(u, s.name)
    BY <1>1, <1>5 DEF Expected, Payload, Own
  <2> HIDE DEF r, n
  <2> QED BY <1>1, <1>5, <2>1, <2>2, <2>3 DEF RowOK, Expected, Payload, Own
<1> QED BY <1>1, <1>2, <1>3, <1>6, <1>7, <1>9, <1>10, Here, Assemble DEF Requests

(* An upload whose record and scratch files stay keeps what it had.        *)
LEMMA ScratchFrame ==
  ASSUME NEW v, up'[v] = up[v], ScratchOK(v),
         up[v].pc = "received" => disk'["temp"][up[v].name] = disk["temp"][up[v].name],
         up[v].pc = "encrypted" => disk'["temp"][EncPath(v)] = disk["temp"][EncPath(v)],
         up[v].pc = "compressed" =>
           disk'["temp"][Zst(up[v].name)] = disk["temp"][Zst(up[v].name)],
         disk'["archive"][up[v].name] = disk["archive"][up[v].name],
         disk'["sealed"][up[v].name] = disk["sealed"][up[v].name],
         \A m \in Names : disk'["tree"][m] = disk["tree"][m],
         up[v].pc = "entry" => disk'["piece"][up[v].entry] = disk["piece"][up[v].entry]
  PROVE  ScratchOK(v)'
<1>1. CASE up[v].pc \in {"received", "compressed", "encrypted"}
  BY <1>1 DEF ScratchOK, EncPath, Expected, Payload, Archived, Own
<1>2. CASE up[v].pc \notin {"received", "compressed", "encrypted"}
  BY <1>2 DEF ScratchOK, TreeIs, Expected, Payload, Archived, Own
<1> QED BY <1>1, <1>2

(***************************************************************************)
(* A new upload: whoever it disturbs, and it itself then, is noted.        *)
(***************************************************************************)
LEMMA Begin ==
  ASSUME ChainInv, NEW u \in Uploads, up[u].pc = "idle", NEW y \in Requests,
         up' = [up EXCEPT ![u] = y], NoteClashes(u, y.kind, y.name, y.compress),
         disk' \in [Places -> [Paths -> Content \cup {None}]],
         \A p \in Places, m \in Paths :
           disk'[p][m] = disk[p][m] \/ (y.kind = "file" /\ p = "temp" /\ m = y.name),
         made' \in BOOLEAN, UNCHANGED rows,
         KindOK(u)', u \notin disturbed' => ScratchOK(u)'
  PROVE  ChainInv'
<1>1. up'[u] = y /\ \A v \in Uploads \ {u} : up'[v] = up[v]
  BY DEF ChainInv, TypeOK
<1>2. /\ disturbed \subseteq disturbed'
      /\ \A v \in Uploads : Clash(y.kind, y.name, y.compress, v) => {u, v} \subseteq disturbed'
      /\ disturbed' \in SUBSET Uploads
  BY DEF NoteClashes, ChainInv, TypeOK
<1>3. ~Running(u)
  BY DEF Running
<1>4. TypeOK'
  BY <1>2 DEF ChainInv, TypeOK
<1>5. \A v \in Uploads : KindOK(v)'
  BY <1>1 DEF ChainInv, KindOK
<1>6. Apart'
  <2> SUFFICES ASSUME NEW v \in Uploads, NEW w \in Uploads, v # w, v \notin disturbed',
                      Running(v)', Running(w)'
               PROVE  ~Overlap(v, w)'
    BY DEF Apart
  <2>1. CASE v # u /\ w # u
    <3>1. v \notin disturbed /\ Running(v) /\ Running(w)
      BY <1>1, <1>2, <2>1 DEF Running
    <3>2. ~Overlap(v, w)
      BY <3>1 DEF ChainInv, Apart
    <3> QED BY <1>1, <2>1, <3>2 DEF Overlap
  <2>2. CASE v = u
    <3>1. Running(w) /\ ~Clash(y.kind, y.name, y.compress, w)
      BY <1>1, <1>2, <2>2 DEF Running
    <3> QED BY <1>1, <2>2, <3>1 DEF Overlap, Clash
  <2>3. CASE w = u
    <3>1. Running(v) /\ ~Clash(y.kind, y.name, y.compress, v)
      BY <1>1, <1>2, <2>3 DEF Running
    <3> QED BY <1>1, <2>3, <3>1 DEF Overlap, Clash
  <2> QED BY <2>1, <2>2, <2>3
<1>7. ASSUME NEW v \in Uploads \ disturbed'
      PROVE  ScratchOK(v)'
  <2>1. CASE v = u
    BY <1>7, <2>1
  <2>2. CASE v # u
    <3>1. /\ up'[v] = up[v] /\ ScratchOK(v) /\ KindOK(v)
          /\ ~Clash(y.kind, y.name, y.compress, v)
      BY <1>1, <1>2, <2>2 DEF ChainInv
    <3>2. CASE ~Running(v)
      BY <3>1, <3>2 DEF ScratchOK, Running
    <3>3. CASE Running(v)
      <4>1. /\ up[v].name \in Names /\ (up[v].pc = "entry" => up[v].entry \in Names)
            /\ up[v].compress \in BOOLEAN
        BY <1>7, <3>1, <3>3, Here DEF KindOK, Running, Requests
      <4>2. up[v].pc \in {"received", "compressed", "encrypted"} =>
              \A m \in Scratch(up[v].name, up[v].compress) : disk'["temp"][m] = disk["temp"][m]
        <5>1. up[v].pc \in {"received", "compressed", "encrypted"} =>
                up[v].kind = "file"
          BY <3>1 DEF KindOK
        <5>2. y.kind = "file" => y.name \in Scratch(y.name, y.compress)
          BY DEF Scratch
        <5> QED BY <3>1, <3>3, <4>1, <5>1, <5>2, Naming DEF Clash, Places
      <4>3. \A p \in Places \ {"temp"}, m \in Names : disk'[p][m] = disk[p][m]
        BY Naming
      <4>4. /\ up[v].pc = "received" => disk'["temp"][up[v].name] = disk["temp"][up[v].name]
            /\ up[v].pc = "encrypted" => disk'["temp"][EncPath(v)] = disk["temp"][EncPath(v)]
            /\ up[v].pc = "compressed" =>
                 disk'["temp"][Zst(up[v].name)] = disk["temp"][Zst(up[v].name)]
        BY <3>1, <4>1, <4>2, Naming DEF EncPath, ScratchOK
      <4>5. /\ disk'["archive"][up[v].name] = disk["archive"][up[v].name]
            /\ disk'["sealed"][up[v].name] = disk["sealed"][up[v].name]
            /\ \A m \in Names : disk'["tree"][m] = disk["tree"][m]
            /\ up[v].pc = "entry" => disk'["piece"][up[v].entry] = disk["piece"][up[v].entry]
        BY <4>1, <4>3 DEF Places
      <4> QED BY <3>1, <4>4, <4>5, ScratchFrame
    <3> QED BY <3>2, <3>3
  <2> QED BY <2>1, <2>2
<1>8. ASSUME NEW r \in rows
      PROVE  RowOK(r)'
  <2>1. RowOK(r) /\ r.owner \in Uploads
    BY DEF ChainInv, TypeOK, Rows
  <2>2. up'[r.owner] = up[r.owner]
    BY <1>1, <2>1 DEF RowOK
  <2> QED BY <1>2, <2>1, <2>2 DEF RowOK, Expected, Payload, Archived, Own
<1> QED BY <1>4, <1>5, <1>6, <1>7, <1>8 DEF ChainInv

LEMMA ReceiveFileKeeps ==
  ASSUME ChainInv, NEW u \in Uploads, ReceiveFile(u)
  PROVE  ChainInv'
<1>1. PICK n \in Names, c \in BOOLEAN :
        /\ up' = [up EXCEPT ![u] = [Start EXCEPT !.pc = "received", !.name = n, !.compress = c]]
        /\ disk' = [disk EXCEPT !["temp"][n] = Own(u, n)]
        /\ NoteClashes(u, "file", n, c)
  BY DEF ReceiveFile
<1> DEFINE y == [Start EXCEPT !.pc = "received", !.name = n, !.compress = c]
<1>2. /\ y \in Requests /\ y.kind = "file" /\ y.name = n /\ y.pc = "received" /\ y.compress = c
      /\ up[u].pc = "idle" /\ made' \in BOOLEAN /\ UNCHANGED rows
  BY Here DEF ReceiveFile, Start, Requests, Kinds
<1>3. up'[u] = y
  BY <1>1 DEF ChainInv, TypeOK
<1>4. /\ disk' \in [Places -> [Paths -> Content \cup {None}]]
      /\ disk'["temp"][n] = Own(u, n)
      /\ \A p \in Places, m \in Paths :
           disk'[p][m] = disk[p][m] \/ (y.kind = "file" /\ p = "temp" /\ m = y.name)
  <2>1. Own(u, n) \in Content \cup {None} /\ "temp" \in Places /\ n \in Paths
    BY Contents, Naming DEF Places
  <2> HIDE DEF y
  <2> QED BY <1>1, <1>2, <2>1, Here, Write
<1>5. KindOK(u)' /\ ScratchOK(u)'
  BY <1>2, <1>3, <1>4 DEF KindOK, ScratchOK, Own
<1> QED BY <1>1, <1>2, <1>4, <1>5, Begin

LEMMA BeginFolderKeeps ==
  ASSUME ChainInv, NEW u \in Uploads, BeginFolder(u)
  PROVE  ChainInv'
<1>1. PICK n \in Names, k \in Kinds \ {"file"}, fs \in SUBSET Names :
        /\ up' = [up EXCEPT ![u] = [Start EXCEPT !.pc = "receiving", !.kind = k, !.name = n,
                                                 !.compress = (k = "archive"),
                                                 !.files = fs, !.todo = fs]]
        /\ NoteClashes(u, k, n, k = "archive")
  BY NamesAssumption DEF BeginFolder
<1> DEFINE y == [Start EXCEPT !.pc = "receiving", !.kind = k, !.name = n,
                              !.compress = (k = "archive"), !.files = fs, !.todo = fs]
<1>2. /\ y \in Requests /\ y.kind = k /\ y.name = n /\ y.pc = "receiving"
      /\ y.files = fs /\ y.todo = fs /\ y.compress = (k = "archive") /\ k \in {"archive", "indexed"}
      /\ up[u].pc = "idle" /\ made' \in BOOLEAN /\ UNCHANGED <<disk, rows>>
  BY Here DEF BeginFolder, Start, Requests, Kinds
<1>3. up'[u] = y
  BY <1>1 DEF ChainInv, TypeOK
<1>4. KindOK(u)'
  BY <1>2, <1>3 DEF KindOK
<1>5. u \notin disturbed' => \A m \in Names : disk["tree"][m] = None
  BY <1>1 DEF NoteClashes, Kinds
<1>6. u \notin disturbed' => ScratchOK(u)'
  BY <1>2, <1>3, <1>5 DEF ScratchOK, TreeIs
<1>7. disk' \in [Places -> [Paths -> Content \cup {None}]]
  BY <1>2, Here
<1> QED BY <1>1, <1>2, <1>4, <1>6, <1>7, Begin

LEMMA StutterKeeps ==
  ASSUME ChainInv, UNCHANGED vars
  PROVE  ChainInv'
<1>1. UNCHANGED <<disk, made, up, rows, disturbed>>
  BY DEF vars
<1>2. TypeOK' /\ Apart'
  BY <1>1 DEF ChainInv, TypeOK, Apart, Running, Overlap
<1>3. \A u \in Uploads : KindOK(u)'
  BY <1>1 DEF ChainInv, KindOK
<1>4. \A u \in Uploads \ disturbed' : ScratchOK(u)'
  <2> SUFFICES ASSUME NEW u \in Uploads \ disturbed PROVE ScratchOK(u)'
    BY <1>1
  <2>1. ScratchOK(u)
    BY DEF ChainInv
  <2>2. CASE up[u].pc \in {"received", "compressed", "encrypted"}
    BY <1>1, <2>1, <2>2 DEF ScratchOK, EncPath, Expected, Payload, Archived, Own
  <2>3. CASE up[u].pc \notin {"received", "compressed", "encrypted"}
    BY <1>1, <2>1, <2>3 DEF ScratchOK, TreeIs, Expected, Payload, Archived, Own
  <2> QED BY <2>2, <2>3
<1>5. \A r \in rows' : RowOK(r)'
  BY <1>1 DEF ChainInv, RowOK, Expected, Payload, Archived, Own
<1> QED BY <1>2, <1>3, <1>4, <1>5 DEF ChainInv

(* The invariant holds initially and every step keeps it. *)
LEMMA ChainAlways == Spec => []ChainInv
<1>1. Init => ChainInv
  <2> SUFFICES ASSUME Init PROVE ChainInv
    OBVIOUS
  <2>1. Start \in Requests
    BY DEF Start, Requests, Kinds
  <2>2. TypeOK
    BY <2>1 DEF Init, TypeOK, Empty
  <2>3. \A u \in Uploads : KindOK(u) /\ ScratchOK(u) /\ ~Running(u)
    BY DEF Init, Start, KindOK, ScratchOK, Running
  <2> QED BY <2>2, <2>3 DEF ChainInv, Apart, Init
<1>2. ChainInv /\ [Next]_vars => ChainInv'
  <2> SUFFICES ASSUME ChainInv, [Next]_vars PROVE ChainInv'
    OBVIOUS
  <2>1. CASE UNCHANGED vars
    BY <2>1, StutterKeeps
  <2>2. ASSUME NEW u \in Uploads,
               \/ ReceiveFile(u) \/ CloseFile(u)
               \/ BeginFolder(u) \/ ReceivePart(u) \/ RefuseFolder(u) \/ AcceptUpload(u)
        PROVE  ChainInv'
    BY <2>2, ReceiveFileKeeps, CloseFileKeeps,
       BeginFolderKeeps, ReceivePartKeeps, RefuseFolderKeeps, AcceptUploadKeeps
  <2>3. ASSUME NEW u \in Uploads,
               \/ PackFolder(u) \/ SealArchive(u) \/ SendArchive(u)
               \/ CloseArchive(u) \/ SealEntry(u) \/ SkipEntry(u) \/ CloseIndexed(u)
        PROVE  ChainInv'
    BY <2>3, PackFolderKeeps, SealArchiveKeeps, SendArchiveKeeps, CloseKeeps,
       SealEntryKeeps, SkipEntryKeeps
  <2>4. ASSUME NEW u \in Uploads, NEW ok \in BOOLEAN,
               \/ ProcessFails(u, ok) \/ CompressFile(u, ok) \/ AcceptFails(u, ok)
               \/ EncryptFile(u, ok) \/ SendFile(u, ok) \/ RecordFile(u, ok)
               \/ RecordArchive(u, ok)
               \/ IndexFolder(u, ok) \/ SendEntry(u, ok) \/ RecordEntry(u, ok)
        PROVE  ChainInv'
    BY <2>4, ProcessFailsKeeps, CompressFileKeeps, AcceptFailsKeeps,
    EncryptFileKeeps, SendFileKeeps, RecordFileKeeps, RecordArchiveKeeps,
       IndexFolderKeeps, SendEntryKeeps, RecordEntryKeeps
  <2> QED BY <2>1, <2>2, <2>3, <2>4 DEF Next
<1> QED BY <1>1, <1>2, PTL DEF Spec

(* Opening a sealed content and unpacking a compressed one. *)
LEMMA Opening ==
  ASSUME NEW c \in Content, NEW k, c.key = None
  PROVE  /\ Encrypted(c, k).key = k
         /\ [Encrypted(c, k) EXCEPT !.key = None] = c
BY DEF Encrypted, Content

LEMMA Unpacking ==
  ASSUME NEW c \in Content
  PROVE  Compressed(c) # None /\ Decompressed(Compressed(c)) = c
<1>1. Compressed(c) \in Content
  BY DEF Compressed, Content
<1>2. /\ Compressed(c).layers = c.layers + 1 /\ c.layers \in Nat
      /\ [Compressed(c) EXCEPT !.layers = c.layers] = c
  BY DEF Compressed, Content
<1>3. Compressed(c).layers > 0 /\ Compressed(c).layers - 1 = c.layers
  BY <1>2
<1> QED BY <1>1, <1>2, <1>3, NoneAssumption DEF Decompressed

(* What the node holds for an undisturbed row gives back what was sent.    *)
LEMMA RowReadsBack ==
  ASSUME ChainInv, NEW r \in rows, r.owner \notin disturbed
  PROVE  /\ ~Misnamed(r) => DownloadFile(r) = Sent(r)
         /\ ~PreviewRefused(r) => DownloadFile(r) = Sent(r)
         /\ ~WrongKey(r) => Fetch(r, FALSE) # None
         /\ ~WrongKey(r) /\ ~up[r.owner].compress => Fetch(r, FALSE) = Sent(r)
<1> DEFINE u == r.owner
           c == IF up[u].kind = "archive" THEN Archived(u) ELSE Payload(u, r.name)
<1>1. /\ u \in Uploads /\ r.name \in Names /\ RowOK(r) /\ KindOK(u)
      /\ up[u].kind \in Kinds /\ up[u].compress \in BOOLEAN
  BY DEF ChainInv, TypeOK, Rows, Requests
<1>2. r.object = Encrypted(c, <<u, r.name>>)
  BY <1>1 DEF RowOK, Expected
<1>3. c \in Content /\ c.key = None /\ Own(u, r.name) \in Content
  <2>1. up[u].files \subseteq Names
    BY <1>1 DEF ChainInv, TypeOK, Requests
  <2>2. Archived(u) \in Content /\ Archived(u).key = None
    BY <1>1, <2>1 DEF Archived, Content
  <2>3. /\ Payload(u, r.name) \in Content /\ Own(u, r.name) \in Content
        /\ Own(u, r.name).key = None
    BY <1>1, Contents DEF Payload, Own
  <2>4. Payload(u, r.name).key = None
    BY <2>3 DEF Payload, Compressed, Content
  <2> QED BY <2>2, <2>3, <2>4
<1>4. /\ r.object.key = <<u, r.name>>
      /\ [r.object EXCEPT !.key = None] = c
      /\ c # None
  BY <1>2, <1>3, Opening, NoneAssumption
<1>5. ~WrongKey(r) => determineKeyInfo(r) = SealInfo(r)
  <2>1. CASE up[u].kind = "archive"
    BY <1>1, <2>1, Looks DEF RowOK, determineKeyInfo, SealInfo
  <2>2. CASE up[u].kind = "indexed"
    BY <1>1, <2>2 DEF RowOK, determineKeyInfo, SealInfo
  <2>3. CASE up[u].kind = "file"
    BY <1>1, <2>3 DEF RowOK, determineKeyInfo, SealInfo, WrongKey
  <2> QED BY <1>1, <2>1, <2>2, <2>3 DEF Kinds
<1>6. ~WrongKey(r) => Decrypt(r) = c /\ Fetch(r, FALSE) = c
  BY <1>4, <1>5 DEF Decrypt, Fetch
<1>7. CASE up[u].compress
  <2>1. isCompressedFile(r)
    <3>1. up[u].kind \in {"file", "archive"}
      BY <1>1, <1>7 DEF KindOK, Kinds
    <3>2. /\ up[u].kind = "file" => r.filename = EncName(r.name, TRUE)
          /\ up[u].kind = "archive" => r.filename = Enc(Zst(Tar(r.name)))
      BY <1>1, <1>7 DEF RowOK, EncName
    <3> QED BY <1>1, <3>1, <3>2, Looks
  <2>2. Decompressed(c) = Sent(r)
    <3>1. CASE up[u].kind = "archive"
      <4>1. /\ Archived(u) \in Content /\ Archived(u).layers = 1
            /\ [Archived(u) EXCEPT !.layers = 0] = Sent(r)
        BY <1>3, <3>1 DEF Archived, Sent
      <4> QED BY <3>1, <4>1, NoneAssumption DEF Decompressed
    <3>2. CASE up[u].kind # "archive"
      BY <1>3, <1>7, <3>2, Unpacking DEF Payload, Sent
    <3> QED BY <3>1, <3>2
  <2>3. ~WrongKey(r) => DownloadFile(r) = Sent(r)
    <3> HIDE DEF c
    <3> QED BY <1>6, <2>1, <2>2 DEF DownloadFile, Fetch
  <2> QED BY <1>4, <1>6, <1>7, <2>1, <2>3 DEF Misnamed, PreviewRefused
<1>8. CASE ~up[u].compress
  <2>1. c = Sent(r)
    BY <1>1, <1>8 DEF KindOK, Payload, Sent
  <2>2. ~isCompressedFile(r) => ~WrongKey(r)
    BY DEF isCompressedFile, isArchiveFile, WrongKey
  <2>3. ~isCompressedFile(r) => DownloadFile(r) = Sent(r)
    <3> HIDE DEF c
    <3> QED BY <1>6, <2>1, <2>2 DEF DownloadFile, Fetch
  <2> QED BY <1>4, <1>6, <1>8, <2>1, <2>3 DEF Misnamed, PreviewRefused
<1> QED BY <1>1, <1>7, <1>8

(* A file or an archive that an undisturbed upload recorded, and whose name *)
(* does not mislead the download, downloads as it was sent.                 *)
THEOREM DownloadsAreIntact == Spec => []DownloadGivesSent
<1>1. ChainInv => DownloadGivesSent
  BY RowReadsBack DEF DownloadGivesSent
<1> QED BY <1>1, ChainAlways, PTL

(* What a preview shows of an undisturbed upload is what was sent.          *)
THEOREM PreviewsAreIntact == Spec => []PreviewGivesSent
<1>1. ChainInv => PreviewGivesSent
  BY RowReadsBack DEF PreviewGivesSent
<1> QED BY <1>1, ChainAlways, PTL

(* In a folder of undisturbed uploads without a single file that looks like *)
(* an archive, the zip has an uncompressed file with a path of its own as   *)
(* it was sent.                                                             *)
THEOREM ZipsAreIntact == Spec => []ZipGivesSent
<1>1. ASSUME ChainInv, NEW files \in SUBSET rows,
             \A r \in files : r.owner \notin disturbed /\ ~WrongKey(r),
             NEW r \in files, ~up[r.owner].compress,
             \A s \in files \ {r} : ZipPath(s) # ZipPath(r)
      PROVE  ZipEntry(files, ZipPath(r)) = {Sent(r)}
  <2>1. \A s \in files : Fetch(s, FALSE) # None
    BY <1>1, RowReadsBack
  <2>2. {s \in files : ZipPath(s) = ZipPath(r)} = {r}
    BY <1>1
  <2>3. Fetch(r, FALSE) = Sent(r)
    BY <1>1, RowReadsBack
  <2>4. {Fetch(s, FALSE) : s \in {r}} = {Sent(r)}
    BY <2>3
  <2> QED BY <2>1, <2>2, <2>4 DEF ZipEntry
<1>2. ChainInv => ZipGivesSent
  BY <1>1 DEF ZipGivesSent
<1> QED BY <1>2, ChainAlways, PTL

-----------------------------------------------------------------------------
(***************************************************************************)
(* The removal of the scratch files.                                       *)
(***************************************************************************)

(* A plain copy is v's to remove after its step, or was another upload's.  *)
StillPlain(v, n) ==
  Plain(n)' => RemovesPlain(v, n)' \/ (Plain(n) /\ ~RemovesPlain(v, n))

(* The same of any file that may not stay.                                 *)
StillRemoved(v, p, n) ==
  MayStay(p, n)' \/ Removes(v, p, n)' \/ (~MayStay(p, n) /\ ~Removes(v, p, n))

FailsLate(x) == x.reply = "failed" => x.pc = "done" \/ (x.pc = "closing" /\ x.kind = "file")

(* What a step of v must show for the removals to be ensured again. *)
LEMMA RemovalStep ==
  ASSUME ChainInv, RemovalInv, NEW v \in Uploads, NEW x, up' = [up EXCEPT ![v] = x],
         FailsLate(x), Failed(v) => x.reply = "failed",
         CopiesGrow', \A n \in Paths : StillPlain(v, n),
         x.reply = "failed" \/ \A p \in Places, n \in Paths : StillRemoved(v, p, n),
         x.reply = "failed" \/ (made' => \/ x.pc \notin {"idle", "done"} /\ x.kind # "file"
                                         \/ made /\ ~(Running(v) /\ up[v].kind # "file"))
  PROVE  RemovalInv'
<1>1. up'[v] = x /\ \A u \in Uploads \ {v} : up'[u] = up[u]
  BY DEF ChainInv, TypeOK
<1>2. \A u \in Uploads \ {v} : /\ \A p, n : Removes(u, p, n)' <=> Removes(u, p, n)
                               /\ \A n : RemovesPlain(u, n)' <=> RemovesPlain(u, n)
  BY <1>1 DEF Removes, RemovesPlain, Running, EncPath
<1>3. \A u \in Uploads : Failed(u) => Failed(u)'
  BY <1>1 DEF Failed
<1>4. \A u \in Uploads :
        Failed(u)' => up'[u].pc = "done" \/ (up'[u].pc = "closing" /\ up'[u].kind = "file")
  BY <1>1 DEF RemovalInv, Failed, FailsLate
<1>5. ASSUME NEW n \in Paths, Plain(n)'
      PROVE  \E u \in Uploads : RemovesPlain(u, n)'
  <2>1. CASE RemovesPlain(v, n)'
    BY <2>1
  <2>2. CASE Plain(n) /\ ~RemovesPlain(v, n)
    BY <1>2, <2>2 DEF RemovalInv
  <2> QED BY <1>5, <2>1, <2>2 DEF StillPlain
<1>6. ASSUME \A u \in Uploads : ~Failed(u)'
      PROVE  /\ \A p \in Places, n \in Paths :
                  MayStay(p, n)' \/ \E u \in Uploads : Removes(u, p, n)'
             /\ made' => \E u \in Uploads : Running(u)' /\ up'[u].kind # "file"
  <2>1. x.reply # "failed" /\ \A u \in Uploads : ~Failed(u)
    BY <1>1, <1>3, <1>6 DEF Failed
  <2>2. ASSUME NEW p \in Places, NEW n \in Paths, ~MayStay(p, n)'
        PROVE  \E u \in Uploads : Removes(u, p, n)'
    <3>1. CASE Removes(v, p, n)'
      BY <3>1
    <3>2. CASE ~MayStay(p, n) /\ ~Removes(v, p, n)
      BY <1>2, <2>1, <3>2 DEF RemovalInv
    <3> QED BY <2>1, <2>2, <3>1, <3>2 DEF StillRemoved
  <2>3. ASSUME made'
        PROVE  \E u \in Uploads : Running(u)' /\ up'[u].kind # "file"
    <3>1. CASE x.pc \notin {"idle", "done"} /\ x.kind # "file"
      BY <1>1, <3>1 DEF Running
    <3>2. CASE made /\ ~(Running(v) /\ up[v].kind # "file")
      <4>1. PICK u \in Uploads : Running(u) /\ up[u].kind # "file"
        BY <2>1, <3>2 DEF RemovalInv
      <4>2. u # v
        BY <3>2, <4>1
      <4> QED BY <1>1, <4>1, <4>2 DEF Running
    <3> QED BY <2>1, <2>3, <3>1, <3>2
  <2> QED BY <2>2, <2>3
<1> QED BY <1>4, <1>5, <1>6 DEF RemovalInv

(* A file that is as it was may stay as before, and is plain as before. *)
LEMMA Same ==
  ASSUME NEW n \in Paths
  PROVE  /\ \A p \in Places : disk'[p][n] = disk[p][n] => (MayStay(p, n)' <=> MayStay(p, n))
         /\ disk'["temp"][n] = disk["temp"][n] => (Plain(n)' <=> Plain(n))
BY DEF MayStay, Plain

(* Files of /tmp/uploads are removed, or written with what is not plain.   *)
LEMMA Growing ==
  ASSUME CopiesGrow,
         \A m \in Paths : \/ disk'["temp"][m] \in {disk["temp"][m], None}
                          \/ \A piece \in disk'["temp"][m].data : Len(piece[2]) <= Len(m)
  PROVE  CopiesGrow'
BY DEF CopiesGrow

(* The pieces of a copy have names of this many parts at most. *)
LEMMA Pieces ==
  ASSUME ChainInv, CopiesGrow, NEW n \in Names, NEW c \in BOOLEAN
  PROVE  LET src == IF c THEN Zst(n) ELSE n
         IN  /\ \A m \in {n, Zst(n)} : disk["temp"][m] # None =>
                  \A piece \in disk["temp"][m].data : Len(piece[2]) \in Nat /\ Len(piece[2]) <= Len(m)
             /\ src \in {n, Zst(n)} /\ Len(src) \in Nat /\ Len(EncName(n, c)) = Len(src) + 1
             /\ Len(n) \in Nat /\ Len(Zst(n)) = Len(n) + 1 /\ EncName(n, c) # n
<1>1. /\ n \in Seq(Parts) /\ Zst(n) \in Seq(Parts) /\ Len(n) \in Nat
      /\ Len(Zst(n)) = Len(n) + 1 /\ Len(EncName(n, c)) > Len(n)
  BY Lengths
<1>2. Len(EncName(n, c)) = Len(IF c THEN Zst(n) ELSE n) + 1
  <2>1. Len(Enc(n)) = Len(n) + 1 /\ Len(Enc(Zst(n))) = Len(Zst(n)) + 1
    BY <1>1, NextPart
  <2> QED BY <2>1 DEF EncName
<1>3. ASSUME NEW m \in {n, Zst(n)}, disk["temp"][m] # None, NEW piece \in disk["temp"][m].data
      PROVE  Len(piece[2]) \in Nat /\ Len(piece[2]) <= Len(m)
  <2>1. m \in Paths /\ "temp" \in Places
    BY Naming DEF Places
  <2>2. disk["temp"][m] \in Content
    BY <1>3, <2>1 DEF ChainInv, TypeOK
  <2>3. piece \in Uploads \X Names
    BY <2>2 DEF Content
  <2>4. piece[2] \in Names
    BY <2>3
  <2> QED BY <1>3, <2>1, <2>4, Lengths DEF CopiesGrow
<1>4. EncName(n, c) # n
  BY <1>1
<1> QED BY <1>1, <1>2, <1>3, <1>4

(* An upload fails: no plain copy of it is left. *)
LEMMA RemovalFails ==
  ASSUME ChainInv, RemovalInv, NEW v \in Uploads, Running(v), Fail(v), CopiesGrow',
         \A n \in Paths : Plain(n)' => Plain(n) /\ ~RemovesPlain(v, n)
  PROVE  RemovalInv'
<1> DEFINE x == [up[v] EXCEPT !.pc = "done", !.reply = "failed"]
<1>1. up' = [up EXCEPT ![v] = x] /\ x.pc = "done" /\ x.reply = "failed"
  BY Here DEF Fail, Requests
<1>2. \A n \in Paths : StillPlain(v, n)
  BY DEF StillPlain
<1> HIDE DEF x
<1> QED BY <1>1, <1>2, RemovalStep DEF FailsLate

(* A step of a folder upload leaves /tmp/uploads as it is. *)
LEMMA FolderStep ==
  ASSUME ChainInv, RemovalInv, NEW v \in Uploads, NEW x, up' = [up EXCEPT ![v] = x],
         x.kind # "file", up[v].kind # "file" \/ ~Running(v),
         FailsLate(x), Failed(v) => x.reply = "failed",
         \A n \in Paths : disk'["temp"][n] = disk["temp"][n],
         x.reply = "failed" \/ \A p \in Places \ {"temp"}, n \in Paths : StillRemoved(v, p, n),
         x.reply = "failed" \/ (made' => \/ x.pc \notin {"idle", "done"} /\ x.kind # "file"
                                         \/ made /\ ~(Running(v) /\ up[v].kind # "file"))
  PROVE  RemovalInv'
<1>1. CopiesGrow'
  BY Growing DEF RemovalInv
<1>2. \A n \in Paths : StillPlain(v, n)
  BY Same DEF StillPlain, RemovesPlain
<1>3. \A n \in Paths : StillRemoved(v, "temp", n)
  BY Same DEF StillRemoved, Removes, Places
<1>4. x.reply = "failed" \/ \A p \in Places, n \in Paths : StillRemoved(v, p, n)
  BY <1>3
<1> QED BY <1>1, <1>2, <1>4, RemovalStep

(* An upload goes on and leaves the disk as it is. *)
LEMMA RemovalGoesOn ==
  ASSUME ChainInv, RemovalInv, NEW v \in Uploads, Running(v), up[v].pc # "entry",
         NEW x, up' = [up EXCEPT ![v] = x], UNCHANGED <<disk, made>>,
         x.pc \notin {"idle", "done"}, x.kind = up[v].kind, x.name = up[v].name,
         x.compress = up[v].compress, FailsLate(x), Failed(v) => x.reply = "failed"
  PROVE  RemovalInv'
<1>1. up'[v] = x
  BY DEF ChainInv, TypeOK
<1>2. /\ \A p, n : Removes(v, p, n) => Removes(v, p, n)'
      /\ \A n : RemovesPlain(v, n) => RemovesPlain(v, n)'
  BY <1>1 DEF Removes, RemovesPlain, Running, EncPath
<1>3. /\ \A p \in Places, n \in Paths : StillRemoved(v, p, n)
      /\ \A n \in Paths : StillPlain(v, n)
  BY <1>2, Same DEF StillRemoved, StillPlain
<1>4. CopiesGrow'
  BY Growing DEF RemovalInv
<1>5. \/ x.pc \notin {"idle", "done"} /\ x.kind # "file"
      \/ ~(Running(v) /\ up[v].kind # "file")
  OBVIOUS
<1> QED BY <1>3, <1>4, <1>5, RemovalStep

LEMMA ReceiveFileRemoves ==
  ASSUME ChainInv, RemovalInv, NEW u \in Uploads, ReceiveFile(u)
  PROVE  RemovalInv'
<1>1. PICK n \in Names, c \in BOOLEAN :
        /\ up' = [up EXCEPT ![u] = [Start EXCEPT !.pc = "received", !.name = n, !.compress = c]]
        /\ disk' = [disk EXCEPT !["temp"][n] = Own(u, n)]
  BY DEF ReceiveFile
<1> DEFINE x == [Start EXCEPT !.pc = "received", !.name = n, !.compress = c]
<1>2. /\ x.pc = "received" /\ x.kind = "file" /\ x.name = n /\ x.reply = None
      /\ up[u].pc = "idle" /\ made' = made
  BY DEF ReceiveFile, Start
<1>3. x.reply # "failed" /\ ~Failed(u) /\ ~Running(u)
  BY <1>2, NoneAssumption DEF RemovalInv, Running
<1>4. up'[u] = x
  BY <1>1 DEF ChainInv, TypeOK
<1>5. /\ disk'["temp"][n] = Own(u, n) /\ n \in Paths
      /\ \A p \in Places, m \in Paths : disk'[p][m] = disk[p][m] \/ (p = "temp" /\ m = n)
  <2>1. Own(u, n) \in Content \cup {None} /\ "temp" \in Places /\ n \in Paths
    BY Contents, Naming DEF Places
  <2> QED BY <1>1, <2>1, Here, Write
<1>6. CopiesGrow'
  <2>1. \A piece \in disk'["temp"][n].data : Len(piece[2]) <= Len(n)
    BY <1>5, Lengths DEF Own
  <2> QED BY <1>5, <2>1, Growing DEF RemovalInv, Places
<1> HIDE DEF x
<1>7. Removes(u, "temp", n)' /\ RemovesPlain(u, n)'
  BY <1>2, <1>4 DEF Removes, RemovesPlain, Running
<1>8. \A p \in Places, m \in Paths : StillRemoved(u, p, m)
  BY <1>3, <1>5, <1>7, Same DEF StillRemoved, Removes
<1>9. \A m \in Paths : StillPlain(u, m)
  BY <1>3, <1>5, <1>7, Same DEF StillPlain, RemovesPlain, Places
<1>10. FailsLate(x) /\ (made' => made /\ ~(Running(u) /\ up[u].kind # "file"))
  BY <1>2, <1>3 DEF FailsLate
<1>11. up' = [up EXCEPT ![u] = x]
  BY <1>1 DEF x
<1> QED BY <1>3, <1>6, <1>8, <1>9, <1>10, <1>11, RemovalStep

LEMMA CompressFileRemoves ==
  ASSUME ChainInv, RemovalInv, NEW u \in Uploads, NEW ok \in BOOLEAN, CompressFile(u, ok)
  PROVE  RemovalInv'
<1> DEFINE x == [up[u] EXCEPT !.pc = "compressed"]
           n == up[u].name
           c == IF ok THEN Compressed(disk["temp"][n]) ELSE Partial
<1>1. /\ up[u] \in Requests /\ up[u].pc = "received" /\ up[u].kind = "file" /\ Running(u)
      /\ up' = [up EXCEPT ![u] = x] /\ made' = made /\ disk["temp"][n] # None
      /\ disk' = [disk EXCEPT !["temp"][Zst(n)] = c]
  BY Here DEF CompressFile, Move, Running
<1>2. /\ x.pc = "compressed" /\ x.kind = "file" /\ x.name = n
      /\ x.compress = up[u].compress /\ x.reply = up[u].reply
  BY <1>1 DEF Requests
<1>3. ~Failed(u) /\ up'[u] = x
  BY <1>1 DEF RemovalInv, ChainInv, TypeOK
<1>4. n \in Names /\ n \in Paths /\ Zst(n) \in Paths /\ "temp" \in Places
  BY <1>1, Here, Naming DEF Places
<1>5. c \in Content
  BY <1>1, <1>4, Here, Contents
<1>6. \A piece \in c.data : Len(piece[2]) < Len(Zst(n))
  <2>1. c.data = IF ok THEN disk["temp"][n].data ELSE {}
    <3>1. disk["temp"][n] \in Content
      BY <1>1, <1>4, Here
    <3> QED BY <3>1 DEF Compressed, Content, Partial
  <2>2. \A piece \in disk["temp"][n].data : Len(piece[2]) \in Nat /\ Len(piece[2]) <= Len(n)
    BY <1>1, <1>4, Pieces DEF RemovalInv
  <2>3. Len(n) \in Nat /\ Len(Zst(n)) = Len(n) + 1
    BY <1>4, Pieces DEF RemovalInv
  <2> QED BY <2>1, <2>2, <2>3
<1> HIDE DEF c
<1>7. /\ disk'["temp"][Zst(n)] = c
      /\ \A p \in Places, m \in Paths : disk'[p][m] = disk[p][m] \/ (p = "temp" /\ m = Zst(n))
  BY <1>1, <1>4, <1>5, Here, Write
<1>8. Len(Zst(n)) \in Nat /\ \A m \in Names : Len(m) \in Nat
  BY <1>4, Lengths
<1>14. PICK z \in Paths : z = Zst(n) /\ \E m \in Names : z = Zst(m)
  BY <1>4
<1>15. /\ disk'["temp"][z] = c
       /\ \A p \in Places, m \in Paths : disk'[p][m] = disk[p][m] \/ (p = "temp" /\ m = z)
  BY <1>7, <1>14
<1>9. CopiesGrow'
  <2>1. \A piece \in c.data : Len(piece[2]) <= Len(Zst(n))
    <3> SUFFICES ASSUME NEW piece \in c.data PROVE Len(piece[2]) <= Len(Zst(n))
      OBVIOUS
    <3>1. piece[2] \in Names
      BY <1>5 DEF Content
    <3> QED BY <1>6, <1>8, <3>1
  <2> QED BY <1>4, <1>7, <2>1, Growing DEF RemovalInv
<1>10. ~Plain(z)'
  <2> SUFFICES ASSUME NEW w \in Uploads, <<w, z>> \in c.data PROVE FALSE
    BY <1>15 DEF Plain
  <2>1. Len(<<w, z>>[2]) < Len(z)
    BY <1>6, <1>14
  <2> QED BY <1>8, <1>14, <2>1
<1> HIDE DEF x
<1>11. /\ \A p, m : Removes(u, p, m) => Removes(u, p, m)'
       /\ \A m : RemovesPlain(u, m) => RemovesPlain(u, m)'
  BY <1>1, <1>2, <1>3 DEF Removes, RemovesPlain, Running, EncPath
<1>12. \A p \in Places, m \in Paths : StillRemoved(u, p, m)
  <2>1. MayStay("temp", z)'
    BY <1>14 DEF MayStay
  <2> QED BY <1>11, <1>15, <2>1, Same DEF StillRemoved
<1>13. \A m \in Paths : StillPlain(u, m)
  BY <1>4, <1>10, <1>11, <1>15, Same DEF StillPlain
<1> QED BY <1>1, <1>2, <1>3, <1>9, <1>12, <1>13, RemovalStep DEF FailsLate, Failed

LEMMA EncryptFileRemoves ==
  ASSUME ChainInv, RemovalInv, NEW u \in Uploads, NEW ok \in BOOLEAN, EncryptFile(u, ok)
  PROVE  RemovalInv'
<1> DEFINE n == up[u].name
           s == IF up[u].compress THEN Zst(n) ELSE n
           p == EncPath(u)
           c == Encrypted(disk["temp"][s], <<u, n>>)
           x == [up[u] EXCEPT !.pc = "encrypted"]
<1>1. /\ up[u] \in Requests /\ up[u].pc \in {"received", "compressed"} /\ up[u].kind = "file"
      /\ Running(u) /\ made' = made /\ disk["temp"][s] # None
  BY Here DEF EncryptFile, Running
<1>2. /\ n \in Names /\ n \in Paths /\ s \in Paths /\ p \in Paths /\ "temp" \in Places
      /\ up[u].compress \in BOOLEAN /\ p = EncName(n, up[u].compress)
  BY <1>1, Here, Naming DEF Places, Requests, EncPath
<1>3. disk["temp"][s] \in Content /\ c \in Content /\ c.data = disk["temp"][s].data
  <2>1. disk["temp"][s] \in Content
    BY <1>1, <1>2, Here
  <2> QED BY <1>2, <2>1, Contents DEF Encrypted, Content
<1>4. /\ \A piece \in c.data : Len(piece[2]) \in Nat /\ Len(piece[2]) < Len(p)
      /\ Len(p) \in Nat /\ p # n
  <2>1. /\ s \in {n, Zst(n)} /\ Len(s) \in Nat /\ Len(p) = Len(s) + 1 /\ p # n
        /\ \A piece \in disk["temp"][s].data : Len(piece[2]) \in Nat /\ Len(piece[2]) <= Len(s)
    BY <1>1, <1>2, Pieces DEF RemovalInv
  <2> HIDE DEF s, p, c
  <2> QED BY <1>3, <2>1
<1> HIDE DEF c, p, s
<1>5. \A d \in [Paths -> Content \cup {None}] : d[p] = c => ~\E w \in Uploads : <<w, p>> \in d[p].data
  <2> SUFFICES ASSUME NEW w \in Uploads, <<w, p>> \in c.data PROVE FALSE
    OBVIOUS
  <2>1. Len(<<w, p>>[2]) < Len(p)
    BY <1>4
  <2> QED BY <1>4, <2>1
<1>6. \A piece \in c.data : Len(piece[2]) <= Len(p)
  BY <1>4
<1>7. CASE ~ok
  <2>1. /\ disk' = [[disk EXCEPT !["temp"][p] = c] EXCEPT !["temp"][n] = None]
        /\ Fail(u)
    BY <1>7 DEF EncryptFile, c, p, s
  <2>2. /\ disk' \in [Places -> [Paths -> Content \cup {None}]]
        /\ \A m \in Paths :
             disk'["temp"][m] = IF m = n THEN None ELSE IF m = p THEN c ELSE disk["temp"][m]
    <3>1. disk \in [Places -> [Paths -> Content \cup {None}]] /\ c \in Content \cup {None}
      BY <1>3, Here
    <3> QED BY <1>2, <2>1, <3>1, WriteTwo
  <2>3. CopiesGrow'
    BY <1>2, <1>6, <2>2, Growing DEF RemovalInv
  <2>4. \A m \in Paths : Plain(m)' => Plain(m) /\ ~RemovesPlain(u, m)
    <3> SUFFICES ASSUME NEW m \in Paths, Plain(m)' PROVE Plain(m) /\ ~RemovesPlain(u, m)
      OBVIOUS
    <3>1. m # n
      BY <1>2, <2>2 DEF Plain
    <3>2. m # p
      BY <1>2, <1>4, <1>5, <2>2 DEF Plain
    <3> QED BY <2>2, <3>1, <3>2, Same DEF RemovesPlain
  <2> QED BY <1>1, <2>1, <2>3, <2>4, RemovalFails
<1>8. CASE ok
  <2>1. disk' = [disk EXCEPT !["temp"][p] = c] /\ up' = [up EXCEPT ![u] = x]
    BY <1>8 DEF EncryptFile, Move, c, p, s
  <2>2. /\ x.pc = "encrypted" /\ x.kind = "file" /\ x.name = n
        /\ x.compress = up[u].compress /\ x.reply = up[u].reply
    BY <1>1 DEF Requests
  <2>3. ~Failed(u) /\ up'[u] = x
    BY <1>1, <2>1 DEF RemovalInv, ChainInv, TypeOK
  <2>4. /\ disk' \in [Places -> [Paths -> Content \cup {None}]] /\ disk'["temp"][p] = c
        /\ \A q \in Places, m \in Paths : disk'[q][m] = disk[q][m] \/ (q = "temp" /\ m = p)
    BY <1>2, <1>3, <2>1, Here, Write
  <2> HIDE DEF x
  <2>5. CopiesGrow'
    BY <1>2, <1>6, <2>4, Growing DEF RemovalInv
  <2>10. PICK z \in Paths : z = p
    BY <1>2
  <2>6. /\ \A q, m : Removes(u, q, m) => Removes(u, q, m)'
        /\ \A m : RemovesPlain(u, m) => RemovesPlain(u, m)'
        /\ Removes(u, "temp", z)'
    BY <1>1, <2>2, <2>3, <2>10 DEF Removes, RemovesPlain, Running, EncPath, p
  <2>7. \A q \in Places, m \in Paths : StillRemoved(u, q, m)
    BY <2>4, <2>6, <2>10, Same DEF StillRemoved
  <2>8. ~Plain(z)'
    BY <1>2, <1>5, <2>4, <2>10 DEF Plain
  <2>9. \A m \in Paths : StillPlain(u, m)
    BY <1>2, <2>4, <2>6, <2>8, <2>10, Same DEF StillPlain
  <2> QED BY <1>1, <2>1, <2>2, <2>3, <2>5, <2>7, <2>9, RemovalStep DEF FailsLate, Failed
<1> QED BY <1>7, <1>8

LEMMA CloseFileRemoves ==
  ASSUME ChainInv, RemovalInv, NEW u \in Uploads, CloseFile(u)
  PROVE  RemovalInv'
<1> DEFINE n == up[u].name
           x == [up[u] EXCEPT !.pc = "done"]
<1>1. /\ up[u] \in Requests /\ up[u].pc = "closing" /\ up[u].kind = "file" /\ made' = made
      /\ Running(u) /\ up' = [up EXCEPT ![u] = x]
      /\ disk' = [[disk EXCEPT !["temp"][n] = None] EXCEPT !["temp"][EncPath(u)] = None]
  BY Here DEF CloseFile, Move, Running
<1>2. x.pc = "done" /\ x.reply = up[u].reply
  BY <1>1 DEF Requests
<1>3. "temp" \in Places /\ n \in Paths /\ EncPath(u) \in Paths
  BY <1>1, Here, Naming DEF Places
<1>4. /\ \A m \in Paths :
           disk'["temp"][m] = IF m \in {n, EncPath(u)} THEN None ELSE disk["temp"][m]
      /\ \A p \in Places \ {"temp"}, m \in Paths : disk'[p][m] = disk[p][m]
  <2> DEFINE e == EncPath(u)
  <2> HIDE DEF e, n
  <2>1. /\ \A m \in Paths :
             disk'["temp"][m] = IF m = e THEN None ELSE IF m = n THEN None ELSE disk["temp"][m]
        /\ \A p \in Places \ {"temp"}, m \in Paths : disk'[p][m] = disk[p][m]
    BY <1>1, <1>3, Here, WriteTwo DEF e
  <2> QED BY <2>1 DEF e
<1>5. CopiesGrow'
  BY <1>4, Growing DEF RemovalInv
<1> HIDE DEF x
<1>6. \A p \in Places, m \in Paths : StillRemoved(u, p, m)
  <2> SUFFICES ASSUME NEW p \in Places, NEW m \in Paths, ~MayStay(p, m)'
               PROVE  ~MayStay(p, m) /\ ~Removes(u, p, m)
    BY DEF StillRemoved
  <2>1. disk'[p][m] = disk[p][m] /\ (p = "temp" => m \notin {n, EncPath(u)})
    BY <1>4 DEF MayStay
  <2> QED BY <1>1, <2>1, Same DEF Removes
<1>7. \A m \in Paths : StillPlain(u, m)
  <2> SUFFICES ASSUME NEW m \in Paths, Plain(m)'
               PROVE  Plain(m) /\ ~RemovesPlain(u, m)
    BY DEF StillPlain
  <2>1. disk'["temp"][m] = disk["temp"][m] /\ m # n
    BY <1>4 DEF Plain
  <2> QED BY <2>1, Same DEF RemovesPlain
<1> QED BY <1>1, <1>2, <1>5, <1>6, <1>7, RemovalStep DEF FailsLate, Failed

LEMMA ProcessFailsRemoves ==
  ASSUME ChainInv, RemovalInv, NEW u \in Uploads, NEW ok \in BOOLEAN, ProcessFails(u, ok)
  PROVE  RemovalInv'
<1> DEFINE n == up[u].name
           t == Target(u)
<1>1. /\ Running(u) /\ Fail(u) /\ disk \in [Places -> [Paths -> Content \cup {None}]]
      /\ n \in Paths /\ t \in Paths /\ "temp" \in Places /\ Partial \in Content \cup {None}
  BY Here, Naming, Contents DEF ProcessFails, Running, Target, Places
<1>2. \A m \in Paths : \/ m = n /\ disk'["temp"][m] = None
                       \/ m # n /\ disk'["temp"][m] = disk["temp"][m]
                       \/ m # n /\ disk'["temp"][m] = Partial
  <2>1. CASE ok
    <3>1. disk' = [[disk EXCEPT !["temp"][t] = Partial] EXCEPT !["temp"][n] = None]
      BY <2>1 DEF ProcessFails
    <3> HIDE DEF t, n
    <3> QED BY <1>1, <3>1, WriteTwo
  <2>2. CASE ~ok
    <3>1. disk' = [disk EXCEPT !["temp"][n] = None]
      BY <2>2 DEF ProcessFails
    <3> QED BY <1>1, <3>1
  <2> QED BY <2>1, <2>2
<1>3. Partial.data = {}
  BY DEF Partial
<1>4. CopiesGrow'
  BY <1>2, <1>3, Growing DEF RemovalInv
<1>5. \A m \in Paths : Plain(m)' => Plain(m) /\ ~RemovesPlain(u, m)
  BY <1>2, <1>3, Same DEF Plain, RemovesPlain
<1> QED BY <1>1, <1>4, <1>5, RemovalFails

LEMMA BeginFolderRemoves ==
  ASSUME ChainInv, RemovalInv, NEW u \in Uploads, BeginFolder(u)
  PROVE  RemovalInv'
<1>1. PICK x : /\ up' = [up EXCEPT ![u] = x] /\ x.pc = "receiving" /\ x.kind # "file"
               /\ x.reply = None
  <2>1. PICK n \in Folders, k \in Kinds \ {"file"}, fs \in SUBSET Names :
          /\ up' = [up EXCEPT ![u] = [Start EXCEPT !.pc = "receiving", !.kind = k, !.name = n,
                                                   !.compress = (k = "archive"),
                                                   !.files = fs, !.todo = fs]]
          /\ NoteClashes(u, k, n, k = "archive")
    BY DEF BeginFolder
  <2> DEFINE y == [Start EXCEPT !.pc = "receiving", !.kind = k, !.name = n,
                                !.compress = (k = "archive"), !.files = fs, !.todo = fs]
  <2>2. y.pc = "receiving" /\ y.kind # "file" /\ y.reply = None
    BY DEF Start
  <2> QED BY <2>1, <2>2
<1>2. up[u].pc = "idle" /\ UNCHANGED disk
  BY DEF BeginFolder
<1>3. x.reply # "failed" /\ ~Failed(u) /\ ~Running(u)
  BY <1>1, <1>2, NoneAssumption DEF RemovalInv, Running
<1>4. \A p \in Places \ {"temp"}, m \in Paths : StillRemoved(u, p, m)
  BY <1>2, <1>3, Same DEF StillRemoved, Removes
<1> QED BY <1>1, <1>2, <1>3, <1>4, FolderStep DEF FailsLate

LEMMA ReceivePartRemoves ==
  ASSUME ChainInv, RemovalInv, NEW u \in Uploads, ReceivePart(u)
  PROVE  RemovalInv'
<1>1. PICK n \in Names : /\ disk' = [disk EXCEPT !["tree"][n] = Own(u, n)]
                         /\ up' = [up EXCEPT ![u] = [up[u] EXCEPT !.todo = @ \ {n}]]
  <2>1. up[u] \in Requests
    BY Here
  <2> QED BY <2>1 DEF ReceivePart, Requests
<1> DEFINE x == [up[u] EXCEPT !.todo = @ \ {n}]
<1>2. /\ up[u] \in Requests /\ KindOK(u) /\ up[u].pc = "receiving" /\ up[u].kind # "file"
  BY Here DEF ReceivePart, KindOK
<1>3. x.pc = "receiving" /\ x.kind = up[u].kind /\ x.name = up[u].name /\ x.reply = up[u].reply
  BY <1>2 DEF Requests
<1>4. ~Failed(u) /\ up'[u] = x
  BY <1>1, <1>2 DEF RemovalInv, ChainInv, TypeOK
<1>5. \A p \in Places \ {"tree"} : disk'[p] = disk[p]
  BY <1>1, Here
<1>6. up' = [up EXCEPT ![u] = x]
  BY <1>1
<1> HIDE DEF x
<1>7. (\A m : Removes(u, "tree", m)') /\ \A p, m : Removes(u, p, m) => Removes(u, p, m)'
  BY <1>2, <1>3, <1>4 DEF Removes, Running
<1>8. \A p \in Places, m \in Paths : StillRemoved(u, p, m)
  BY <1>5, <1>7, Same DEF StillRemoved
<1>9. FailsLate(x) /\ x.pc \notin {"idle", "done"} /\ x.kind # "file"
  BY <1>2, <1>3, <1>4 DEF FailsLate, Failed
<1>10. \A m \in Paths : disk'["temp"][m] = disk["temp"][m]
  BY <1>5 DEF Places
<1> QED BY <1>2, <1>4, <1>6, <1>8, <1>9, <1>10, FolderStep

(* A folder upload that goes on leaves what it had or what it will remove,  *)
(* and what may stay.                                                       *)
LEMMA FolderGoesOn ==
  ASSUME ChainInv, RemovalInv, NEW v \in Uploads, Running(v), UNCHANGED made, ~Failed(v),
         NEW x, up' = [up EXCEPT ![v] = x], x.pc \notin {"idle", "done"},
         up[v].kind # "file", x.kind = up[v].kind, x.reply = up[v].reply,
         \A m \in Paths : disk'["temp"][m] = disk["temp"][m],
         \A p \in Places \ {"temp"}, m \in Paths :
           \/ Removes(v, p, m)' \/ MayStay(p, m)'
           \/ disk'[p][m] = disk[p][m] /\ (Removes(v, p, m) => Removes(v, p, m)')
  PROVE  RemovalInv'
<1>1. \A p \in Places \ {"temp"}, m \in Paths : StillRemoved(v, p, m)
  BY Same DEF StillRemoved
<1>2. FailsLate(x)
  BY DEF FailsLate, Failed
<1>3. x.pc \notin {"idle", "done"} /\ x.kind # "file"
  OBVIOUS
<1> QED BY <1>1, <1>2, <1>3, FolderStep DEF Failed

(* A folder upload fails, whatever it leaves in its own places. *)
LEMMA FolderFailureRemoves ==
  ASSUME ChainInv, RemovalInv, NEW u \in Uploads, up[u].kind # "file", Running(u),
         Fail(u), \A n \in Paths : disk'["temp"][n] = disk["temp"][n]
  PROVE  RemovalInv'
<1>1. CopiesGrow'
  BY Growing DEF RemovalInv
<1>2. \A n \in Paths : Plain(n)' => Plain(n) /\ ~RemovesPlain(u, n)
  BY Same DEF RemovesPlain
<1> QED BY <1>1, <1>2, RemovalFails

LEMMA PackFolderRemoves ==
  ASSUME ChainInv, RemovalInv, NEW u \in Uploads, PackFolder(u)
  PROVE  RemovalInv'
<1> DEFINE n == up[u].name
           c == Packed(disk["tree"])
           x == [up[u] EXCEPT !.pc = "packed"]
<1>1. /\ up[u] \in Requests /\ KindOK(u) /\ Running(u) /\ up[u].kind = "archive" /\ n \in Names
      /\ up[u].pc = "accepted" /\ made' = made /\ disk' = [disk EXCEPT !["archive"][n] = c]
  BY Here DEF PackFolder, Running, KindOK
<1>2. ~Failed(u)
  BY <1>1 DEF RemovalInv
<1>3. \A p \in Places, m \in Paths : disk'[p][m] = disk[p][m] \/ (p = "archive" /\ m = n)
  <2> HIDE DEF c
  <2> QED BY <1>1, Here
<1>4. \A m \in Paths : disk'["temp"][m] = disk["temp"][m]
  BY <1>3 DEF Places
<1>5. CASE ~made
  BY <1>1, <1>4, <1>5, FolderFailureRemoves DEF PackFolder
<1>6. CASE made
  <2>1. up' = [up EXCEPT ![u] = x]
    BY <1>6 DEF PackFolder, Move
  <2>2. x.pc = "packed" /\ x.kind = "archive" /\ x.name = n /\ x.reply = up[u].reply
    BY <1>1 DEF Requests
  <2>3. up'[u] = x
    BY <2>1 DEF ChainInv, TypeOK
  <2> HIDE DEF x, c
  <2>4. (\A m : m = n => Removes(u, "archive", m)') /\ \A p, m : Removes(u, p, m) => Removes(u, p, m)'
    BY <1>1, <2>2, <2>3 DEF Removes, Running
  <2>5. \A p \in Places \ {"temp"}, m \in Paths :
          Removes(u, p, m)' \/ (disk'[p][m] = disk[p][m] /\ (Removes(u, p, m) => Removes(u, p, m)'))
    BY <1>3, <2>4
  <2>6. x.pc \notin {"idle", "done"} /\ x.kind = up[u].kind /\ up[u].kind # "file"
    BY <1>1, <2>2
  <2> QED BY <1>1, <1>2, <1>4, <2>1, <2>2, <2>5, <2>6, FolderGoesOn
<1> QED BY <1>5, <1>6

LEMMA SealArchiveRemoves ==
  ASSUME ChainInv, RemovalInv, NEW u \in Uploads, SealArchive(u)
  PROVE  RemovalInv'
<1> DEFINE n == up[u].name
           c == Encrypted(disk["archive"][n], <<u, n>>)
           x == [up[u] EXCEPT !.pc = "sealed"]
<1>1. /\ up[u] \in Requests /\ KindOK(u) /\ Running(u) /\ up[u].kind = "archive" /\ n \in Names
      /\ up[u].pc = "packed" /\ made' = made /\ disk' = [disk EXCEPT !["sealed"][n] = c]
      /\ up' = [up EXCEPT ![u] = x]
  BY Here DEF SealArchive, Running, KindOK, Move
<1>2. ~Failed(u)
  BY <1>1 DEF RemovalInv
<1>3. \A p \in Places, m \in Paths : disk'[p][m] = disk[p][m] \/ (p = "sealed" /\ m = n)
  <2> HIDE DEF c
  <2> QED BY <1>1, Here
<1>4. x.pc = "sealed" /\ x.kind = "archive" /\ x.name = n /\ x.reply = up[u].reply
  BY <1>1 DEF Requests
<1>5. up'[u] = x
  BY <1>1 DEF ChainInv, TypeOK
<1> HIDE DEF x, c
<1>6. (\A m : m = n => Removes(u, "sealed", m)') /\ \A p, m : Removes(u, p, m) => Removes(u, p, m)'
  BY <1>1, <1>4, <1>5 DEF Removes, Running
<1>7. \A m \in Paths : disk'["temp"][m] = disk["temp"][m]
  BY <1>3 DEF Places
<1>8. \A p \in Places \ {"temp"}, m \in Paths :
        Removes(u, p, m)' \/ (disk'[p][m] = disk[p][m] /\ (Removes(u, p, m) => Removes(u, p, m)'))
  BY <1>3, <1>6
<1>9. x.pc \notin {"idle", "done"} /\ x.kind = up[u].kind /\ up[u].kind # "file"
  BY <1>1, <1>4
<1> QED BY <1>1, <1>2, <1>4, <1>7, <1>8, <1>9, FolderGoesOn

(* v ends, and nothing is left of what it was to remove. *)
LEMMA FolderEnds ==
  ASSUME ChainInv, RemovalInv, NEW v \in Uploads, Running(v), ~made', ~Failed(v),
         NEW x, up' = [up EXCEPT ![v] = x], x.reply = "ok",
         up[v].kind # "file", x.kind # "file",
         \A m \in Paths : disk'["temp"][m] = disk["temp"][m],
         \A p \in Places \ {"temp"}, m \in Paths :
           \/ disk'[p][m] = None
           \/ disk'[p][m] = disk[p][m] /\ ~Removes(v, p, m)
  PROVE  RemovalInv'
<1>1. \A p \in Places \ {"temp"}, m \in Paths : StillRemoved(v, p, m)
  <2> SUFFICES ASSUME NEW p \in Places \ {"temp"}, NEW m \in Paths
               PROVE  StillRemoved(v, p, m)
    OBVIOUS
  <2>1. disk'[p][m] = None => MayStay(p, m)'
    BY DEF MayStay
  <2> QED BY <2>1, Same DEF StillRemoved
<1> QED BY <1>1, FolderStep DEF FailsLate

LEMMA SealEntryRemoves ==
  ASSUME ChainInv, RemovalInv, NEW u \in Uploads, SealEntry(u)
  PROVE  RemovalInv'
<1>1. up[u] \in Requests /\ KindOK(u) /\ up[u].pc = "indexing" /\ made' = made
  BY Here DEF SealEntry, KindOK
<1>2. PICK n \in up[u].todo :
        /\ disk' = [disk EXCEPT !["piece"][n] = Encrypted(disk["tree"][n], <<u, n>>)]
        /\ up' = [up EXCEPT ![u].pc = "entry", ![u].todo = @ \ {n}, ![u].entry = n]
  BY DEF SealEntry
<1> DEFINE c == Encrypted(disk["tree"][n], <<u, n>>)
           x == [up[u] EXCEPT !.pc = "entry", !.todo = @ \ {n}, !.entry = n]
<1>3. Running(u) /\ up[u].kind = "indexed" /\ ~Failed(u)
  BY <1>1 DEF Running, KindOK, RemovalInv
<1>4. x.pc = "entry" /\ x.kind = "indexed" /\ x.entry = n /\ x.reply = up[u].reply
  BY <1>1, <1>3 DEF Requests
<1>5. up' = [up EXCEPT ![u] = x] /\ disk' = [disk EXCEPT !["piece"][n] = c]
  BY <1>1, <1>2 DEF Requests
<1>6. up'[u] = x
  BY <1>5 DEF ChainInv, TypeOK
<1> HIDE DEF x, c
<1>7. \A p \in Places, m \in Paths : disk'[p][m] = disk[p][m] \/ (p = "piece" /\ m = n)
  BY <1>5, Here
<1>8. (\A m : m = n => Removes(u, "piece", m)') /\ \A p, m : Removes(u, p, m) => Removes(u, p, m)'
  BY <1>1, <1>3, <1>4, <1>6 DEF Removes, Running
<1>9. \A m \in Paths : disk'["temp"][m] = disk["temp"][m]
  BY <1>7 DEF Places
<1>10. \A p \in Places \ {"temp"}, m \in Paths :
         Removes(u, p, m)' \/ (disk'[p][m] = disk[p][m] /\ (Removes(u, p, m) => Removes(u, p, m)'))
  BY <1>7, <1>8
<1>11. x.pc \notin {"idle", "done"} /\ x.kind = up[u].kind /\ up[u].kind # "file"
  BY <1>3, <1>4
<1> QED BY <1>1, <1>3, <1>4, <1>5, <1>9, <1>10, <1>11, FolderGoesOn

LEMMA SkipEntryRemoves ==
  ASSUME ChainInv, RemovalInv, NEW u \in Uploads, SkipEntry(u)
  PROVE  RemovalInv'
<1>1. up[u] \in Requests /\ KindOK(u) /\ up[u].pc = "indexing" /\ made' = made
  BY Here DEF SkipEntry, KindOK
<1>2. PICK n \in Names :
        /\ \/ disk' = disk
           \/ \E left \in {Partial, None} : disk' = [disk EXCEPT !["piece"][n] = left]
        /\ up' = [up EXCEPT ![u] = [up[u] EXCEPT !.todo = @ \ {n}]]
  BY <1>1 DEF SkipEntry, Requests
<1> DEFINE x == [up[u] EXCEPT !.todo = @ \ {n}]
<1>3. Running(u) /\ up[u].kind = "indexed" /\ ~Failed(u)
  BY <1>1 DEF Running, KindOK, RemovalInv
<1>4. x.pc = "indexing" /\ x.kind = "indexed" /\ x.reply = up[u].reply
  BY <1>1, <1>3 DEF Requests
<1>5. up' = [up EXCEPT ![u] = x]
  BY <1>2
<1>6. up'[u] = x
  BY <1>5 DEF ChainInv, TypeOK
<1> HIDE DEF x
<1>7. \A p \in Places, m \in Paths :
        disk'[p][m] = disk[p][m] \/ (p = "piece" /\ disk'[p][m] \in {Partial, None})
  BY <1>2, Here
<1>8. \A p, m : Removes(u, p, m) => Removes(u, p, m)'
  BY <1>1, <1>3, <1>4, <1>6 DEF Removes, Running
<1>9. \A m \in Paths : disk'["temp"][m] = disk["temp"][m]
  BY <1>7 DEF Places
<1>10. \A p \in Places \ {"temp"}, m \in Paths :
         MayStay(p, m)' \/ (disk'[p][m] = disk[p][m] /\ (Removes(u, p, m) => Removes(u, p, m)'))
  BY <1>7, <1>8 DEF MayStay, Partial
<1>11. x.pc \notin {"idle", "done"} /\ x.kind = up[u].kind /\ up[u].kind # "file"
  BY <1>3, <1>4
<1> QED BY <1>1, <1>3, <1>4, <1>5, <1>9, <1>10, <1>11, FolderGoesOn

LEMMA SendEntryRemoves ==
  ASSUME ChainInv, RemovalInv, NEW u \in Uploads, NEW ok \in BOOLEAN, SendEntry(u, ok)
  PROVE  RemovalInv'
<1> DEFINE n == up[u].entry
<1>1. /\ up[u] \in Requests /\ KindOK(u) /\ up[u].pc = "entry" /\ made' = made /\ n \in Names
      /\ disk' = [disk EXCEPT !["piece"][n] = None]
  BY Here DEF SendEntry, KindOK
<1>2. Running(u) /\ up[u].kind = "indexed" /\ ~Failed(u)
  BY <1>1 DEF Running, KindOK, RemovalInv
<1>3. PICK x : /\ up' = [up EXCEPT ![u] = x] /\ x.pc \in {"entrysent", "indexing"}
               /\ x.kind = "indexed" /\ x.reply = up[u].reply
  <2> DEFINE c == disk["piece"][n]
             sent == [up[u] EXCEPT !.pc = "entrysent", !.object = c]
             kept == [up[u] EXCEPT !.pc = "indexing", !.entry = None]
  <2>1. up' = [up EXCEPT ![u] = sent] \/ up' = [up EXCEPT ![u] = kept]
    BY <1>1 DEF SendEntry, Requests
  <2> HIDE DEF c
  <2>2. /\ sent.pc = "entrysent" /\ sent.kind = up[u].kind /\ sent.reply = up[u].reply
        /\ kept.pc = "indexing" /\ kept.kind = up[u].kind /\ kept.reply = up[u].reply
    BY <1>1 DEF Requests
  <2> QED BY <1>2, <2>1, <2>2
<1>4. up'[u] = x
  BY <1>3 DEF ChainInv, TypeOK
<1>5. \A p \in Places, m \in Paths :
        disk'[p][m] = IF p = "piece" /\ m = n THEN None ELSE disk[p][m]
  BY <1>1, Here
<1>6. \A p, m : Removes(u, p, m) => Removes(u, p, m)' \/ (p = "piece" /\ m = n)
  BY <1>1, <1>2, <1>3, <1>4 DEF Removes, Running
<1>7. \A p \in Places, m \in Paths : disk'[p][m] = None => MayStay(p, m)'
  BY DEF MayStay
<1>8. \A p \in Places \ {"temp"}, m \in Paths :
        \/ MayStay(p, m)'
        \/ disk'[p][m] = disk[p][m] /\ (Removes(u, p, m) => Removes(u, p, m)')
  BY <1>5, <1>6, <1>7
<1>9. /\ x.pc \notin {"idle", "done"} /\ x.kind = up[u].kind /\ up[u].kind # "file"
      /\ \A m \in Paths : disk'["temp"][m] = disk["temp"][m]
  BY <1>2, <1>3, <1>5 DEF Places
<1> QED BY <1>1, <1>2, <1>3, <1>8, <1>9, FolderGoesOn

LEMMA CloseArchiveRemoves ==
  ASSUME ChainInv, RemovalInv, NEW u \in Uploads, CloseArchive(u)
  PROVE  RemovalInv'
<1> DEFINE n == up[u].name
           x == [up[u] EXCEPT !.pc = "done", !.reply = "ok"]
<1>1. /\ up[u] \in Requests /\ KindOK(u) /\ up[u].pc = "closing" /\ up[u].kind = "archive"
      /\ n \in Names /\ ~made' /\ up' = [up EXCEPT ![u] = x]
      /\ disk' = [disk EXCEPT !["sealed"][n] = None, !["archive"][n] = None, !["tree"] = Empty]
  BY Here DEF CloseArchive, KindOK, Requests
<1>2. Running(u) /\ ~Failed(u) /\ x.reply = "ok" /\ x.kind = "archive"
  BY <1>1 DEF Running, RemovalInv, Requests
<1> HIDE DEF x
<1>3. \A p \in Places, m \in Paths :
        disk'[p][m] = IF p = "tree" \/ (p \in {"sealed", "archive"} /\ m = n)
                        THEN None ELSE disk[p][m]
  BY <1>1, Here DEF Empty, Places
<1>4. \A p, m : Removes(u, p, m) => p = "tree" \/ (p \in {"sealed", "archive"} /\ m = n)
  BY <1>1 DEF Removes
<1>5. \A p \in Places \ {"temp"}, m \in Paths :
        disk'[p][m] = None \/ (disk'[p][m] = disk[p][m] /\ ~Removes(u, p, m))
  BY <1>3, <1>4
<1>6. \A m \in Paths : disk'["temp"][m] = disk["temp"][m]
  BY <1>3 DEF Places
<1>7. x.kind # "file" /\ up[u].kind # "file"
  BY <1>1, <1>2
<1> QED BY <1>1, <1>2, <1>5, <1>6, <1>7, FolderEnds

LEMMA CloseIndexedRemoves ==
  ASSUME ChainInv, RemovalInv, NEW u \in Uploads, CloseIndexed(u)
  PROVE  RemovalInv'
<1> DEFINE x == [up[u] EXCEPT !.pc = "done", !.reply = "ok"]
<1>1. /\ up[u] \in Requests /\ KindOK(u) /\ up[u].pc = "indexing" /\ ~made'
      /\ up' = [up EXCEPT ![u] = x] /\ disk' = [disk EXCEPT !["tree"] = Empty]
  BY Here DEF CloseIndexed, KindOK, Requests
<1>2. /\ Running(u) /\ ~Failed(u) /\ x.reply = "ok" /\ up[u].kind = "indexed"
      /\ x.kind = "indexed"
  BY <1>1 DEF Running, RemovalInv, Requests, KindOK
<1> HIDE DEF x
<1>3. \A p \in Places, m \in Paths :
        disk'[p][m] = IF p = "tree" THEN None ELSE disk[p][m]
  BY <1>1, Here DEF Empty, Places
<1>4. \A p, m : Removes(u, p, m) => p = "tree"
  BY <1>1, <1>2 DEF Removes
<1>5. /\ \A m \in Paths : disk'["temp"][m] = disk["temp"][m]
      /\ \A p \in Places \ {"temp"}, m \in Paths :
           disk'[p][m] = None \/ (disk'[p][m] = disk[p][m] /\ ~Removes(u, p, m))
  BY <1>3, <1>4 DEF Places
<1>6. x.kind # "file" /\ up[u].kind # "file"
  BY <1>2
<1> QED BY <1>1, <1>2, <1>5, <1>6, FolderEnds

LEMMA RefuseFolderRemoves ==
  ASSUME ChainInv, RemovalInv, NEW u \in Uploads, RefuseFolder(u)
  PROVE  RemovalInv'
BY Here, FolderFailureRemoves DEF RefuseFolder, KindOK, Running

LEMMA AcceptFailsRemoves ==
  ASSUME ChainInv, RemovalInv, NEW u \in Uploads, NEW ok \in BOOLEAN, AcceptFails(u, ok)
  PROVE  RemovalInv'
<1> DEFINE place == IF up[u].pc = "accepted" THEN "archive" ELSE "sealed"
<1>1. /\ Running(u) /\ Fail(u) /\ up[u].kind # "file" /\ place \in Places \ {"temp"}
      /\ disk' = disk \/ disk' = [disk EXCEPT ![place][up[u].name] = Partial]
  BY DEF AcceptFails, Running, Places
<1> HIDE DEF place
<1>2. \A n \in Paths : disk'["temp"][n] = disk["temp"][n]
  BY <1>1, Here DEF Places
<1> QED BY <1>1, <1>2, FolderFailureRemoves

LEMMA AcceptUploadRemoves ==
  ASSUME ChainInv, RemovalInv, NEW u \in Uploads, AcceptUpload(u)
  PROVE  RemovalInv'
<1> DEFINE x == [up[u] EXCEPT !.pc = "accepted"]
<1>1. /\ up[u] \in Requests /\ up[u].pc = "receiving" /\ Running(u)
      /\ up' = [up EXCEPT ![u] = x] /\ UNCHANGED <<disk, made>>
  BY Here DEF AcceptUpload, Move, Running
<1>2. /\ x.pc = "accepted" /\ x.kind = up[u].kind /\ x.name = up[u].name
      /\ x.compress = up[u].compress /\ x.reply = up[u].reply
  BY <1>1 DEF Requests
<1>3. up[u].pc # "entry" /\ ~Failed(u)
  BY <1>1 DEF RemovalInv
<1> HIDE DEF x
<1> QED BY <1>1, <1>2, <1>3, RemovalGoesOn DEF FailsLate, Failed

LEMMA SendFileRemoves ==
  ASSUME ChainInv, RemovalInv, NEW u \in Uploads, NEW ok \in BOOLEAN, SendFile(u, ok)
  PROVE  RemovalInv'
<1>1. /\ up[u] \in Requests /\ up[u].pc = "encrypted" /\ up[u].kind = "file" /\ Running(u)
      /\ UNCHANGED <<disk, made>>
  BY Here DEF SendFile, Running
<1>2. PICK x : /\ up' = [up EXCEPT ![u] = x] /\ x.kind = "file" /\ x.name = up[u].name
               /\ x.compress = up[u].compress
               /\ (x.pc = "sent" /\ x.reply = up[u].reply) \/ x.pc = "closing"
  <2> DEFINE c == disk["temp"][EncPath(u)]
             sent == [up[u] EXCEPT !.pc = "sent", !.object = c]
             lost == [up[u] EXCEPT !.pc = "closing", !.reply = "failed"]
  <2>1. up' = [up EXCEPT ![u] = sent] \/ up' = [up EXCEPT ![u] = lost]
    BY <1>1 DEF SendFile, Requests
  <2> HIDE DEF c
  <2>2. /\ sent.kind = "file" /\ sent.name = up[u].name /\ sent.compress = up[u].compress
        /\ sent.pc = "sent" /\ sent.reply = up[u].reply
    BY <1>1 DEF Requests
  <2>3. /\ lost.kind = "file" /\ lost.name = up[u].name /\ lost.compress = up[u].compress
        /\ lost.pc = "closing"
    BY <1>1 DEF Requests
  <2> QED BY <2>1, <2>2, <2>3
<1>3. up[u].pc # "entry" /\ ~Failed(u)
  BY <1>1 DEF RemovalInv
<1>4. FailsLate(x) /\ x.pc \notin {"idle", "done"}
  BY <1>2, <1>3 DEF FailsLate, Failed
<1> QED BY <1>1, <1>2, <1>3, <1>4, RemovalGoesOn

LEMMA RecordFileRemoves ==
  ASSUME ChainInv, RemovalInv, NEW u \in Uploads, NEW ok \in BOOLEAN, RecordFile(u, ok)
  PROVE  RemovalInv'
<1> DEFINE x == [up[u] EXCEPT !.pc = "closing", !.reply = "ok"]
<1>1. /\ up[u] \in Requests /\ up[u].pc = "sent" /\ up[u].kind = "file" /\ Running(u)
      /\ up' = [up EXCEPT ![u] = x] /\ UNCHANGED <<disk, made>>
  BY Here DEF RecordFile, Running, Requests
<1>2. /\ x.pc = "closing" /\ x.kind = up[u].kind /\ x.name = up[u].name
      /\ x.compress = up[u].compress /\ x.reply = "ok"
  BY <1>1 DEF Requests
<1>3. up[u].pc # "entry" /\ ~Failed(u)
  BY <1>1 DEF RemovalInv
<1> HIDE DEF x
<1> QED BY <1>1, <1>2, <1>3, RemovalGoesOn DEF FailsLate

LEMMA SendArchiveRemoves ==
  ASSUME ChainInv, RemovalInv, NEW u \in Uploads, SendArchive(u)
  PROVE  RemovalInv'
<1> DEFINE c == disk["sealed"][up[u].name]
           x == [up[u] EXCEPT !.pc = "sent", !.object = c]
<1>1. /\ up[u] \in Requests /\ up[u].pc = "sealed" /\ Running(u)
      /\ up' = [up EXCEPT ![u] = x] /\ UNCHANGED <<disk, made>>
  BY Here DEF SendArchive, Running, Requests
<1> HIDE DEF c
<1>2. /\ x.pc = "sent" /\ x.kind = up[u].kind /\ x.name = up[u].name
      /\ x.compress = up[u].compress /\ x.reply = up[u].reply
  BY <1>1 DEF Requests
<1>3. up[u].pc # "entry" /\ ~Failed(u)
  BY <1>1 DEF RemovalInv
<1> HIDE DEF x
<1> QED BY <1>1, <1>2, <1>3, RemovalGoesOn DEF FailsLate, Failed

LEMMA RecordArchiveRemoves ==
  ASSUME ChainInv, RemovalInv, NEW u \in Uploads, NEW ok \in BOOLEAN, RecordArchive(u, ok)
  PROVE  RemovalInv'
<1>1. /\ up[u] \in Requests /\ up[u].pc = "sent" /\ up[u].kind = "archive" /\ Running(u)
      /\ UNCHANGED <<disk, made>>
  BY Here DEF RecordArchive, Running
<1>2. CASE ~ok
  BY <1>1, <1>2, FolderFailureRemoves DEF RecordArchive
<1>3. CASE ok
  <2> DEFINE x == [up[u] EXCEPT !.pc = "closing"]
  <2>1. up' = [up EXCEPT ![u] = x]
    BY <1>3 DEF RecordArchive, Move
  <2>2. /\ x.pc = "closing" /\ x.kind = up[u].kind /\ x.name = up[u].name
        /\ x.compress = up[u].compress /\ x.reply = up[u].reply
    BY <1>1 DEF Requests
  <2>3. up[u].pc # "entry" /\ ~Failed(u)
    BY <1>1 DEF RemovalInv
  <2> HIDE DEF x
  <2> QED BY <1>1, <2>1, <2>2, <2>3, RemovalGoesOn DEF FailsLate, Failed
<1> QED BY <1>2, <1>3

LEMMA IndexFolderRemoves ==
  ASSUME ChainInv, RemovalInv, NEW u \in Uploads, NEW ok \in BOOLEAN, IndexFolder(u, ok)
  PROVE  RemovalInv'
<1>1. /\ up[u] \in Requests /\ up[u].pc = "accepted" /\ up[u].kind = "indexed" /\ Running(u)
      /\ UNCHANGED <<disk, made>>
  BY Here DEF IndexFolder, Running
<1>2. CASE ~(made /\ ok)
  BY <1>1, <1>2, FolderFailureRemoves DEF IndexFolder
<1>3. CASE made /\ ok
  <2> DEFINE found == {n \in Names : disk["tree"][n] # None}
             x == [up[u] EXCEPT !.pc = "indexing", !.todo = found]
  <2>1. up' = [up EXCEPT ![u] = x]
    BY <1>1, <1>3 DEF IndexFolder, Requests
  <2> HIDE DEF found
  <2>2. /\ x.pc = "indexing" /\ x.kind = up[u].kind /\ x.name = up[u].name
        /\ x.compress = up[u].compress /\ x.reply = up[u].reply
    BY <1>1 DEF Requests
  <2>3. up[u].pc # "entry" /\ ~Failed(u)
    BY <1>1 DEF RemovalInv
  <2> HIDE DEF x
  <2> QED BY <1>1, <2>1, <2>2, <2>3, RemovalGoesOn DEF FailsLate, Failed
<1> QED BY <1>2, <1>3

LEMMA RecordEntryRemoves ==
  ASSUME ChainInv, RemovalInv, NEW u \in Uploads, NEW ok \in BOOLEAN, RecordEntry(u, ok)
  PROVE  RemovalInv'
<1> DEFINE x == [up[u] EXCEPT !.pc = "indexing", !.entry = None, !.object = None]
<1>1. /\ up[u] \in Requests /\ up[u].pc = "entrysent" /\ Running(u)
      /\ up' = [up EXCEPT ![u] = x] /\ UNCHANGED <<disk, made>>
  BY Here DEF RecordEntry, Running, Requests
<1>2. /\ x.pc = "indexing" /\ x.kind = up[u].kind /\ x.name = up[u].name
      /\ x.compress = up[u].compress /\ x.reply = up[u].reply
  BY <1>1 DEF Requests
<1>3. up[u].pc # "entry" /\ ~Failed(u)
  BY <1>1 DEF RemovalInv
<1> HIDE DEF x
<1> QED BY <1>1, <1>2, <1>3, RemovalGoesOn DEF FailsLate, Failed

LEMMA RemovalInit == Init => RemovalInv
<1> SUFFICES ASSUME Init PROVE RemovalInv
  OBVIOUS
<1>1. \A u \in Uploads : up[u].reply = None /\ ~Failed(u)
  BY NoneAssumption DEF Init, Start, Failed
<1>2. ~made /\ \A p \in Places, n \in Paths : disk[p][n] = None
  BY DEF Init, Empty
<1> QED BY <1>1, <1>2 DEF RemovalInv, MayStay, Plain, CopiesGrow, Places

LEMMA RemovalStepKeeps ==
  ASSUME ChainInv, RemovalInv, [Next]_vars
  PROVE  RemovalInv'
<1>1. CASE UNCHANGED vars
  BY <1>1 DEF vars, RemovalInv, Failed, Removes, RemovesPlain, Running, EncPath, Places,
              MayStay, Plain, CopiesGrow
<1>2. ASSUME NEW u \in Uploads,
             \/ ReceiveFile(u) \/ CloseFile(u)
             \/ BeginFolder(u) \/ ReceivePart(u) \/ RefuseFolder(u) \/ AcceptUpload(u)
      PROVE  RemovalInv'
  BY <1>2, ReceiveFileRemoves, CloseFileRemoves,
     BeginFolderRemoves, ReceivePartRemoves, RefuseFolderRemoves, AcceptUploadRemoves
<1>3. ASSUME NEW u \in Uploads,
             \/ PackFolder(u) \/ SealArchive(u) \/ SendArchive(u)
             \/ CloseArchive(u) \/ SealEntry(u) \/ SkipEntry(u) \/ CloseIndexed(u)
      PROVE  RemovalInv'
  BY <1>3, PackFolderRemoves, SealArchiveRemoves, SendArchiveRemoves,
     CloseArchiveRemoves, SealEntryRemoves, SkipEntryRemoves, CloseIndexedRemoves
<1>4. ASSUME NEW u \in Uploads, NEW ok \in BOOLEAN,
             \/ ProcessFails(u, ok) \/ CompressFile(u, ok) \/ AcceptFails(u, ok)
             \/ EncryptFile(u, ok) \/ SendFile(u, ok) \/ RecordFile(u, ok)
             \/ RecordArchive(u, ok)
             \/ IndexFolder(u, ok) \/ SendEntry(u, ok) \/ RecordEntry(u, ok)
      PROVE  RemovalInv'
  BY <1>4, ProcessFailsRemoves, CompressFileRemoves, AcceptFailsRemoves,
    EncryptFileRemoves, SendFileRemoves, RecordFileRemoves, RecordArchiveRemoves,
     IndexFolderRemoves, SendEntryRemoves, RecordEntryRemoves
<1> QED BY <1>1, <1>2, <1>3, <1>4 DEF Next

(* Every undisturbed upload owns its scratch files, its rows name objects   *)
(* that hold what was sent, and every scratch file but what may stay is some *)
(* running upload's to remove, unless one failed: all actions of the        *)
(* uploads keep it.                                                         *)
THEOREM Invariant == Spec => []IInv
<1>1. Init => RemovalInv
  BY RemovalInit
<1>2. ChainInv /\ RemovalInv /\ [Next]_vars => RemovalInv'
  BY RemovalStepKeeps
<1>3. ChainInv /\ RemovalInv => IInv
  BY DEF IInv
<1> QED BY <1>1, <1>2, <1>3, ChainAlways, PTL DEF Spec

(* When no upload runs, /tmp/uploads holds no plain copy of an uploaded     *)
(* file, whichever uploads failed or shared a name: the deferred removals   *)
(* and the removal on an error of UploadFileHandler.                        *)
THEOREM PlainCopiesAlwaysGo == Spec => []PlainCopiesGo
<1>1. IInv => PlainCopiesGo
  BY DEF IInv, RemovalInv, PlainCopiesGo, Quiet, RemovesPlain
<1> QED BY <1>1, Invariant, PTL

(* When no upload runs and none failed, the temporary folder is gone, and   *)
(* only compressed copies of single files and what a seal that broke off in *)
(* an indexed folder left are on the disk: the removals of                  *)
(* UploadFileHandler, AcceptFolder and AcceptFolderIndexed.                 *)
THEOREM ScratchAlwaysGoes == Spec => []ScratchGoes
<1>1. ASSUME IInv, Quiet, \A u \in Uploads : up[u].reply # "failed"
      PROVE  (\A p \in Places, n \in Paths : MayStay(p, n)) /\ ~made
  <2>1. \A u \in Uploads : ~Failed(u)
    BY <1>1 DEF Failed
  <2>2. \A u \in Uploads : \A p, n : ~Removes(u, p, n)
    BY <1>1 DEF Quiet, Removes
  <2> QED BY <1>1, <2>1, <2>2 DEF IInv, RemovalInv, Quiet
<1>2. IInv => ScratchGoes
  BY <1>1 DEF ScratchGoes
<1> QED BY <1>2, Invariant, PTL
=============================================================================
