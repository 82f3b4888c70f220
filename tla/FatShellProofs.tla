----------------------------- MODULE FatShellProofs ----------------------------
(***************************************************************************)
(* The prompt of the FAT16 shell and what read, tree and ls print, for     *)
(* every geometry, every volume and every sequence of commands.            *)
(***************************************************************************)
EXTENDS FatShell, SequenceTheorems, WellFoundedInduction, TLAPS

-------------------------------------------------------------------------------
(* Numbers *)

LEMMA SizesAreNumbers ==
    /\ SectorSlots \in Nat \ {0} /\ ClusterSlots \in Nat \ {0}
    /\ ClusterBytes \in Nat \ {0}
    /\ RootSector \in Nat \ {0} /\ RootSlots \in Nat \ {0}
    /\ Clusters \subseteq Nat \ {0, 1} /\ MaxLevel \in Nat /\ MaxPath \in Nat
BY GeometryAssumption DEF Clusters

LEMMA SmallestOfSome ==
    ASSUME NEW S, S \subseteq Nat, S # {}
    PROVE  Min(S) \in S /\ \A y \in S : Min(S) <= y
<1>. DEFINE Less == {p \in Nat \X Nat : p[1] < p[2]}
<1>1. IsWellFoundedOn(Less, Nat)
  BY NatLessThanWellFounded DEF OpToRel
<1>2. PICK m \in S : \A x \in S : ~ (<<x, m>> \in Less)
  <2>. HIDE DEF Less
  <2>. QED  BY <1>1, WFMin
<1>3. ASSUME NEW x \in S  PROVE m <= x
  <2>1. ~ (<<x, m>> \in Less) /\ x \in Nat /\ m \in Nat
    BY <1>2
  <2>2. ~ (x < m)
    BY <2>1
  <2>. QED  BY <2>1, <2>2
<1>4. \E x \in S : \A y \in S : x <= y
  BY <1>3
<1>. QED  BY <1>4 DEF Min

(* Induction, about a set of numbers. *)
LEMMA Induction ==
    ASSUME NEW S, 0 \in S, \A n \in Nat : n \in S => n + 1 \in S
    PROVE  Nat \subseteq S
<1>. DEFINE Rest == Nat \ S
<1>. SUFFICES ASSUME Rest # {}  PROVE FALSE
  OBVIOUS
<1>1. PICK m \in Rest : \A y \in Rest : m <= y
  <2>1. Rest \subseteq Nat
    OBVIOUS
  <2>. HIDE DEF Rest
  <2>. QED  BY <2>1, SmallestOfSome
<1>2. m \in Nat \ {0} /\ m - 1 \in Nat /\ m = (m - 1) + 1 /\ ~ (m <= m - 1)
  OBVIOUS
<1>. QED  BY <1>1, <1>2

(* F is computed by recursion over the places of a sequence. *)
Computes(F, V, first, len, step) ==
    /\ F \in [0 .. len -> V] /\ F[0] = first
    /\ \A n \in 1 .. len : F[n] = step[<<n, F[n - 1]>>]

LEMMA Recursion ==
    ASSUME NEW V, NEW first \in V, NEW len \in Nat,
           NEW step \in [(1 .. len) \X V -> V]
    PROVE  \E F : Computes(F, V, first, len, step)
<1>. DEFINE Fits(F, m) == /\ F \in [0 .. m -> V] /\ F[0] = first
                          /\ \A n \in 1 .. m : F[n] = step[<<n, F[n - 1]>>]
            D == {m \in Nat : m <= len => \E F : Fits(F, m)}
<1>1. 0 \in D
  <2>. DEFINE F == [n \in 0 .. 0 |-> first]
  <2>1. Fits(F, 0)
    OBVIOUS
  <2>. QED  BY <2>1
<1>2. ASSUME NEW m \in Nat, m \in D  PROVE m + 1 \in D
  <2>. SUFFICES ASSUME m + 1 <= len  PROVE \E F : Fits(F, m + 1)
    OBVIOUS
  <2>1. PICK F : Fits(F, m)
    BY <1>2
  <2>. DEFINE G == [n \in 0 .. m + 1 |->
                       IF n = m + 1 THEN step[<<n, F[m]>>] ELSE F[n]]
  <2>2. step[<<m + 1, F[m]>>] \in V
    BY <2>1
  <2>3. G \in [0 .. m + 1 -> V] /\ G[0] = first
    BY <2>1, <2>2
  <2>4. ASSUME NEW n \in 1 .. m + 1  PROVE G[n] = step[<<n, G[n - 1]>>]
    <3>1. CASE n = m + 1
      BY <3>1
    <3>2. CASE n # m + 1
      <4>1. n \in 1 .. m /\ n - 1 \in 0 .. m /\ n - 1 # m + 1
        BY <3>2
      <4>. QED  BY <2>1, <4>1
    <3>. QED  BY <3>1, <3>2
  <2>. HIDE DEF G
  <2>. QED  BY <2>3, <2>4
<1>3. len \in D
  <2>. HIDE DEF D
  <2>. QED  BY <1>1, <1>2, Induction
<1>. QED  BY <1>3 DEF Computes

(* What holds at first and is kept by each step holds of all members. *)
LEMMA StepByStep ==
    ASSUME NEW V, NEW F, NEW len \in Nat, F[0] \in V,
           \A n \in 1 .. len : F[n - 1] \in V => F[n] \in V
    PROVE  \A n \in 0 .. len : F[n] \in V
<1>. DEFINE D == {n \in Nat : n <= len => F[n] \in V}
<1>1. 0 \in D
  OBVIOUS
<1>2. ASSUME NEW n \in Nat, n \in D  PROVE n + 1 \in D
  <2>. SUFFICES ASSUME n + 1 <= len  PROVE F[n + 1] \in V
    OBVIOUS
  <2>1. n + 1 \in 1 .. len /\ n <= len /\ (n + 1) - 1 = n
    OBVIOUS
  <2>2. F[n] \in V
    BY <1>2, <2>1
  <2>3. F[(n + 1) - 1] \in V => F[n + 1] \in V
    BY <2>1
  <2>. QED  BY <2>1, <2>2, <2>3
<1>3. Nat \subseteq D
  <2>. HIDE DEF D
  <2>. QED  BY <1>1, <1>2, Induction
<1>. QED  BY <1>3

(* The quotient and the remainder of a byte's place. *)
LEMMA Division ==
    ASSUME NEW n \in Nat \ {0}, NEW q \in Int, NEW r \in 0 .. n - 1
    PROVE  (n * q + r) \div n = q /\ (n * q + r) % n = r
<1>. DEFINE a == n * q + r  k == a \div n  m == a % n
<1>1. a \in Int /\ k \in Int /\ m \in 0 .. n - 1 /\ a = n * k + m
  OBVIOUS
<1>2. n * (q - k) = m - r
  BY <1>1
<1>3. \A d \in Int : d >= 1 => n * d >= n
  OBVIOUS
<1>4. ~(q - k >= 1)
  BY <1>1, <1>2, <1>3
<1>5. n * (k - q) = r - m
  BY <1>1
<1>6. ~(k - q >= 1)
  BY <1>1, <1>3, <1>5
<1>7. q = k
  BY <1>1, <1>4, <1>6
<1>. QED  BY <1>1, <1>7

LEMMA FirstCluster ==
    ASSUME NEW n \in Nat \ {0}, NEW b \in 0 .. n - 1
    PROVE  b \div n = 0 /\ b % n = b
<1>1. b = n * 0 + b
  OBVIOUS
<1>2. (n * 0 + b) \div n = 0 /\ (n * 0 + b) % n = b
  BY Division
<1>. QED  BY <1>1, <1>2

LEMMA NextCluster ==
    ASSUME NEW n \in Nat \ {0}, NEW b \in Nat, b >= n
    PROVE  /\ b - n \in Nat /\ (b - n) \div n \in Nat
           /\ b \div n = (b - n) \div n + 1 /\ b % n = (b - n) % n
<1>. DEFINE q == (b - n) \div n  r == (b - n) % n
<1>1. b - n \in Nat /\ q \in Nat /\ r \in 0 .. n - 1 /\ b - n = n * q + r
  OBVIOUS
<1>2. b = n * (q + 1) + r
  BY <1>1
<1>3. (n * (q + 1) + r) \div n = q + 1 /\ (n * (q + 1) + r) % n = r
  <2>. DEFINE k == q + 1
  <2>1. k \in Int
    BY <1>1
  <2>. HIDE DEF k, q, r
  <2>. QED  BY <1>1, <2>1, Division DEF k
<1>. QED  BY <1>1, <1>2, <1>3

(* Offsets tell clusters apart. *)
LEMMA ProductsDiffer ==
    ASSUME NEW n \in Nat \ {0}, NEW a \in Nat, NEW b \in Nat, a * n = b * n
    PROVE  a = b
<1>1. n * (a - b) = 0 /\ n * (b - a) = 0
  OBVIOUS
<1>2. \A d \in Int : d >= 1 => n * d >= n
  OBVIOUS
<1>3. ~(a - b >= 1) /\ ~(b - a >= 1)
  BY <1>1, <1>2
<1>. QED  BY <1>3

-------------------------------------------------------------------------------
(* The root directory *)

VolumeOK ==
    /\ \E n \in 0 .. RootSlots : DOMAIN volume.root = 1 .. n
    /\ \A i \in DOMAIN volume.root :
          /\ volume.root[i].cluster \in Nat /\ volume.root[i].size \in Nat
          /\ volume.root[i].kind = "dir" \/ IsDirectory(volume.root[i]) =>
                volume.root[i].cluster \in Clusters
    /\ volume.root \in Seq(Range(volume.root))
    /\ volume.fat \in [Clusters -> Nat]

LEMMA VolumesAreOK == volume \in Volumes => VolumeOK
<1>. SUFFICES ASSUME volume \in Volumes  PROVE VolumeOK
  OBVIOUS
<1>. DEFINE r == volume.root
<1>1. /\ r \in Seq(Range(r)) /\ Len(r) <= RootSlots
      /\ volume.fat \in [Clusters -> Nat]
      /\ \A e \in Range(r) : /\ {e.cluster, e.size} \subseteq Nat
                             /\ e.kind = "dir" \/ IsDirectory(e) => e.cluster \in Clusters
  BY VolumesAssumption
<1>2. \A i \in DOMAIN r : r[i] \in Range(r)
  BY DEF Range
<1>3. Len(r) \in 0 .. RootSlots /\ DOMAIN r = 1 .. Len(r)
  BY <1>1, SizesAreNumbers
<1>. HIDE DEF r
<1>4. \A i \in DOMAIN r :
         /\ r[i].cluster \in Nat /\ r[i].size \in Nat
         /\ r[i].kind = "dir" \/ IsDirectory(r[i]) => r[i].cluster \in Clusters
  BY <1>1, <1>2
<1>. QED  BY <1>1, <1>3, <1>4 DEF VolumeOK, r

RootScan == Slots(root_directory_offset, RootSlots)

(* What the loops over the root directory see. *)
LEMMA RootScanned ==
    ASSUME VolumeOK
    PROVE  /\ Len(RootScan) = RootSlots /\ DOMAIN RootScan = 1 .. RootSlots
           /\ DOMAIN volume.root \subseteq 1 .. RootSlots
           /\ \A i \in 1 .. RootSlots :
                 RootScan[i] = IF i \in DOMAIN volume.root THEN volume.root[i]
                               ELSE End
<1>. USE SizesAreNumbers
<1>1. RootScan = [i \in 1 .. RootSlots |-> SlotAt(root_directory_offset + i - 1)]
  BY DEF RootScan, Slots
<1>2. Len(RootScan) = RootSlots /\ DOMAIN RootScan = 1 .. RootSlots
  BY <1>1
<1>3. ASSUME NEW i \in 1 .. RootSlots
      PROVE  RootScan[i] = IF i \in DOMAIN volume.root THEN volume.root[i] ELSE End
  <2>. DEFINE r == root_directory_offset
              k == r + i - 1
  <2>1. r \in Nat
    BY DEF root_directory_offset
  <2>. HIDE DEF r
  <2>2. ~ (k < r) /\ k < r + RootSlots /\ k - r + 1 = i
    BY <2>1
  <2>3. SlotAt(k) = Nth(volume.root, k - r + 1)
    BY <2>2 DEF SlotAt, data_region_offset, r
  <2>4. RootScan[i] = SlotAt(k)
    BY <1>1 DEF r
  <2>. QED  BY <2>2, <2>3, <2>4 DEF Nth
<1>4. DOMAIN volume.root \subseteq 1 .. RootSlots
  BY DEF VolumeOK
<1>. QED  BY <1>2, <1>3, <1>4

(* The scan that ends at the first unused slot. *)
LEMMA BeforeEndIs ==
    ASSUME NEW s, NEW n \in Nat, DOMAIN s = 1 .. n, Len(s) = n
    PROVE  \E m \in 0 .. n :
               /\ DOMAIN BeforeEnd(s) = 1 .. m /\ Len(BeforeEnd(s)) = m
               /\ \A i \in 1 .. m : BeforeEnd(s)[i] = s[i] /\ s[i] # End
               /\ m < n => s[m + 1] = End
<1>. DEFINE ends == {i \in DOMAIN s : s[i] = End}
<1>1. CASE ends = {}
  BY <1>1 DEF BeforeEnd
<1>2. CASE ends # {}
  <2>. DEFINE e == Min(ends)
              m == e - 1
  <2>1. e \in ends /\ \A y \in ends : e <= y
    <3>1. ends \subseteq Nat
      OBVIOUS
    <3>. HIDE DEF ends
    <3>. QED  BY <1>2, <3>1, SmallestOfSome
  <2>2. BeforeEnd(s) = SubSeq(s, 1, m)
    BY <1>2 DEF BeforeEnd
  <2>. HIDE DEF e
  <2>3. e \in 1 .. n /\ s[e] = End /\ m \in 0 .. n /\ m + 1 = e
    BY <2>1
  <2>4. \A i \in 1 .. m : s[i] # End
    <3>1. \A i \in 1 .. m : i \in 1 .. n /\ ~ (e <= i)
      BY <2>3
    <3>. QED  BY <2>1, <3>1
  <2>5. SubSeq(s, 1, m) = [i \in 1 .. m |-> s[i]]
    BY <2>3
  <2>. HIDE DEF m
  <2>6. DOMAIN BeforeEnd(s) = 1 .. m /\ Len(BeforeEnd(s)) = m
        /\ \A i \in 1 .. m : BeforeEnd(s)[i] = s[i]
    BY <2>2, <2>3, <2>5
  <2>. QED  BY <2>3, <2>4, <2>6
<1>. QED  BY <1>1, <1>2

-------------------------------------------------------------------------------
(* Where the shell is *)

(* As PromptIsTrue, and the directory the shell is in is one of the root's. *)
InTheRoot ==
    /\ AtRoot /\ dir_depth = 0
    /\ Misleading \/ current_directory = <<>>

InADirectory ==
    /\ dir_depth = 1
    /\ current_directory_offset = current_entry.cluster * SectorSlots
    /\ \E i \in DOMAIN volume.root :
          current_entry = volume.root[i] /\ volume.root[i].kind = "dir"
    /\ Misleading \/ Named(current_directory, current_entry)

Located == Ambiguous \/ InTheRoot \/ InADirectory

PlaceInv ==
    /\ volume \in Volumes
    /\ current_directory \in Seq(STRING)
    /\ Len(current_directory) <= MaxPath
    /\ dir_depth \in Nat /\ dir_depth <= Len(current_directory)
    /\ current_directory_offset
           \in {root_directory_offset} \cup {c * SectorSlots : c \in Clusters}
    /\ status \in {"prompt", "exit", "overrun"}
    /\ dir_depth = 0 => AtRoot
    /\ Located

LEMMA BarePromptIsRoot == PlaceInv /\ current_directory = <<>> => AtRoot
<1>1. Len(<<>>) = 0
  OBVIOUS
<1>. QED  BY <1>1 DEF PlaceInv

(* Nobody is in a subdirectory that is taken for the root. *)
LEMMA RootIsRoot ==
    ASSUME PlaceInv, AtRoot, ~Ambiguous
    PROVE  dir_depth = 0 /\ (Misleading \/ current_directory = <<>>)
<1>. SUFFICES ASSUME InADirectory
              PROVE  FALSE
  BY DEF PlaceInv, Located, InTheRoot
<1>1. PICK i \in DOMAIN volume.root :
         /\ volume.root[i].kind = "dir"
         /\ current_directory_offset = volume.root[i].cluster * SectorSlots
  BY DEF InADirectory
<1>. DEFINE c == volume.root[i].cluster
<1>2. c \in Nat /\ c * SectorSlots = RootSector * SectorSlots
  BY <1>1, VolumesAreOK
     DEF PlaceInv, VolumeOK, AtRoot, root_directory_offset
<1>3. c = RootSector
  <2>. HIDE DEF c
  <2>. QED  BY <1>2, SizesAreNumbers, ProductsDiffer
<1>. QED  BY <1>1, <1>3 DEF Ambiguous

(* Entering goes to a directory of the root directory, or nowhere. *)
LEMMA EntersADirectory ==
    ASSUME VolumeOK, NEW name, Enter(name)
    PROVE  \/ UNCHANGED cwd
           \/ \E i \in DOMAIN volume.root :
                 /\ volume.root[i].kind = "dir" /\ volume.root[i].name = name.padded
                 /\ Len(current_directory \o name.parts) <= MaxPath
                 /\ dir_depth' = dir_depth + 1
                 /\ current_directory' = current_directory \o name.parts
                 /\ current_directory_offset' = volume.root[i].cluster * SectorSlots
                 /\ current_entry' = volume.root[i]
<1>. DEFINE I == {i \in 1 .. Len(RootScan) :
                     RootScan[i].kind = "dir" /\ RootScan[i].name = name.padded}
            first == IF I # {} THEN Min(I) ELSE 0
<1>1. \/ first = 0 /\ UNCHANGED cwd
      \/ /\ first # 0
         /\ Len(current_directory \o name.parts) <= MaxPath
         /\ dir_depth' = dir_depth + 1
         /\ current_directory' = current_directory \o name.parts
         /\ current_directory_offset' = RootScan[first].cluster * SectorSlots
         /\ current_entry' = RootScan[first]
  BY DEF Enter, SelectInSeq, RootScan
<1>2. CASE first # 0
  <2>1. I # {} /\ I \subseteq Nat
    BY <1>2
  <2>2. first \in I
    <3>. HIDE DEF I
    <3>. QED  BY <1>2, <2>1, SmallestOfSome
  <2>3. /\ first \in 1 .. RootSlots /\ RootScan[first].kind = "dir"
        /\ RootScan[first].name = name.padded
    BY <2>2, RootScanned
  <2>. HIDE DEF first
  <2>4. first \in DOMAIN volume.root /\ RootScan[first] = volume.root[first]
    <3>1. RootScan[first] = IF first \in DOMAIN volume.root
                            THEN volume.root[first] ELSE End
      BY <2>3, RootScanned
    <3>2. End.kind # "dir"
      BY DEF End
    <3>. QED  BY <2>3, <3>1, <3>2
  <2>. QED  BY <1>1, <1>2, <2>3, <2>4
<1>. QED  BY <1>1, <1>2

LEMMA SameVolume ==
    ASSUME volume' = volume
    PROVE  /\ Ambiguous' <=> Ambiguous
           /\ Misleading' <=> Misleading
BY DEF Ambiguous, Misleading

LEMMA NamesAreTyped ==
    ASSUME NEW name \in Names
    PROVE  name.parts \in Seq(STRING) /\ Len(name.parts) \in Nat /\ Len(name.parts) > 0
<1>1. name.parts \in Seq(STRING) /\ name.parts # <<>>
  BY NamesAssumption
<1>. QED  BY <1>1

LEMMA FrontIs ==
    ASSUME NEW S, NEW s \in Seq(S), Len(s) > 0
    PROVE  /\ Front(s) \in Seq(S) /\ Len(s) \in Nat /\ Len(Front(s)) = Len(s) - 1
           /\ Len(s) = 1 => Front(s) = <<>>
<1>1. Len(s) \in Nat /\ Len(s) - 1 \in 0 .. Len(s)
  BY LenProperties
<1>2. Front(s) = SubSeq(s, 1, Len(s) - 1)
  BY DEF Front
<1>3. /\ SubSeq(s, 1, Len(s) - 1) \in Seq(S)
      /\ Len(SubSeq(s, 1, Len(s) - 1)) = Len(s) - 1
  <2>1. PICK n \in Int : n = Len(s) - 1
    BY <1>1
  <2>2. \A i \in 1 .. n : s[i] \in S
    BY <1>1, <2>1, ElementOfSeq
  <2>3. /\ SubSeq(s, 1, n) \in Seq(S)
        /\ Len(SubSeq(s, 1, n)) = IF 1 <= n THEN n - 1 + 1 ELSE 0
    BY <2>2, SubSeqProperties
  <2>4. (IF 1 <= n THEN n - 1 + 1 ELSE 0) = n
    BY <1>1, <2>1
  <2>. QED  BY <2>1, <2>3, <2>4
<1>4. Len(s) = 1 => Front(s) = <<>>
  <2>1. \A t \in Seq(S) : Len(t) = 0 => t = <<>>
    OBVIOUS
  <2>. QED  BY <1>2, <1>3, <2>1
<1>. QED  BY <1>1, <1>2, <1>3, <1>4

(* A directory that is not misleading is named by a single component. *)
LEMMA OneComponent ==
    ASSUME InADirectory, ~ Misleading, current_directory \in Seq(STRING)
    PROVE  Len(current_directory) = 1
<1>1. PICK i \in DOMAIN volume.root :
         current_entry = volume.root[i] /\ volume.root[i].kind = "dir"
  BY DEF InADirectory
<1>2. PICK n \in Names : n.parts = current_directory /\ n.padded = current_entry.name
  BY DEF InADirectory, Named
<1>3. ~ (Len(n.parts) > 1)
  BY <1>1, <1>2 DEF Misleading
<1>4. PICK l : l = Len(n.parts)
  OBVIOUS
<1>5. l \in Nat /\ l > 0 /\ ~ (l > 1)
  BY <1>3, <1>4, NamesAreTyped
<1>6. l = 1
  BY <1>5
<1>. QED  BY <1>2, <1>4, <1>6

LEMMA CdGoesUp ==
    ASSUME PlaceInv, NEW name \in Names, GoesUp(name), change_directory(name)
    PROVE  PlaceInv'
<1>. USE SizesAreNumbers
<1>. DEFINE d == current_directory
<1>1. /\ current_directory' = Front(d) /\ dir_depth' = dir_depth - 1
      /\ current_directory_offset' = root_directory_offset
      /\ volume' = volume /\ status' = status
      /\ d \in Seq(STRING) /\ Len(d) <= MaxPath
      /\ dir_depth \in Nat /\ dir_depth > 0 /\ dir_depth <= Len(d)
  BY DEF change_directory, ParentDirectory, GoesUp, PlaceInv
<1>2. /\ Front(d) \in Seq(STRING) /\ Len(d) \in Nat /\ Len(Front(d)) = Len(d) - 1
      /\ Len(d) = 1 => Front(d) = <<>>
  <2>1. Len(d) > 0
    <3>. HIDE DEF d
    <3>1. Len(d) \in Nat
      BY <1>1, LenProperties
    <3>. QED  BY <1>1, <3>1
  <2>. QED  BY <1>1, <2>1, FrontIs
<1>3. AtRoot'
  BY <1>1 DEF AtRoot, root_directory_offset
<1>4. Ambiguous \/ InADirectory
  BY <1>1 DEF PlaceInv, Located, InTheRoot
<1>5. ASSUME Ambiguous  PROVE Located'
  BY <1>1, <1>5, SameVolume DEF Located
<1>6. ASSUME InADirectory  PROVE Located'
  <2>1. dir_depth' = 0
    BY <1>1, <1>6 DEF InADirectory
  <2>2. Misleading \/ Len(d) = 1
    BY <1>1, <1>6, OneComponent
  <2>3. Misleading \/ current_directory' = <<>>
    <3>. HIDE DEF d
    <3>. QED  BY <1>1, <1>2, <2>2
  <2>. QED  BY <1>1, <1>3, <2>1, <2>3, SameVolume DEF Located, InTheRoot
<1>7. Located'
  BY <1>4, <1>5, <1>6
<1>. HIDE DEF d
<1>8. /\ current_directory' \in Seq(STRING) /\ Len(current_directory') <= MaxPath
      /\ dir_depth' \in Nat /\ dir_depth' <= Len(current_directory')
  BY <1>1, <1>2
<1>. QED  BY <1>1, <1>3, <1>7, <1>8 DEF PlaceInv, root_directory_offset

LEMMA CdEnters ==
    ASSUME PlaceInv, NEW name \in Names, AtRoot, Enter(name),
           volume' = volume, status' = status, ~ UNCHANGED cwd
    PROVE  PlaceInv'
<1>. USE SizesAreNumbers
<1>1. VolumeOK
  BY VolumesAreOK DEF PlaceInv
<1>2. PICK i \in DOMAIN volume.root :
         /\ volume.root[i].kind = "dir" /\ volume.root[i].name = name.padded
         /\ Len(current_directory \o name.parts) <= MaxPath
         /\ dir_depth' = dir_depth + 1
         /\ current_directory' = current_directory \o name.parts
         /\ current_directory_offset' = volume.root[i].cluster * SectorSlots
         /\ current_entry' = volume.root[i]
  BY <1>1, EntersADirectory
<1>3. volume.root[i].cluster \in Clusters
  BY <1>1, <1>2 DEF VolumeOK
<1>4. /\ current_directory' \in Seq(STRING) /\ Len(current_directory') <= MaxPath
      /\ dir_depth' \in Nat /\ dir_depth' <= Len(current_directory') /\ dir_depth' # 0
  <2>1. /\ name.parts \in Seq(STRING) /\ Len(name.parts) \in Nat /\ Len(name.parts) > 0
        /\ current_directory \in Seq(STRING) /\ Len(current_directory) \in Nat
        /\ dir_depth \in Nat /\ dir_depth <= Len(current_directory)
    BY NamesAreTyped DEF PlaceInv
  <2>2. /\ current_directory \o name.parts \in Seq(STRING)
        /\ Len(current_directory \o name.parts) =
               Len(current_directory) + Len(name.parts)
    BY <2>1, ConcatProperties
  <2>. QED  BY <1>2, <2>1, <2>2
<1>5. Located'
  <2>1. CASE Ambiguous
    BY <2>1, SameVolume DEF Located
  <2>2. CASE ~ Ambiguous
    <3>1. dir_depth = 0 /\ (Misleading \/ current_directory = <<>>)
      BY <2>2, RootIsRoot
    <3>2. Misleading \/ current_directory' = name.parts
      <4>1. name.parts \in Seq(STRING)
        BY NamesAreTyped
      <4>2. <<>> \o name.parts = name.parts
        BY <4>1
      <4>. QED  BY <1>2, <3>1, <4>2
    <3>3. Misleading' \/ Named(current_directory', current_entry')
      BY <1>2, <3>2, SameVolume DEF Named
    <3>. QED  BY <1>2, <3>1, <3>3 DEF Located, InADirectory, Named
  <2>. QED  BY <2>1, <2>2
<1>. QED  BY <1>2, <1>3, <1>4, <1>5 DEF PlaceInv, root_directory_offset

LEMMA OtherCommandsKeepPlace ==
    ASSUME PlaceInv, UNCHANGED <<volume, cwd>>,
           status' \in {"prompt", "exit", "overrun"}
    PROVE  PlaceInv'
BY SameVolume
   DEF PlaceInv, Located, InTheRoot, InADirectory, Named, AtRoot, cwd,
       root_directory_offset

LEMMA CdKeepsPlace ==
    ASSUME PlaceInv, NEW name \in Names, change_directory(name)
    PROVE  PlaceInv'
<1>1. volume' = volume /\ status' = status
  BY DEF change_directory
<1>2. CASE GoesUp(name)
  BY <1>2, CdGoesUp
<1>3. CASE UNCHANGED cwd
  BY <1>1, <1>3, OtherCommandsKeepPlace DEF PlaceInv
<1>4. CASE AtRoot /\ Enter(name) /\ ~ UNCHANGED cwd
  BY <1>1, <1>4, CdEnters
<1>. QED  BY <1>2, <1>3, <1>4 DEF change_directory

LEMMA PlaceInvIsInductive ==
    ASSUME PlaceInv, [Next]_vars
    PROVE  PlaceInv'
<1>1. CASE UNCHANGED vars
  BY <1>1, OtherCommandsKeepPlace DEF vars, PlaceInv
<1>2. ASSUME NEW name \in Names, read(name)
      PROVE  PlaceInv'
  BY <1>2, OtherCommandsKeepPlace DEF read, PlaceInv
<1>3. CASE list_files \/ print_tree
  <2>1. PICK command, lines : Show(command, lines)
    BY <1>3 DEF list_files, print_tree
  <2>. QED  BY <2>1, OtherCommandsKeepPlace DEF Show, PlaceInv
<1>4. CASE exit
  BY <1>4, OtherCommandsKeepPlace DEF exit
<1>. QED
  BY <1>1, <1>2, <1>3, <1>4, CdKeepsPlace DEF Next

LEMMA PlaceInvAlways == Spec => []PlaceInv
<1>1. Init => PlaceInv
  BY SizesAreNumbers DEF Init, PlaceInv, Located, InTheRoot, AtRoot
<1>. QED  BY <1>1, PlaceInvIsInductive, PTL DEF Spec

(* The depth change_directory counts is never negative and stays within the
   bound of the prompt, and the offset is that of the root directory or of a
   data cluster. *)
THEOREM FatTypeCorrect == Spec => []FatTypeOK
<1>1. PlaceInv => FatTypeOK
  BY SizesAreNumbers DEF PlaceInv, FatTypeOK
<1>. QED  BY <1>1, PlaceInvAlways, PTL

(* After any sequence of cd commands depth, offset, current_entry and prompt
   agree: ".." never cuts off "/root"; on a volume on which no directory can be
   taken for the root, the shell is in the root or one level below it, where
   current_entry says; and the prompt is true if moreover no directory can be
   entered with a name that has a slash. *)
THEOREM PromptIsAlwaysTrue == Spec => []PromptIsTrue
<1>1. PlaceInv => PromptIsTrue
  BY DEF PlaceInv, Located, InTheRoot, InADirectory, PromptIsTrue
<1>. QED  BY <1>1, PlaceInvAlways, PTL

-------------------------------------------------------------------------------
(* The chain of a file *)

(* The recursive function in ClusterAfter. *)
Chain(c, n) ==
    CHOOSE At : At = [k \in 0 .. n |->
        IF k = 0 THEN c
        ELSE IF At[k - 1] \in Clusters THEN volume.fat[At[k - 1]] ELSE 0]

LEMMA AfterIsChain ==
    \A c, n : ClusterAfter(c, n) =
                  IF Chain(c, n)[n] \in Clusters THEN Chain(c, n)[n] ELSE 0
BY DEF ClusterAfter, Chain

LEMMA ChainIsDefined ==
    ASSUME NEW c, NEW n \in Nat
    PROVE  Chain(c, n) = [k \in 0 .. n |->
               IF k = 0 THEN c
               ELSE IF Chain(c, n)[k - 1] \in Clusters
                    THEN volume.fat[Chain(c, n)[k - 1]] ELSE 0]
<1>. DEFINE Value(F, k) ==
                IF k = 0 THEN c
                ELSE IF F[k - 1] \in Clusters THEN volume.fat[F[k - 1]] ELSE 0
            Fits(F, m) == F = [k \in 0 .. m |-> Value(F, k)]
            D == {m \in Nat : \E F : Fits(F, m)}
<1>1. 0 \in D
  <2>. DEFINE F == [k \in 0 .. 0 |-> c]
  <2>1. Fits(F, 0)
    OBVIOUS
  <2>. QED  BY <2>1
<1>2. ASSUME NEW m \in Nat, m \in D  PROVE m + 1 \in D
  <2>1. PICK F : Fits(F, m)
    BY <1>2
  <2>. DEFINE G == [k \in 0 .. m + 1 |-> IF k = m + 1 THEN Value(F, k) ELSE F[k]]
  <2>2. ASSUME NEW k \in 0 .. m + 1  PROVE G[k] = Value(G, k)
    <3>1. CASE k = 0
      BY <2>1, <3>1
    <3>2. CASE k \in 1 .. m
      <4>1. k - 1 \in 0 .. m /\ k \in 0 .. m /\ k # m + 1 /\ k - 1 # m + 1
            /\ k - 1 \in 0 .. m + 1
        BY <3>2
      <4>2. G[k] = F[k] /\ G[k - 1] = F[k - 1]
        BY <4>1
      <4>3. F[k] = Value(F, k)
        BY <2>1, <4>1
      <4>. QED  BY <4>2, <4>3
    <3>3. CASE k = m + 1
      <4>1. m \in 0 .. m + 1 /\ m # m + 1 /\ k - 1 = m /\ k # 0
        BY <3>3
      <4>2. G[k] = Value(F, k) /\ G[k - 1] = F[k - 1]
        BY <3>3, <4>1
      <4>. QED  BY <4>2
    <3>. QED  BY <3>1, <3>2, <3>3
  <2>3. Fits(G, m + 1)
    <3>1. G = [k \in 0 .. m + 1 |-> G[k]]
      OBVIOUS
    <3>. HIDE DEF G
    <3>. QED  BY <2>2, <3>1
  <2>. HIDE DEF G, Fits
  <2>. QED  BY <2>3
<1>3. n \in D
  <2>. HIDE DEF D
  <2>. QED  BY <1>1, <1>2, Induction
<1>. QED  BY <1>3 DEF Chain

LEMMA ChainSteps ==
    ASSUME NEW c, NEW n \in Nat
    PROVE  /\ Chain(c, n)[0] = c
           /\ \A k \in 0 .. n - 1 :
                 Chain(c, n)[k + 1] = IF Chain(c, n)[k] \in Clusters
                                      THEN volume.fat[Chain(c, n)[k]] ELSE 0
<1>. DEFINE F == Chain(c, n)
<1>1. F = [k \in 0 .. n |->
              IF k = 0 THEN c
              ELSE IF F[k - 1] \in Clusters THEN volume.fat[F[k - 1]] ELSE 0]
  BY ChainIsDefined
<1>. HIDE DEF F
<1>2. F[0] = c
  BY <1>1
<1>3. ASSUME NEW k \in 0 .. n - 1
      PROVE  F[k + 1] = IF F[k] \in Clusters THEN volume.fat[F[k]] ELSE 0
  <2>1. k + 1 \in 0 .. n /\ k + 1 # 0 /\ (k + 1) - 1 = k
    OBVIOUS
  <2>2. F[k + 1] = IF F[(k + 1) - 1] \in Clusters
                   THEN volume.fat[F[(k + 1) - 1]] ELSE 0
    BY <1>1, <2>1
  <2>. QED  BY <2>1, <2>2
<1>. QED  BY <1>2, <1>3 DEF F

(* Where the chain of a file goes on. *)
LEMMA AfterFirst ==
    ASSUME NEW c, NEW n \in Nat
    PROVE  /\ c \in Clusters => /\ ClusterAfter(c, 0) = c
                                /\ ClusterAfter(c, n + 1) =
                                      ClusterAfter(volume.fat[c], n)
           /\ c \notin Clusters => ClusterAfter(c, n) = 0
<1>0. 0 \notin Clusters
  BY SizesAreNumbers
<1>1. ASSUME c \in Clusters
      PROVE  ClusterAfter(c, n + 1) = ClusterAfter(volume.fat[c], n)
  <2>. DEFINE F == Chain(c, n + 1)
              G == Chain(volume.fat[c], n)
              D == {k \in Nat : k <= n => F[k + 1] = G[k]}
  <2>1. /\ F[0] = c
        /\ \A k \in 0 .. n :
              F[k + 1] = IF F[k] \in Clusters THEN volume.fat[F[k]] ELSE 0
    <3>. DEFINE m == n + 1
    <3>1. m \in Nat /\ 0 .. m - 1 = 0 .. n
      OBVIOUS
    <3>. HIDE DEF m
    <3>2. /\ Chain(c, m)[0] = c
          /\ \A k \in 0 .. m - 1 :
                Chain(c, m)[k + 1] = IF Chain(c, m)[k] \in Clusters
                                     THEN volume.fat[Chain(c, m)[k]] ELSE 0
      BY <3>1, ChainSteps
    <3>. QED  BY <3>1, <3>2 DEF m
  <2>2. /\ G[0] = volume.fat[c]
        /\ \A k \in 0 .. n - 1 :
              G[k + 1] = IF G[k] \in Clusters THEN volume.fat[G[k]] ELSE 0
    BY ChainSteps
  <2>. HIDE DEF F, G
  <2>3. 0 \in D
    <3>1. F[0 + 1] = volume.fat[c]
      BY <1>1, <2>1
    <3>. QED  BY <2>2, <3>1
  <2>4. ASSUME NEW k \in Nat, k \in D  PROVE k + 1 \in D
    <3>. SUFFICES ASSUME k + 1 <= n  PROVE F[(k + 1) + 1] = G[k + 1]
      OBVIOUS
    <3>1. k \in 0 .. n - 1 /\ k + 1 \in 0 .. n /\ k <= n
      OBVIOUS
    <3>2. F[k + 1] = G[k]
      BY <2>4, <3>1
    <3>3. F[(k + 1) + 1] = IF F[k + 1] \in Clusters THEN volume.fat[F[k + 1]] ELSE 0
      BY <2>1, <3>1
    <3>. QED  BY <2>2, <3>1, <3>2, <3>3
  <2>5. n \in D
    <3>. HIDE DEF D
    <3>. QED  BY <2>3, <2>4, Induction
  <2>6. F[n + 1] = G[n]
    BY <2>5
  <2>. QED  BY <2>6, AfterIsChain DEF F, G
<1>2. ASSUME c \in Clusters  PROVE ClusterAfter(c, 0) = c
  BY <1>2, AfterIsChain, ChainSteps
<1>3. ASSUME c \notin Clusters  PROVE ClusterAfter(c, n) = 0
  <2>. DEFINE F == Chain(c, n)
              D == {k \in Nat : k <= n => F[k] \notin Clusters}
  <2>1. /\ F[0] = c
        /\ \A k \in 0 .. n - 1 :
              F[k + 1] = IF F[k] \in Clusters THEN volume.fat[F[k]] ELSE 0
    BY ChainSteps
  <2>. HIDE DEF F
  <2>2. 0 \in D
    BY <1>3, <2>1
  <2>3. ASSUME NEW k \in Nat, k \in D  PROVE k + 1 \in D
    <3>. SUFFICES ASSUME k + 1 <= n  PROVE F[k + 1] \notin Clusters
      OBVIOUS
    <3>1. k \in 0 .. n - 1 /\ k <= n
      OBVIOUS
    <3>2. F[k] \notin Clusters
      BY <2>3, <3>1
    <3>. QED  BY <1>0, <2>1, <3>1, <3>2
  <2>4. n \in D
    <3>. HIDE DEF D
    <3>. QED  BY <2>2, <2>3, Induction
  <2>. QED  BY <2>4, AfterIsChain DEF F
<1>. QED  BY <1>1, <1>2, <1>3

-------------------------------------------------------------------------------
(* The loop of read *)

(* What the loop delivers for left bytes from cluster c on, if deliver says
   what it delivers for fewer. *)
Delivered(deliver, left, c) ==
    IF c \notin Clusters \/ left = 0
    THEN [i \in 1 .. left |-> Uninitialised]
    ELSE LET to_read == IF left > ClusterBytes THEN ClusterBytes ELSE left
         IN  [i \in 1 .. to_read |-> <<c, i - 1>>]
             \o deliver[left - to_read][volume.fat[c]]

(* The recursive function in ReadLoop. *)
Loop(size) ==
    CHOOSE F : F = [left \in 0 .. size |-> [c \in Nat |-> Delivered(F, left, c)]]

LEMMA ReadIsLoop == \A c, size : ReadLoop(c, size) = Loop(size)[size][c]
BY DEF ReadLoop, Loop, Delivered

(* It asks only for fewer bytes. *)
LEMMA DeliveredAgree ==
    ASSUME NEW F, NEW G, NEW left \in Nat, NEW c,
           \A m \in 0 .. left - 1 : F[m] = G[m]
    PROVE  Delivered(F, left, c) = Delivered(G, left, c)
<1>. DEFINE to_read == IF left > ClusterBytes THEN ClusterBytes ELSE left
<1>1. CASE c \notin Clusters \/ left = 0
  BY <1>1 DEF Delivered
<1>2. CASE ~ (c \notin Clusters \/ left = 0)
  <2>1. left - to_read \in 0 .. left - 1
    BY <1>2, SizesAreNumbers
  <2>2. F[left - to_read] = G[left - to_read]
    BY <2>1
  <2>. QED  BY <2>2 DEF Delivered
<1>. QED  BY <1>1, <1>2

LEMMA LoopIsDefined ==
    ASSUME NEW size \in Nat
    PROVE  \A left \in 0 .. size : \A c \in Nat :
              Loop(size)[left][c] = Delivered(Loop(size), left, c)
<1>. DEFINE Fits(F, m) ==
                F = [left \in 0 .. m |-> [c \in Nat |-> Delivered(F, left, c)]]
            D == {m \in Nat : \E F : Fits(F, m)}
<1>1. 0 \in D
  <2>. DEFINE F == [left \in 0 .. 0 |-> [c \in Nat |-> [i \in 1 .. 0 |-> Uninitialised]]]
  <2>1. ASSUME NEW left \in 0 .. 0, NEW c \in Nat
        PROVE  Delivered(F, left, c) = [i \in 1 .. 0 |-> Uninitialised]
    BY DEF Delivered
  <2>2. F = [left \in 0 .. 0 |-> [c \in Nat |-> Delivered(F, left, c)]]
    <3>1. [left \in 0 .. 0 |-> [c \in Nat |-> Delivered(F, left, c)]]
          = [left \in 0 .. 0 |-> [c \in Nat |-> [i \in 1 .. 0 |-> Uninitialised]]]
      BY <2>1
    <3>. QED  BY <3>1
  <2>. HIDE DEF F
  <2>. QED  BY <2>2
<1>2. ASSUME NEW m \in Nat, m \in D  PROVE m + 1 \in D
  <2>1. PICK F : Fits(F, m)
    BY <1>2
  <2>. DEFINE V == [c \in Nat |-> Delivered(F, m + 1, c)]
              G == [left \in 0 .. m + 1 |-> IF left = m + 1 THEN V ELSE F[left]]
  <2>2. \A left \in 0 .. m : G[left] = F[left]
    <3>1. \A left \in 0 .. m : left \in 0 .. m + 1 /\ left # m + 1
      OBVIOUS
    <3>. QED  BY <3>1
  <2>3. G[m + 1] = V
    OBVIOUS
  <2>4. G = [left \in 0 .. m + 1 |-> G[left]]
    OBVIOUS
  <2>. HIDE DEF G
  <2>5. ASSUME NEW left \in 0 .. m + 1, NEW c
        PROVE  Delivered(F, left, c) = Delivered(G, left, c)
    <3>1. left \in Nat /\ \A k \in 0 .. left - 1 : k \in 0 .. m
      OBVIOUS
    <3>2. \A k \in 0 .. left - 1 : F[k] = G[k]
      BY <2>2, <3>1
    <3>. QED  BY <3>1, <3>2, DeliveredAgree
  <2>6. ASSUME NEW left \in 0 .. m + 1
        PROVE  G[left] = [c \in Nat |-> Delivered(G, left, c)]
    <3>1. [c \in Nat |-> Delivered(F, left, c)] = [c \in Nat |-> Delivered(G, left, c)]
      BY <2>5
    <3>2. CASE left = m + 1
      BY <2>3, <3>1, <3>2
    <3>3. CASE left \in 0 .. m
      <4>1. F[left] = [c \in Nat |-> Delivered(F, left, c)]
        BY <2>1, <3>3
      <4>. QED  BY <2>2, <3>1, <3>3, <4>1
    <3>4. left = m + 1 \/ left \in 0 .. m
      OBVIOUS
    <3>. QED  BY <3>2, <3>3, <3>4
  <2>7. Fits(G, m + 1)
    BY <2>4, <2>6
  <2>. HIDE DEF Fits
  <2>. QED  BY <2>7
<1>3. size \in D
  <2>. HIDE DEF D
  <2>. QED  BY <1>1, <1>2, Induction
<1>4. Fits(Loop(size), size)
  BY <1>3 DEF Loop
<1>. DEFINE L == Loop(size)
<1>. HIDE DEF L
<1>5. L = [left \in 0 .. size |-> [c \in Nat |-> Delivered(L, left, c)]]
  BY <1>4 DEF L
<1>6. \A left \in 0 .. size : L[left] = [c \in Nat |-> Delivered(L, left, c)]
  BY <1>5
<1>7. \A left \in 0 .. size : \A c \in Nat : L[left][c] = Delivered(L, left, c)
  BY <1>6
<1>. QED  BY <1>7 DEF L

(* Byte b of the file that starts with cluster c. *)
ByteOf(c, b) ==
    LET d == ClusterAfter(c, b \div ClusterBytes)
    IN  IF d = 0 THEN Uninitialised ELSE <<d, b % ClusterBytes>>

Bytes == Nat \X Nat

Reads(s, c, left) ==
    /\ s \in Seq(Bytes) /\ Len(s) = left
    /\ \A b \in 0 .. left - 1 : s[b + 1] = ByteOf(c, b)

LEMMA NothingIsRead ==
    ASSUME NEW c \in Nat, NEW left \in Nat, c \notin Clusters \/ left = 0
    PROVE  Reads([i \in 1 .. left |-> Uninitialised], c, left)
<1>. DEFINE s == [i \in 1 .. left |-> Uninitialised]
<1>1. s \in Seq(Bytes) /\ Len(s) = left /\ \A i \in 1 .. left : s[i] = Uninitialised
  BY DEF Uninitialised, Bytes
<1>. HIDE DEF s
<1>2. ASSUME NEW b \in 0 .. left - 1  PROVE s[b + 1] = ByteOf(c, b)
  <2>1. c \notin Clusters /\ b + 1 \in 1 .. left /\ b \in Nat
    OBVIOUS
  <2>2. b \div ClusterBytes \in Nat
    BY <2>1, SizesAreNumbers
  <2>3. ClusterAfter(c, b \div ClusterBytes) = 0
    BY <2>1, <2>2, AfterFirst
  <2>. QED  BY <1>1, <2>1, <2>3 DEF ByteOf
<1>. QED  BY <1>1, <1>2 DEF Reads, s

(* One cluster, or what is missing of it, and the rest of the chain. *)
LEMMA ClusterIsRead ==
    ASSUME NEW c \in Clusters, NEW left \in Nat \ {0}, NEW n \in 1 .. left,
           n <= ClusterBytes, n = ClusterBytes \/ n = left,
           volume.fat[c] \in Nat, NEW s, Reads(s, volume.fat[c], left - n)
    PROVE  Reads([i \in 1 .. n |-> <<c, i - 1>>] \o s, c, left)
<1>. DEFINE h == [i \in 1 .. n |-> <<c, i - 1>>]
            t == h \o s
            next == volume.fat[c]
<1>0. c \in Nat \ {0} /\ ClusterBytes \in Nat \ {0}
  BY SizesAreNumbers
<1>1. /\ h \in Seq(Bytes) /\ Len(h) = n
      /\ \A i \in 1 .. n : h[i] = <<c, i - 1>>
  <2>1. \A i \in 1 .. n : <<c, i - 1>> \in Bytes
    BY <1>0 DEF Bytes
  <2>. QED  BY <2>1
<1>2. /\ s \in Seq(Bytes) /\ Len(s) = left - n
      /\ \A b \in 0 .. (left - n) - 1 : s[b + 1] = ByteOf(next, b)
  BY DEF Reads
<1>. HIDE DEF h, next
<1>3. /\ t \in Seq(Bytes) /\ Len(t) = left
      /\ \A i \in 1 .. left : t[i] = IF i <= n THEN h[i] ELSE s[i - n]
  <2>1. t \in Seq(Bytes)
    BY <1>1, <1>2
  <2>2. Len(t) = Len(h) + Len(s) /\ Len(h) + Len(s) = left
    <3>1. Len(t) = Len(h) + Len(s)
      BY <1>1, <1>2, ConcatProperties
    <3>. HIDE DEF t
    <3>2. n + (left - n) = left
      OBVIOUS
    <3>. QED  BY <1>1, <1>2, <3>1, <3>2
  <2>3. \A i \in 1 .. Len(h) + Len(s) :
           t[i] = IF i <= Len(h) THEN h[i] ELSE s[i - Len(h)]
    BY <1>1, <1>2, ConcatProperties
  <2>. HIDE DEF t
  <2>. QED  BY <1>1, <2>1, <2>2, <2>3
<1>. HIDE DEF t
<1>4. ASSUME NEW b \in 0 .. left - 1  PROVE t[b + 1] = ByteOf(c, b)
  <2>0. b + 1 \in 1 .. left /\ b \in Nat
    OBVIOUS
  <2>1. CASE b < n
    <3>1. b \in 0 .. ClusterBytes - 1 /\ b + 1 \in 1 .. n /\ b + 1 <= n
      BY <1>0, <2>1
    <3>2. b \div ClusterBytes = 0 /\ b % ClusterBytes = b
      BY <1>0, <3>1, FirstCluster
    <3>3. ClusterAfter(c, 0) = c
      BY AfterFirst
    <3>4. ByteOf(c, b) = <<c, b>>
      BY <1>0, <3>2, <3>3 DEF ByteOf
    <3>5. t[b + 1] = <<c, (b + 1) - 1>> /\ (b + 1) - 1 = b
      BY <1>1, <1>3, <2>0, <3>1
    <3>. QED  BY <3>4, <3>5
  <2>2. CASE ~ (b < n)
    <3>. DEFINE d == b - n
    <3>1. /\ n = ClusterBytes /\ b >= ClusterBytes /\ d \in 0 .. (left - n) - 1
          /\ ~ (b + 1 <= n) /\ (b + 1) - n = d + 1
      BY <1>0, <2>2
    <3>2. t[b + 1] = s[d + 1]
      BY <1>3, <2>0, <3>1
    <3>. HIDE DEF d
    <3>3. s[d + 1] = ByteOf(next, d)
      BY <1>2, <3>1
    <3>4. /\ d \div ClusterBytes \in Nat
          /\ b \div ClusterBytes = d \div ClusterBytes + 1
          /\ b % ClusterBytes = d % ClusterBytes
      BY <1>0, <2>0, <3>1, NextCluster DEF d
    <3>5. ClusterAfter(c, b \div ClusterBytes) =
              ClusterAfter(next, d \div ClusterBytes)
      <4>1. \A k \in Nat : ClusterAfter(c, k + 1) = ClusterAfter(volume.fat[c], k)
        BY AfterFirst
      <4>. QED  BY <3>4, <4>1 DEF next
    <3>. QED  BY <3>2, <3>3, <3>4, <3>5 DEF ByteOf
  <2>. QED  BY <2>1, <2>2
<1>. QED  BY <1>3, <1>4 DEF Reads, t, h

LEMMA LoopReads ==
    ASSUME VolumeOK, NEW size \in Nat, NEW c \in Nat
    PROVE  Reads(ReadLoop(c, size), c, size)
<1>. DEFINE L == Loop(size)
            D == {m \in Nat : \A left \in 0 .. size :
                     left <= m => \A d \in Nat : Reads(L[left][d], d, left)}
<1>1. \A left \in 0 .. size : \A d \in Nat : L[left][d] = Delivered(L, left, d)
  BY LoopIsDefined
<1>. HIDE DEF L
<1>2. ASSUME NEW left \in 0 .. size, NEW d \in Nat,
             \A m \in 0 .. left - 1 : \A e \in Nat : Reads(L[m][e], e, m)
      PROVE  Reads(L[left][d], d, left)
  <2>0. left \in Nat
    OBVIOUS
  <2>1. CASE d \notin Clusters \/ left = 0
    <3>1. L[left][d] = [i \in 1 .. left |-> Uninitialised]
      BY <1>1, <2>1 DEF Delivered
    <3>. QED  BY <2>0, <2>1, <3>1, NothingIsRead
  <2>2. CASE ~ (d \notin Clusters \/ left = 0)
    <3>. DEFINE n == IF left > ClusterBytes THEN ClusterBytes ELSE left
    <3>1. L[left][d] = [i \in 1 .. n |-> <<d, i - 1>>]
                       \o L[left - n][volume.fat[d]]
      BY <1>1, <2>2 DEF Delivered
    <3>2. /\ n \in 1 .. left /\ n <= ClusterBytes /\ (n = ClusterBytes \/ n = left)
          /\ left \in Nat \ {0} /\ d \in Clusters /\ left - n \in 0 .. left - 1
      BY <2>2, SizesAreNumbers
    <3>3. volume.fat[d] \in Nat
      BY <3>2 DEF VolumeOK
    <3>. HIDE DEF n
    <3>4. Reads(L[left - n][volume.fat[d]], volume.fat[d], left - n)
      BY <1>2, <3>2, <3>3
    <3>. QED  BY <3>1, <3>2, <3>3, <3>4, ClusterIsRead
  <2>. QED  BY <2>1, <2>2
<1>3. 0 \in D
  <2>1. \A left \in 0 .. size : left <= 0 => \A m \in 0 .. left - 1 : FALSE
    OBVIOUS
  <2>. QED  BY <1>2, <2>1
<1>4. ASSUME NEW m \in Nat, m \in D  PROVE m + 1 \in D
  <2>. SUFFICES ASSUME NEW left \in 0 .. size, left <= m + 1, NEW d \in Nat
                PROVE  Reads(L[left][d], d, left)
    OBVIOUS
  <2>1. \A k \in 0 .. left - 1 : k \in 0 .. size /\ k <= m
    OBVIOUS
  <2>2. \A k \in 0 .. left - 1 : \A e \in Nat : Reads(L[k][e], e, k)
    BY <1>4, <2>1
  <2>. QED  BY <1>2, <2>2
<1>5. size \in D
  <2>. HIDE DEF D
  <2>. QED  BY <1>3, <1>4, Induction
<1>6. Reads(L[size][c], c, size)
  <2>1. size \in 0 .. size /\ size <= size
    OBVIOUS
  <2>. QED  BY <1>5, <2>1
<1>. QED  BY <1>6, ReadIsLoop DEF L

-------------------------------------------------------------------------------
(* What read prints *)

(* The file f, or End for no file, answers the last command. *)
Answers(f) ==
    /\ f \in {e \in ToSet(volume.root) : Matches(e, reply.name)} \cup {End}
    /\ f = End => \A e \in ToSet(BeforeEnd(volume.root)) : ~Matches(e, reply.name)
    /\ Len(reply.printed) = f.size
    /\ \A b \in 0 .. f.size - 1 : reply.printed[b + 1] = ByteOf(f.cluster, b)

LEMMA ReadMeans ==
    ReadIsExact <=> (reply.command = "read" /\ reply.dir = <<>> => \E f : Answers(f))
BY DEF ReadIsExact, Answers, ByteOf

LEMMA ReadPrintsTheFile ==
    ASSUME PlaceInv, NEW name, read(name)
    PROVE  ReadIsExact'
<1>. USE SizesAreNumbers
<1>0. VolumeOK /\ volume' = volume
  BY VolumesAreOK DEF PlaceInv, read
<1>. SUFFICES ASSUME current_directory = <<>>
              PROVE  \E f : Answers(f)'
  <2>1. (ReadIsExact <=> (reply.command = "read" /\ reply.dir = <<>> =>
                             \E f : Answers(f)))'
    BY ReadMeans, PTL
  <2>2. reply'.dir = current_directory
    BY DEF read, Reply
  <2>. QED  BY <2>1, <2>2
<1>7. \A c, n : ClusterAfter(c, n)' = ClusterAfter(c, n)
  BY <1>0 DEF ClusterAfter
<1>. DEFINE s == BeforeEnd(RootScan)
            I == {i \in 1 .. Len(s) : Matches(s[i], name)}
            first == IF I # {} THEN Min(I) ELSE 0
            bytes == IF name.file = <<>> \/ first = 0 THEN <<>>
                     ELSE ReadLoop(s[first].cluster, s[first].size)
            root == volume.root
<1>1. reply' = Reply("read", name, <<>>, bytes)
  <2>1. AtRoot
    BY BarePromptIsRoot
  <2>. QED  BY <2>1 DEF read, SelectInSeq, RootScan
<1>2. PICK m \in 0 .. RootSlots :
         /\ Len(s) = m
         /\ \A i \in 1 .. m : s[i] = RootScan[i] /\ RootScan[i] # End
         /\ m < RootSlots => RootScan[m + 1] = End
  <2>1. RootSlots \in Nat /\ DOMAIN RootScan = 1 .. RootSlots
        /\ Len(RootScan) = RootSlots
    BY <1>0, RootScanned
  <2>. QED  BY <2>1, BeforeEndIs
<1>3. /\ DOMAIN root \subseteq 1 .. RootSlots
      /\ \A i \in 1 .. RootSlots :
            RootScan[i] = IF i \in DOMAIN root THEN root[i] ELSE End
  BY <1>0, RootScanned
<1>. HIDE DEF s
<1>4. \A i \in 1 .. m : i \in DOMAIN root /\ s[i] = root[i]
  BY <1>2, <1>3
<1>5. CASE first # 0
  <2>1. first \in I
    <3>1. I # {} /\ I \subseteq Nat
      BY <1>5
    <3>. HIDE DEF I
    <3>. QED  BY <1>5, <3>1, SmallestOfSome
  <2>2. first \in 1 .. m /\ Matches(s[first], name)
    BY <1>2, <2>1
  <2>. HIDE DEF first
  <2>0. PICK f : f = s[first]
    OBVIOUS
  <2>3. /\ first \in DOMAIN root /\ f = root[first]
        /\ f \in ToSet(root) /\ Matches(f, name)
    BY <1>4, <2>0, <2>2 DEF ToSet
  <2>4. f.cluster \in Nat /\ f.size \in Nat /\ f # End
    <3>1. f # End
      BY <1>2, <2>0, <2>2
    <3>. QED  BY <1>0, <2>3, <3>1 DEF VolumeOK
  <2>5. bytes = ReadLoop(f.cluster, f.size)
    <3>1. <<f.name, f.ext>> # <<>>
      OBVIOUS
    <3>. QED  BY <1>5, <2>0, <2>3, <3>1 DEF Matches
  <2>6. Reads(bytes, f.cluster, f.size)
    BY <1>0, <2>4, <2>5, LoopReads
  <2>7. /\ Len(bytes) = f.size
        /\ \A b \in 0 .. f.size - 1 : bytes[b + 1] = ByteOf(f.cluster, b)
    BY <2>6 DEF Reads
  <2>. HIDE DEF bytes
  <2>8. reply'.name = name /\ reply'.printed = bytes
    BY <1>1 DEF Reply
  <2>9. Answers(f)'
    <3>1. \A b : ByteOf(f.cluster, b)' = ByteOf(f.cluster, b)
      BY <1>7 DEF ByteOf
    <3>2. f \in {e \in ToSet(volume'.root) : Matches(e, reply'.name)}
      BY <1>0, <2>3, <2>8
    <3>3. /\ Len(reply'.printed) = f.size
          /\ \A b \in 0 .. f.size - 1 : reply'.printed[b + 1] = ByteOf(f.cluster, b)'
      BY <2>7, <2>8, <3>1
    <3>. QED  BY <2>4, <3>2, <3>3 DEF Answers
  <2>. QED  BY <2>9
<1>6. CASE first = 0
  <2>1. I = {}
    <3>1. I \subseteq Nat /\ 0 \notin I
      OBVIOUS
    <3>. HIDE DEF I
    <3>. QED  BY <1>6, <3>1, SmallestOfSome
  <2>2. bytes = <<>>
    BY <1>6
  <2>3. \A e \in ToSet(BeforeEnd(root)) : ~Matches(e, name)
    <3>1. PICK n \in 0 .. RootSlots : DOMAIN root = 1 .. n
      BY <1>0 DEF VolumeOK
    <3>2. n \in Nat /\ Len(root) = n
      BY <3>1
    <3>3. PICK k \in 0 .. n :
             /\ DOMAIN BeforeEnd(root) = 1 .. k
             /\ \A i \in 1 .. k : BeforeEnd(root)[i] = root[i] /\ root[i] # End
      BY <3>1, <3>2, BeforeEndIs
    <3>4. k <= m
      <4>1. SUFFICES ASSUME m < k  PROVE FALSE
        OBVIOUS
      <4>2. m + 1 \in 1 .. k /\ m + 1 \in DOMAIN root /\ m < RootSlots
            /\ m + 1 \in 1 .. RootSlots
        BY <3>1, <4>1
      <4>. QED  BY <1>2, <1>3, <3>3, <4>2
    <3>5. \A i \in 1 .. k : i \in 1 .. m /\ BeforeEnd(root)[i] = s[i]
      BY <1>4, <3>3, <3>4
    <3>6. \A i \in 1 .. m : ~Matches(s[i], name)
      BY <1>2, <2>1
    <3>. QED  BY <3>3, <3>5, <3>6 DEF ToSet
  <2>4. Len(bytes) = End.size /\ \A b \in 0 .. End.size - 1 : FALSE
    BY <2>2 DEF End
  <2>. HIDE DEF bytes
  <2>5. reply'.name = name /\ reply'.printed = bytes
    BY <1>1 DEF Reply
  <2>6. Answers(End)'
    BY <1>0, <2>3, <2>4, <2>5 DEF Answers
  <2>. QED  BY <2>6
<1>. QED  BY <1>5, <1>6

(* In the root directory read prints the bytes of the file, each from the
   cluster the FAT chains it to, and nothing if there is no such file. *)
THEOREM ReadIsAlwaysExact == Spec => []ReadIsExact
<1>1. Init => ReadIsExact
  <2>1. NoReply.command # "read"
    BY DEF NoReply, Reply
  <2>. QED  BY <2>1 DEF Init, ReadIsExact
<1>2. ASSUME PlaceInv, ReadIsExact, [Next]_vars
      PROVE  ReadIsExact'
  <2>1. CASE UNCHANGED <<volume, reply>>
    <3>1. (ReadIsExact <=> (reply.command = "read" /\ reply.dir = <<>> =>
                               \E f : Answers(f)))'
      BY ReadMeans, PTL
    <3>2. \A c, n : ClusterAfter(c, n)' = ClusterAfter(c, n)
      BY <2>1 DEF ClusterAfter
    <3>3. \A f : Answers(f)' = Answers(f)
      BY <2>1, <3>2 DEF Answers, ByteOf
    <3>. QED  BY <1>2, <2>1, <3>1, <3>3, ReadMeans
  <2>2. CASE volume' = volume /\ reply'.command # "read"
    BY <2>2 DEF ReadIsExact
  <2>3. ASSUME NEW command \in {"ls", "tree"}, NEW lines, Show(command, lines)
        PROVE  ReadIsExact'
    <3>1. /\ volume' = volume
          /\ reply' = reply \/ reply' = Reply(command, "", current_directory, lines)
      BY <2>3 DEF Show
    <3>2. Reply(command, "", current_directory, lines).command # "read"
      BY DEF Reply
    <3>. QED  BY <2>1, <2>2, <3>1, <3>2
  <2>4. CASE list_files \/ print_tree
    BY <2>3, <2>4 DEF list_files, print_tree
  <2>5. ASSUME NEW name, change_directory(name)
        PROVE  ReadIsExact'
    BY <2>2, <2>5 DEF change_directory, NoReply, Reply
  <2>6. CASE exit
    BY <2>2, <2>6 DEF exit, NoReply, Reply
  <2>7. CASE UNCHANGED vars
    BY <2>1, <2>7 DEF vars
  <2>. QED
    BY <1>2, <2>4, <2>5, <2>6, <2>7, ReadPrintsTheFile DEF Next
<1>. QED  BY <1>1, <1>2, PlaceInvAlways, PTL DEF Spec

-------------------------------------------------------------------------------
(* What stands at some places of a sequence *)

(* The recursive function in Chosen. *)
ChosenUpTo(s, places) ==
    CHOOSE F : F = [n \in 0 .. Len(s) |->
        IF n = 0 THEN <<>>
        ELSE IF n \in places THEN Append(F[n - 1], s[n]) ELSE F[n - 1]]

LEMMA ChosenIs == \A s, places : Chosen(s, places) = ChosenUpTo(s, places)[Len(s)]
BY DEF Chosen, ChosenUpTo

LEMMA ChosenSteps ==
    ASSUME NEW S, NEW s \in Seq(S), NEW places
    PROVE  /\ ChosenUpTo(s, places)[0] = <<>>
           /\ \A n \in 1 .. Len(s) :
                 ChosenUpTo(s, places)[n] =
                     IF n \in places THEN Append(ChosenUpTo(s, places)[n - 1], s[n])
                     ELSE ChosenUpTo(s, places)[n - 1]
           /\ \A n \in 0 .. Len(s) : ChosenUpTo(s, places)[n] \in Seq(S)
<1>. DEFINE V == Seq(S)
            len == Len(s)
            Step(n, v) == IF n \in places THEN Append(v, s[n]) ELSE v
            step == [p \in (1 .. len) \X V |-> Step(p[1], p[2])]
<1>0. len \in Nat
  OBVIOUS
<1>1. \A n \in 1 .. len : s[n] \in S
  OBVIOUS
<1>2. <<>> \in V
  OBVIOUS
<1>3. \A n \in 1 .. len, v \in V : Step(n, v) \in V
  BY <1>1
<1>. HIDE DEF V, len, Step
<1>4. step \in [(1 .. len) \X V -> V]
  BY <1>3
<1>5. PICK F : Computes(F, V, <<>>, len, step)
  <2>1. len \in Nat
    BY <1>0
  <2>. HIDE DEF step
  <2>. QED  BY <1>2, <1>4, <2>1, Recursion
<1>6. \A n \in 1 .. len : F[n] = Step(n, F[n - 1])
  <2>1. \A n \in 1 .. len : n - 1 \in 0 .. len /\ F[n - 1] \in V
    BY <1>0, <1>5 DEF Computes
  <2>. QED  BY <1>5, <2>1 DEF Computes
<1>7. F = [n \in 0 .. len |-> IF n = 0 THEN <<>> ELSE Step(n, F[n - 1])]
  <2>1. ASSUME NEW n \in 0 .. len
        PROVE  F[n] = IF n = 0 THEN <<>> ELSE Step(n, F[n - 1])
    <3>1. n = 0 \/ n \in 1 .. len
      BY <1>0
    <3>2. CASE n = 0
      BY <1>5, <3>2 DEF Computes
    <3>3. CASE n \in 1 .. len
      BY <1>6, <3>3
    <3>. QED  BY <3>1, <3>2, <3>3
  <2>. QED  BY <1>5, <2>1 DEF Computes
<1>. DEFINE C == ChosenUpTo(s, places)
<1>8. C = [n \in 0 .. len |-> IF n = 0 THEN <<>> ELSE Step(n, C[n - 1])]
  BY <1>7 DEF ChosenUpTo, len, Step
<1>. HIDE DEF C
<1>9. C[0] = <<>>
  BY <1>0, <1>8
<1>10. \A n \in 1 .. len : C[n] = Step(n, C[n - 1])
  <2>1. \A n \in 1 .. len : n \in 0 .. len /\ n # 0
    OBVIOUS
  <2>. QED  BY <1>8, <2>1
<1>11. \A n \in 0 .. len : C[n] \in V
  <2>1. \A n \in 1 .. len : C[n - 1] \in V => C[n] \in V
    BY <1>3, <1>10
  <2>. QED  BY <1>0, <1>2, <1>9, <2>1, StepByStep
<1>. QED  BY <1>9, <1>10, <1>11 DEF C, V, len, Step

LEMMA ChosenType ==
    ASSUME NEW S, NEW s \in Seq(S), NEW places
    PROVE  Chosen(s, places) \in Seq(S)
<1>1. Len(s) \in 0 .. Len(s)
  OBVIOUS
<1>. QED  BY <1>1, ChosenIs, ChosenSteps

(* Only the places in the sequence count. *)
LEMMA ChosenAgree ==
    ASSUME NEW S, NEW s \in Seq(S), NEW p, NEW q,
           \A n \in 1 .. Len(s) : n \in p <=> n \in q
    PROVE  Chosen(s, p) = Chosen(s, q)
<1>. DEFINE F == [n \in 0 .. Len(s) |-> ChosenUpTo(s, p)[n] = ChosenUpTo(s, q)[n]]
<1>0. Len(s) \in Nat /\ Len(s) \in 0 .. Len(s)
  OBVIOUS
<1>1. F[0] \in {TRUE}
  <2>1. 0 \in 0 .. Len(s)
    BY <1>0
  <2>. QED  BY <2>1, ChosenSteps
<1>2. ASSUME NEW n \in 1 .. Len(s), F[n - 1] \in {TRUE}  PROVE F[n] \in {TRUE}
  <2>0. n \in 0 .. Len(s) /\ n - 1 \in 0 .. Len(s)
    BY <1>0
  <2>1. ChosenUpTo(s, p)[n - 1] = ChosenUpTo(s, q)[n - 1]
    BY <1>2, <2>0
  <2>2. ChosenUpTo(s, p)[n] = ChosenUpTo(s, q)[n]
    BY <2>1, ChosenSteps
  <2>. QED  BY <2>0, <2>2
<1>3. \A n \in 0 .. Len(s) : F[n] \in {TRUE}
  <2>. HIDE DEF F
  <2>. QED  BY <1>0, <1>1, <1>2, StepByStep
<1>. QED  BY <1>0, <1>3, ChosenIs

LEMMA NoneChosen ==
    ASSUME NEW S, NEW s \in Seq(S), NEW p, \A n \in 1 .. Len(s) : n \notin p
    PROVE  Chosen(s, p) = <<>>
<1>. DEFINE F == ChosenUpTo(s, p)
<1>0. Len(s) \in Nat /\ Len(s) \in 0 .. Len(s)
  OBVIOUS
<1>1. F[0] \in {<<>>} /\ \A n \in 1 .. Len(s) : F[n - 1] \in {<<>>} => F[n] \in {<<>>}
  BY ChosenSteps
<1>2. \A n \in 0 .. Len(s) : F[n] \in {<<>>}
  <2>. HIDE DEF F
  <2>. QED  BY <1>0, <1>1, StepByStep
<1>. QED  BY <1>0, <1>2, ChosenIs

(* What is chosen from two sequences in a row. *)
LEMMA ChosenConcat ==
    ASSUME NEW S, NEW s \in Seq(S), NEW t \in Seq(S), NEW p, NEW q,
           \A n \in 1 .. Len(t) : n \in q <=> Len(s) + n \in p
    PROVE  Chosen(s \o t, p) = Chosen(s, p) \o Chosen(t, q)
<1>. DEFINE a == Len(s)  b == Len(t)  u == s \o t
            C == ChosenUpTo(s, p)  D == ChosenUpTo(t, q)  E == ChosenUpTo(u, p)
<1>0. a \in Nat /\ b \in Nat
  OBVIOUS
<1>1. /\ u \in Seq(S) /\ Len(u) = a + b
      /\ \A n \in 1 .. a : u[n] = s[n]
      /\ \A n \in 1 .. b : u[a + n] = t[n]
  <2>1. /\ u \in Seq(S) /\ Len(u) = a + b
        /\ \A i \in 1 .. a + b : u[i] = IF i <= a THEN s[i] ELSE t[i - a]
    BY ConcatProperties
  <2>. HIDE DEF u, a, b
  <2>2. \A n \in 1 .. a : n \in 1 .. a + b /\ n <= a
    BY <1>0
  <2>3. \A n \in 1 .. b : a + n \in 1 .. a + b /\ ~ (a + n <= a) /\ (a + n) - a = n
    BY <1>0
  <2>. QED  BY <2>1, <2>2, <2>3
<1>2. /\ C[0] = <<>>
      /\ \A n \in 1 .. a : C[n] = IF n \in p THEN Append(C[n - 1], s[n]) ELSE C[n - 1]
      /\ \A n \in 0 .. a : C[n] \in Seq(S)
  BY ChosenSteps
<1>3. /\ D[0] = <<>>
      /\ \A n \in 1 .. b : D[n] = IF n \in q THEN Append(D[n - 1], t[n]) ELSE D[n - 1]
      /\ \A n \in 0 .. b : D[n] \in Seq(S)
  BY ChosenSteps
<1>. HIDE DEF u
<1>4. /\ E[0] = <<>>
      /\ \A n \in 1 .. a + b : E[n] = IF n \in p THEN Append(E[n - 1], u[n]) ELSE E[n - 1]
  BY <1>1, ChosenSteps
<1>5. Chosen(s, p) = C[a] /\ Chosen(t, q) = D[b] /\ Chosen(u, p) = E[a + b]
  BY <1>1, ChosenIs
<1>6. \A n \in 1 .. b : n \in q <=> a + n \in p
  OBVIOUS
<1>. HIDE DEF a, b, C, D, E
<1>7. E[a] = C[a]
  <2>. DEFINE F == [n \in 0 .. a |-> E[n] = C[n]]
  <2>1. F[0] \in {TRUE}
    <3>1. 0 \in 0 .. a
      BY <1>0
    <3>. QED  BY <1>2, <1>4, <3>1
  <2>2. ASSUME NEW n \in 1 .. a, F[n - 1] \in {TRUE}  PROVE F[n] \in {TRUE}
    <3>1. n \in 0 .. a /\ n - 1 \in 0 .. a /\ n \in 1 .. a + b
      BY <1>0
    <3>2. E[n - 1] = C[n - 1]
      BY <2>2, <3>1
    <3>3. E[n] = C[n]
      BY <1>1, <1>2, <1>4, <3>1, <3>2
    <3>. QED  BY <3>1, <3>3
  <2>3. \A n \in 0 .. a : F[n] \in {TRUE}
    <3>. HIDE DEF F
    <3>. QED  BY <1>0, <2>1, <2>2, StepByStep
  <2>4. a \in 0 .. a
    BY <1>0
  <2>. QED  BY <2>3, <2>4
<1>8. E[a + b] = C[a] \o D[b]
  <2>. DEFINE F == [n \in 0 .. b |-> E[a + n] = C[a] \o D[n]]
  <2>0. C[a] \in Seq(S)
    BY <1>0, <1>2
  <2>1. F[0] \in {TRUE}
    <3>1. C[a] \o <<>> = C[a] /\ a + 0 = a /\ 0 \in 0 .. b
      BY <1>0, <2>0, ConcatEmptySeq
    <3>. QED  BY <1>3, <1>7, <3>1
  <2>2. ASSUME NEW n \in 1 .. b, F[n - 1] \in {TRUE}  PROVE F[n] \in {TRUE}
    <3>1. /\ n \in 0 .. b /\ n - 1 \in 0 .. b /\ a + n \in 1 .. a + b
          /\ (a + n) - 1 = a + (n - 1)
      BY <1>0
    <3>2. E[a + (n - 1)] = C[a] \o D[n - 1]
      BY <2>2, <3>1
    <3>3. E[a + n] = IF a + n \in p THEN Append(E[a + (n - 1)], u[a + n])
                     ELSE E[a + (n - 1)]
      BY <1>4, <3>1
    <3>4. u[a + n] = t[n] /\ t[n] \in S
      BY <1>1 DEF b
    <3>5. D[n] = IF n \in q THEN Append(D[n - 1], t[n]) ELSE D[n - 1]
      BY <1>3
    <3>6. D[n - 1] \in Seq(S)
      BY <1>3, <3>1
    <3>7. E[a + n] = C[a] \o D[n]
      <4>1. CASE n \in q
        <5>1. E[a + n] = Append(C[a] \o D[n - 1], t[n]) /\ D[n] = Append(D[n - 1], t[n])
          BY <1>6, <3>2, <3>3, <3>4, <3>5, <4>1
        <5>. DEFINE c == C[a]  d == D[n - 1]  x == t[n]
        <5>2. c \in Seq(S) /\ d \in Seq(S) /\ x \in S
          BY <2>0, <3>4, <3>6
        <5>3. Append(c \o d, x) = c \o Append(d, x)
          <6>. HIDE DEF c, d, x
          <6>1. /\ <<x>> \in Seq(S) /\ c \o d \in Seq(S)
                /\ Append(c \o d, x) = (c \o d) \o <<x>> /\ Append(d, x) = d \o <<x>>
            BY <5>2, AppendIsConcat
          <6>. QED  BY <5>2, <6>1, ConcatAssociative
        <5>. QED  BY <5>1, <5>3
      <4>2. CASE n \notin q
        BY <1>6, <3>2, <3>3, <3>5, <4>2
      <4>. QED  BY <4>1, <4>2
    <3>. QED  BY <3>1, <3>7
  <2>3. \A n \in 0 .. b : F[n] \in {TRUE}
    <3>. HIDE DEF F
    <3>. QED  BY <1>0, <2>1, <2>2, StepByStep
  <2>4. b \in 0 .. b
    BY <1>0
  <2>. QED  BY <2>3, <2>4
<1>. QED  BY <1>5, <1>7, <1>8 DEF u

-------------------------------------------------------------------------------
(* What is on the disk *)

LEMMA EndIs == End.kind = "end" /\ End.cluster = 0 /\ ~ IsDirectory(End)
<1>1. End.kind = "end" /\ End.cluster = 0
  BY DEF End
<1>. QED  BY <1>1 DEF IsDirectory

(* An entry of the root directory or of a cluster, as far as the tree needs it. *)
LegalEntry(e) == e.cluster \in Nat /\ (IsDirectory(e) => e.cluster \in Clusters)

LEMMA NthOfEntries ==
    ASSUME NEW s, s \in Seq(Range(s)), NEW i, NEW c, c \in Nat,
           \A e \in Range(s) : e.cluster \in Nat
    PROVE  /\ Nth(s, i).cluster \in Nat
           /\ (\A e \in Range(s) : LegalEntry(e)) => LegalEntry(Nth(s, i))
<1>1. i \in DOMAIN s => s[i] \in Range(s)
  BY DEF Range
<1>2. 0 \in Nat
  OBVIOUS
<1>. QED  BY <1>1, <1>2, EndIs DEF Nth, LegalEntry

LEMMA SlotsAreEntries ==
    ASSUME volume \in Volumes, NEW k \in Int
    PROVE  /\ SlotAt(k).cluster \in Nat
           /\ k >= root_directory_offset => LegalEntry(SlotAt(k))
<1>. USE SizesAreNumbers
<1>1. /\ volume.boot \in Seq(Range(volume.boot)) /\ volume.root \in Seq(Range(volume.root))
      /\ \A e \in Range(volume.boot) : e.cluster \in Nat
      /\ \A e \in Range(volume.root) : e.cluster \in Nat /\ LegalEntry(e)
      /\ \A c \in Clusters : /\ volume.slots[c] \in Seq(Range(volume.slots[c]))
                             /\ \A e \in Range(volume.slots[c]) :
                                   e.cluster \in Nat /\ LegalEntry(e)
  BY VolumesAssumption DEF LegalEntry
<1>2. root_directory_offset \in Nat
  BY DEF root_directory_offset
<1>3. CASE k < root_directory_offset
  <2>1. SlotAt(k) = Nth(volume.boot, k + 1)
    BY <1>3 DEF SlotAt
  <2>2. Nth(volume.boot, k + 1).cluster \in Nat
    BY <1>1, NthOfEntries
  <2>. QED  BY <1>2, <1>3, <2>1, <2>2
<1>4. CASE ~ (k < root_directory_offset) /\ k < data_region_offset
  <2>. DEFINE i == k - root_directory_offset + 1
  <2>1. SlotAt(k) = Nth(volume.root, i)
    BY <1>4 DEF SlotAt
  <2>2. Nth(volume.root, i).cluster \in Nat /\ LegalEntry(Nth(volume.root, i))
    BY <1>1, NthOfEntries
  <2>. QED  BY <2>1, <2>2
<1>5. CASE ~ (k < root_directory_offset) /\ ~ (k < data_region_offset)
  <2>. DEFINE d == k - data_region_offset
              c == 2 + d \div ClusterSlots
              i == (d % ClusterSlots) + 1
  <2>1. SlotAt(k) = IF c \in Clusters THEN Nth(volume.slots[c], i) ELSE End
    BY <1>5 DEF SlotAt
  <2>. HIDE DEF c, i
  <2>2. CASE c \in Clusters
    <3>1. Nth(volume.slots[c], i).cluster \in Nat /\ LegalEntry(Nth(volume.slots[c], i))
      BY <1>1, <2>2, NthOfEntries
    <3>. QED  BY <2>1, <2>2, <3>1
  <2>3. CASE c \notin Clusters
    <3>1. 0 \in Nat
      OBVIOUS
    <3>. QED  BY <2>1, <2>3, <3>1, EndIs DEF LegalEntry
  <2>. QED  BY <2>2, <2>3
<1>. QED  BY <1>3, <1>4, <1>5

(* The scan of a cluster sees what is in it. *)
LEMMA ClusterScanned ==
    ASSUME NEW c \in Clusters
    PROVE  Slots(ClusterOffset(data_region_offset, c), ClusterSlots)
               = [i \in 1 .. ClusterSlots |-> Nth(volume.slots[c], i)]
<1>. USE SizesAreNumbers
<1>. DEFINE k == ClusterOffset(data_region_offset, c)
<1>1. /\ data_region_offset \in Nat /\ root_directory_offset \in Nat
      /\ data_region_offset >= root_directory_offset
  BY DEF data_region_offset, root_directory_offset
<1>2. c - 2 \in Nat /\ c \in Nat
  OBVIOUS
<1>3. ASSUME NEW i \in 1 .. ClusterSlots  PROVE SlotAt(k + i - 1) = Nth(volume.slots[c], i)
  <2>. DEFINE j == k + i - 1
              d == j - data_region_offset
  <2>1. d = ClusterSlots * (c - 2) + (i - 1) /\ i - 1 \in 0 .. ClusterSlots - 1
    BY <1>1, <1>2 DEF ClusterOffset
  <2>2. ClusterSlots * (c - 2) \in Nat
    BY <1>2
  <2>3. j \in Int /\ j >= data_region_offset
    <3>. HIDE DEF k
    <3>1. k \in Int
      BY <1>1, <1>2 DEF k, ClusterOffset
    <3>. QED  BY <1>1, <2>1, <2>2, <3>1
  <2>4. d \div ClusterSlots = c - 2 /\ d % ClusterSlots = i - 1
    <3>. DEFINE q == c - 2  r == i - 1
    <3>1. q \in Int /\ r \in 0 .. ClusterSlots - 1
      BY <1>2
    <3>. HIDE DEF q, r
    <3>2. (ClusterSlots * q + r) \div ClusterSlots = q /\ (ClusterSlots * q + r) % ClusterSlots = r
      BY <3>1, Division
    <3>. QED  BY <2>1, <3>2 DEF q, r
  <2>5. ~ (j < root_directory_offset) /\ ~ (j < data_region_offset)
    BY <1>1, <2>3
  <2>6. 2 + (d \div ClusterSlots) = c /\ (d % ClusterSlots) + 1 = i
    BY <1>2, <2>4
  <2>. HIDE DEF k
  <2>. QED  BY <2>5, <2>6 DEF SlotAt
<1>. QED  BY <1>3 DEF Slots

-------------------------------------------------------------------------------
(* What of a directory is visible *)

LEMMA BeforeEndType ==
    ASSUME NEW S, NEW s \in Seq(S)
    PROVE  BeforeEnd(s) \in Seq(S)
<1>. DEFINE ends == {i \in DOMAIN s : s[i] = End}
<1>1. CASE ends = {}
  BY <1>1 DEF BeforeEnd
<1>2. CASE ends # {}
  <2>1. Min(ends) \in ends
    <3>1. ends \subseteq Nat
      OBVIOUS
    <3>. HIDE DEF ends
    <3>. QED  BY <1>2, <3>1, SmallestOfSome
  <2>2. BeforeEnd(s) = SubSeq(s, 1, Min(ends) - 1)
    BY <1>2 DEF BeforeEnd
  <2>3. PICK m : m = Min(ends) - 1
    OBVIOUS
  <2>4. m \in Nat /\ m <= Len(s)
    BY <2>1, <2>3
  <2>5. \A i \in 1 .. m : s[i] \in S
    BY <2>4
  <2>6. SubSeq(s, 1, m) \in Seq(S)
    <3>1. 1 \in Int /\ m \in Int
      BY <2>4
    <3>. QED  BY <2>5, <3>1, SubSeqProperties
  <2>. QED  BY <2>2, <2>3, <2>6
<1>. QED  BY <1>1, <1>2

LEMMA VisibleType ==
    ASSUME NEW S, NEW s \in Seq(S)
    PROVE  Visible(s) \in Seq(S)
BY BeforeEndType, ChosenType DEF Visible

(* What is unused behind the entries of a directory does not matter. *)
LEMMA Padded ==
    ASSUME NEW S, NEW s \in Seq(S), NEW n \in Nat, Len(s) <= n,
           NEW t, t = [i \in 1 .. n |-> Nth(s, i)]
    PROVE  BeforeEnd(t) = BeforeEnd(s)
<1>0. Len(s) \in Nat /\ DOMAIN s = 1 .. Len(s) /\ Len(s) \in 0 .. n
  OBVIOUS
<1>1. /\ DOMAIN t = 1 .. n /\ Len(t) = n
      /\ \A i \in 1 .. n : t[i] = IF i \in 1 .. Len(s) THEN s[i] ELSE End
  BY <1>0 DEF Nth
<1>2. PICK a \in 0 .. Len(s) :
         /\ DOMAIN BeforeEnd(s) = 1 .. a /\ Len(BeforeEnd(s)) = a
         /\ \A i \in 1 .. a : BeforeEnd(s)[i] = s[i] /\ s[i] # End
         /\ a < Len(s) => s[a + 1] = End
  BY <1>0, BeforeEndIs
<1>3. PICK b \in 0 .. n :
         /\ DOMAIN BeforeEnd(t) = 1 .. b /\ Len(BeforeEnd(t)) = b
         /\ \A i \in 1 .. b : BeforeEnd(t)[i] = t[i] /\ t[i] # End
         /\ b < n => t[b + 1] = End
  BY <1>1, BeforeEndIs
<1>4. ~ (a < b)
  <2>. SUFFICES ASSUME a < b  PROVE FALSE
    OBVIOUS
  <2>1. a + 1 \in 1 .. b /\ a + 1 \in 1 .. n
    OBVIOUS
  <2>2. t[a + 1] = End
    <3>1. CASE a < Len(s)
      <4>1. a + 1 \in 1 .. Len(s)
        BY <1>0, <3>1
      <4>. QED  BY <1>1, <1>2, <2>1, <3>1, <4>1
    <3>2. CASE ~ (a < Len(s))
      <4>1. a + 1 \notin 1 .. Len(s)
        BY <1>0, <3>2
      <4>. QED  BY <1>1, <2>1, <4>1
    <3>. QED  BY <3>1, <3>2
  <2>. QED  BY <1>3, <2>1, <2>2
<1>5. ~ (b < a)
  <2>. SUFFICES ASSUME b < a  PROVE FALSE
    OBVIOUS
  <2>1. b + 1 \in 1 .. a /\ b + 1 \in 1 .. n /\ b < n /\ b + 1 \in 1 .. Len(s)
    BY <1>0
  <2>. QED  BY <1>1, <1>2, <1>3, <2>1
<1>6. a = b /\ a \in Nat /\ \A i \in 1 .. a : i \in 1 .. Len(s) /\ i \in 1 .. n
  BY <1>0, <1>4, <1>5
<1>7. /\ BeforeEnd(s) \in Seq(S \cup {End}) /\ BeforeEnd(t) \in Seq(S \cup {End})
  <2>1. s \in Seq(S \cup {End})
    BY SeqMonotonic
  <2>2. \A i \in 1 .. n : t[i] \in S \cup {End}
    BY <1>1
  <2>3. t \in Seq(S \cup {End})
    BY <2>2
  <2>. QED  BY <2>1, <2>3, BeforeEndType
<1>8. \A i \in 1 .. a : BeforeEnd(t)[i] = BeforeEnd(s)[i]
  BY <1>1, <1>2, <1>3, <1>6
<1>. QED  BY <1>2, <1>3, <1>6, <1>7, <1>8, SeqEqual

LEMMA RootIsVisible ==
    ASSUME volume \in Volumes
    PROVE  Visible(RootScan) = Visible(volume.root)
<1>1. VolumeOK
  BY VolumesAreOK
<1>2. /\ volume.root \in Seq(Range(volume.root)) /\ Len(volume.root) <= RootSlots
      /\ RootSlots \in Nat
  BY SizesAreNumbers, VolumesAssumption
<1>3. RootScan = [i \in 1 .. RootSlots |-> Nth(volume.root, i)]
  <2>1. \A i \in 1 .. RootSlots : RootScan[i] = Nth(volume.root, i)
    BY <1>1, RootScanned DEF Nth
  <2>. QED  BY <2>1 DEF RootScan, Slots
<1>4. BeforeEnd(RootScan) = BeforeEnd(volume.root)
  BY <1>2, <1>3, Padded
<1>. QED  BY <1>4 DEF Visible

LEMMA ClusterIsVisible ==
    ASSUME volume \in Volumes, NEW c \in Clusters
    PROVE  Visible(Slots(ClusterOffset(data_region_offset, c), ClusterSlots))
               = Visible(volume.slots[c])
<1>1. /\ volume.slots[c] \in Seq(Range(volume.slots[c]))
      /\ Len(volume.slots[c]) <= ClusterSlots /\ ClusterSlots \in Nat
  BY SizesAreNumbers, VolumesAssumption
<1>. DEFINE t == Slots(ClusterOffset(data_region_offset, c), ClusterSlots)
<1>2. t = [i \in 1 .. ClusterSlots |-> Nth(volume.slots[c], i)]
  BY ClusterScanned
<1>. HIDE DEF t
<1>3. BeforeEnd(t) = BeforeEnd(volume.slots[c])
  BY <1>1, <1>2, Padded
<1>. QED  BY <1>3 DEF Visible, t

-------------------------------------------------------------------------------
(* The lines of print_directory *)

Offsets == {k \in Int : k >= root_directory_offset}

(* Any line that may be printed. *)
AnyEntry == {SlotAt(k) : k \in Int} \cup {End}
AnyLine  == {Line(l, e) : l \in Nat, e \in AnyEntry}

LEMMA LineIs == \A l, e : Line(l, e).level = l /\ Line(l, e).entry = e
BY DEF Line

(* The recursive function in Listing. *)
ListingUpTo(es, level, base, below) ==
    CHOOSE F : F = [n \in 0 .. Len(es) |->
        IF n = 0 THEN <<>>
        ELSE F[n - 1] \o <<Line(level, es[n])>>
             \o (IF IsDirectory(es[n]) THEN below[ClusterOffset(base, es[n].cluster)]
                 ELSE <<>>)]

LEMMA ListingIs ==
    \A es, level, base, below :
        Listing(es, level, base, below) = ListingUpTo(es, level, base, below)[Len(es)]
BY DEF Listing, ListingUpTo

(* What is printed below an entry. *)
Under(e, base, below) ==
    IF IsDirectory(e) THEN below[ClusterOffset(base, e.cluster)] ELSE <<>>

LEMMA UnderType ==
    ASSUME volume \in Volumes, NEW base \in Int, NEW e \in AnyEntry,
           NEW below \in [Int -> Seq(AnyLine)]
    PROVE  Under(e, base, below) \in Seq(AnyLine)
<1>1. e.cluster \in Nat
  <2>1. 0 \in Nat
    OBVIOUS
  <2>. QED  BY <2>1, SlotsAreEntries, EndIs DEF AnyEntry
<1>2. ClusterOffset(base, e.cluster) \in Int
  <2>1. \A c \in Nat : ClusterOffset(base, c) \in Int
    BY SizesAreNumbers DEF ClusterOffset
  <2>. QED  BY <1>1, <2>1
<1>. QED  BY <1>2 DEF Under

Regroups(s, t, u) == (s \o t) \o u = s \o (t \o u)

LEMMA ThreeInARow == \A S : \A s, t, u \in Seq(S) : Regroups(s, t, u)
BY ConcatAssociative DEF Regroups

LEMMA ListingSteps ==
    ASSUME volume \in Volumes, NEW base \in Int, NEW level \in Nat,
           NEW es \in Seq(AnyEntry), NEW below \in [Int -> Seq(AnyLine)]
    PROVE  LET F == ListingUpTo(es, level, base, below)
           IN  /\ F[0] = <<>>
               /\ \A n \in 1 .. Len(es) :
                     F[n] = F[n - 1] \o (<<Line(level, es[n])>> \o Under(es[n], base, below))
               /\ \A n \in 0 .. Len(es) : F[n] \in Seq(AnyLine)
<1>. DEFINE V == Seq(AnyLine)
            len == Len(es)
            Step(n, v) == v \o <<Line(level, es[n])>> \o Under(es[n], base, below)
            step == [p \in (1 .. len) \X V |-> Step(p[1], p[2])]
<1>0. len \in Nat
  OBVIOUS
<1>1. \A n \in 1 .. len : /\ <<Line(level, es[n])>> \in V
                          /\ Under(es[n], base, below) \in V
  <2>1. \A n \in 1 .. len : es[n] \in AnyEntry
    OBVIOUS
  <2>2. \A n \in 1 .. len : Line(level, es[n]) \in AnyLine
    BY <2>1 DEF AnyLine
  <2>3. ASSUME NEW n \in 1 .. len  PROVE Under(es[n], base, below) \in V
    <3>1. PICK e : e = es[n]
      OBVIOUS
    <3>2. Under(e, base, below) \in Seq(AnyLine)
      BY <2>1, <3>1, UnderType
    <3>. QED  BY <3>1, <3>2
  <2>. QED  BY <2>2, <2>3
<1>2. <<>> \in V
  OBVIOUS
<1>3. \A n \in 1 .. len, v \in V :
         /\ Step(n, v) \in V
         /\ Step(n, v) = v \o (<<Line(level, es[n])>> \o Under(es[n], base, below))
  <2>. SUFFICES ASSUME NEW n \in 1 .. len, NEW v \in V
                PROVE  /\ Step(n, v) \in V
                       /\ Step(n, v) = v \o (<<Line(level, es[n])>>
                                             \o Under(es[n], base, below))
    OBVIOUS
  <2>1. PICK x : x = <<Line(level, es[n])>>
    OBVIOUS
  <2>2. PICK y : y = Under(es[n], base, below)
    OBVIOUS
  <2>3. x \in Seq(AnyLine) /\ y \in Seq(AnyLine) /\ v \in Seq(AnyLine)
    BY <1>1, <2>1, <2>2
  <2>4. (v \o x) \o y = v \o (x \o y)
    <3>1. Regroups(v, x, y)
      BY <2>3, ThreeInARow
    <3>. QED  BY <3>1 DEF Regroups
  <2>5. (v \o x) \o y \in Seq(AnyLine)
    BY <2>3
  <2>. QED  BY <2>1, <2>2, <2>4, <2>5
<1>. HIDE DEF V, len, Step
<1>4. step \in [(1 .. len) \X V -> V]
  BY <1>3
<1>5. PICK F : Computes(F, V, <<>>, len, step)
  <2>1. len \in Nat
    BY <1>0
  <2>. HIDE DEF step
  <2>. QED  BY <1>2, <1>4, <2>1, Recursion
<1>6. \A n \in 1 .. len : F[n] = Step(n, F[n - 1])
  <2>1. \A n \in 1 .. len : n - 1 \in 0 .. len /\ F[n - 1] \in V
    BY <1>0, <1>5 DEF Computes
  <2>. QED  BY <1>5, <2>1 DEF Computes
<1>7. F = [n \in 0 .. len |-> IF n = 0 THEN <<>> ELSE Step(n, F[n - 1])]
  <2>1. ASSUME NEW n \in 0 .. len
        PROVE  F[n] = IF n = 0 THEN <<>> ELSE Step(n, F[n - 1])
    <3>1. n = 0 \/ n \in 1 .. len
      BY <1>0
    <3>2. CASE n = 0
      BY <1>5, <3>2 DEF Computes
    <3>3. CASE n \in 1 .. len
      BY <1>6, <3>3
    <3>. QED  BY <3>1, <3>2, <3>3
  <2>. QED  BY <1>5, <2>1 DEF Computes
<1>. DEFINE C == ListingUpTo(es, level, base, below)
<1>8. C = [n \in 0 .. len |-> IF n = 0 THEN <<>> ELSE Step(n, C[n - 1])]
  BY <1>7 DEF ListingUpTo, len, Step, Under
<1>. HIDE DEF C
<1>9. C[0] = <<>>
  BY <1>0, <1>8
<1>10. \A n \in 1 .. len : C[n] = Step(n, C[n - 1])
  <2>1. \A n \in 1 .. len : n \in 0 .. len /\ n # 0
    OBVIOUS
  <2>. QED  BY <1>8, <2>1
<1>11. \A n \in 0 .. len : C[n] \in V
  <2>1. \A n \in 1 .. len : C[n - 1] \in V => C[n] \in V
    BY <1>3, <1>10
  <2>. QED  BY <1>0, <1>2, <1>9, <2>1, StepByStep
<1>12. \A n \in 1 .. len :
          C[n] = C[n - 1] \o (<<Line(level, es[n])>> \o Under(es[n], base, below))
  <2>1. \A n \in 1 .. len : n - 1 \in 0 .. len
    BY <1>0
  <2>. QED  BY <1>3, <1>10, <1>11, <2>1
<1>. QED  BY <1>9, <1>11, <1>12 DEF C, V, len

LEMMA ListingType ==
    ASSUME volume \in Volumes, NEW base \in Int, NEW level \in Nat,
           NEW es \in Seq(AnyEntry), NEW below \in [Int -> Seq(AnyLine)]
    PROVE  Listing(es, level, base, below) \in Seq(AnyLine)
<1>1. Len(es) \in 0 .. Len(es)
  OBVIOUS
<1>. QED  BY <1>1, ListingIs, ListingSteps

(* What a directory with room for this many levels below shows of the slots
   from k on. *)
EntriesAt(k, room) ==
    Visible(Slots(k, IF MaxLevel + 1 - room = 0 THEN RootSlots ELSE ClusterSlots))

(* The recursive function in print_directory. *)
LinesOf(base) ==
    CHOOSE F : F = [room \in 0 .. MaxLevel + 1 |-> [k \in Int |->
        IF room = 0 THEN <<Line(MaxLevel + 1, End)>>
        ELSE LET level == MaxLevel + 1 - room
                 slots == Slots(k, IF level = 0 THEN RootSlots ELSE ClusterSlots)
             IN  Listing(Visible(slots), level, base, F[room - 1])]]

LEMMA PrintsLines ==
    \A base : print_directory(base) = LinesOf(base)[MaxLevel + 1][root_directory_offset]
BY DEF print_directory, LinesOf

LEMMA EntriesAtType ==
    ASSUME NEW k \in Int, NEW n \in Nat, NEW S, \A j \in Int : j >= k => SlotAt(j) \in S
    PROVE  Visible(Slots(k, n)) \in Seq(S)
<1>1. \A i \in 1 .. n : SlotAt(k + i - 1) \in S
  <2>1. \A i \in 1 .. n : k + i - 1 \in Int /\ k + i - 1 >= k
    OBVIOUS
  <2>. QED  BY <2>1
<1>2. Slots(k, n) \in Seq(S)
  BY <1>1 DEF Slots
<1>. QED  BY <1>2, VisibleType

LEMMA LinesSteps ==
    ASSUME volume \in Volumes, NEW base \in Int
    PROVE  LET F == LinesOf(base)
           IN  /\ F[0] = [k \in Int |-> <<Line(MaxLevel + 1, End)>>]
               /\ \A room \in 1 .. MaxLevel + 1 :
                     F[room] = [k \in Int |-> Listing(EntriesAt(k, room),
                                   MaxLevel + 1 - room, base, F[room - 1])]
               /\ \A room \in 0 .. MaxLevel + 1 : F[room] \in [Int -> Seq(AnyLine)]
<1>. DEFINE V == [Int -> Seq(AnyLine)]
            len == MaxLevel + 1
            first == [k \in Int |-> <<Line(MaxLevel + 1, End)>>]
            Step(n, v) == [k \in Int |-> Listing(EntriesAt(k, n), MaxLevel + 1 - n, base, v)]
            step == [p \in (1 .. len) \X V |-> Step(p[1], p[2])]
<1>0. len \in Nat /\ \A n \in 1 .. len : MaxLevel + 1 - n \in Nat
  BY SizesAreNumbers
<1>1. \A k \in Int, n \in 1 .. len : EntriesAt(k, n) \in Seq(AnyEntry)
  <2>. SUFFICES ASSUME NEW k \in Int, NEW n \in 1 .. len
                PROVE  EntriesAt(k, n) \in Seq(AnyEntry)
    OBVIOUS
  <2>1. \A j \in Int : SlotAt(j) \in AnyEntry
    BY DEF AnyEntry
  <2>2. PICK m \in Nat : m = IF MaxLevel + 1 - n = 0 THEN RootSlots ELSE ClusterSlots
    BY SizesAreNumbers
  <2>3. Visible(Slots(k, m)) \in Seq(AnyEntry)
    BY <2>1, EntriesAtType
  <2>. QED  BY <2>2, <2>3 DEF EntriesAt
<1>2. first \in V
  <2>1. MaxLevel + 1 \in Nat /\ End \in AnyEntry
    BY SizesAreNumbers DEF AnyEntry
  <2>2. Line(MaxLevel + 1, End) \in AnyLine
    BY <2>1 DEF AnyLine
  <2>3. <<Line(MaxLevel + 1, End)>> \in Seq(AnyLine)
    BY <2>2
  <2>. QED  BY <2>3
<1>3. \A n \in 1 .. len, v \in V : Step(n, v) \in V
  <2>. SUFFICES ASSUME NEW n \in 1 .. len, NEW v \in V, NEW k \in Int
                PROVE  Listing(EntriesAt(k, n), MaxLevel + 1 - n, base, v) \in Seq(AnyLine)
    OBVIOUS
  <2>1. PICK level \in Nat : level = MaxLevel + 1 - n
    BY <1>0
  <2>2. PICK es \in Seq(AnyEntry) : es = EntriesAt(k, n)
    BY <1>1
  <2>3. Listing(es, level, base, v) \in Seq(AnyLine)
    BY ListingType
  <2>. QED  BY <2>1, <2>2, <2>3
<1>. HIDE DEF V, len, Step, first
<1>4. step \in [(1 .. len) \X V -> V]
  BY <1>3
<1>5. PICK F : Computes(F, V, first, len, step)
  <2>1. len \in Nat
    BY <1>0
  <2>. HIDE DEF step
  <2>. QED  BY <1>2, <1>4, <2>1, Recursion
<1>6. \A n \in 1 .. len : F[n] = Step(n, F[n - 1])
  <2>1. \A n \in 1 .. len : n - 1 \in 0 .. len /\ F[n - 1] \in V
    BY <1>0, <1>5 DEF Computes
  <2>. QED  BY <1>5, <2>1 DEF Computes
<1>. DEFINE Both(n, v) == IF n = 0 THEN first ELSE Step(n, v)
            Each(n, v) == [k \in Int |->
                IF n = 0 THEN <<Line(MaxLevel + 1, End)>>
                ELSE LET level == MaxLevel + 1 - n
                         slots == Slots(k, IF level = 0 THEN RootSlots ELSE ClusterSlots)
                     IN  Listing(Visible(slots), level, base, v)]
<1>12. \A n, v : Both(n, v) = Each(n, v)
  BY DEF first, Step, EntriesAt
<1>. HIDE DEF Both, Each
<1>7. F = [n \in 0 .. len |-> Each(n, F[n - 1])]
  <2>1. ASSUME NEW n \in 0 .. len
        PROVE  F[n] = Both(n, F[n - 1])
    <3>1. n = 0 \/ n \in 1 .. len
      BY <1>0
    <3>2. CASE n = 0
      BY <1>5, <3>2 DEF Computes, Both
    <3>3. CASE n \in 1 .. len
      <4>1. n # 0
        BY <3>3
      <4>. QED  BY <1>6, <3>3, <4>1 DEF Both
    <3>. QED  BY <3>1, <3>2, <3>3
  <2>2. F = [n \in 0 .. len |-> F[n]]
    BY <1>5 DEF Computes
  <2>. QED  BY <1>12, <2>1, <2>2
<1>. DEFINE C == LinesOf(base)
<1>8. C = [n \in 0 .. len |-> Each(n, C[n - 1])]
  BY <1>7 DEF LinesOf, len, Each
<1>. HIDE DEF C
<1>9. C[0] = first
  <2>1. 0 \in 0 .. len
    BY <1>0
  <2>. QED  BY <1>8, <1>12, <2>1 DEF Both
<1>10. \A n \in 1 .. len : C[n] = Step(n, C[n - 1])
  <2>1. \A n \in 1 .. len : n \in 0 .. len /\ n # 0
    OBVIOUS
  <2>. QED  BY <1>8, <1>12, <2>1 DEF Both
<1>11. \A n \in 0 .. len : C[n] \in V
  <2>1. \A n \in 1 .. len : C[n - 1] \in V => C[n] \in V
    BY <1>3, <1>10
  <2>. QED  BY <1>0, <1>2, <1>9, <2>1, StepByStep
<1>. QED  BY <1>9, <1>10, <1>11 DEF C, V, len, Step, first

-------------------------------------------------------------------------------
(* Lines at a level, and below a line *)

Deeper(t, l) == \A i \in 1 .. Len(t) : t[i].level > l

LEMMA LinesHaveEntries ==
    ASSUME NEW t \in Seq(AnyLine)
    PROVE  /\ \A i \in 1 .. Len(t) : t[i].level \in Nat /\ t[i].entry \in AnyEntry
           /\ Entries(t) \in Seq(AnyEntry) /\ Len(Entries(t)) = Len(t)
           /\ \A i \in 1 .. Len(t) : Entries(t)[i] = t[i].entry
<1>1. \A i \in 1 .. Len(t) : t[i].level \in Nat /\ t[i].entry \in AnyEntry
  <2>1. \A i \in 1 .. Len(t) : t[i] \in AnyLine
    OBVIOUS
  <2>2. \A x \in AnyLine : x.level \in Nat /\ x.entry \in AnyEntry
    BY LineIs DEF AnyLine
  <2>. QED  BY <2>1, <2>2
<1>2. Entries(t) = [i \in 1 .. Len(t) |-> t[i].entry]
  BY DEF Entries
<1>. QED  BY <1>1, <1>2

LEMMA TwoInARow ==
    ASSUME NEW s \in Seq(AnyLine), NEW t \in Seq(AnyLine)
    PROVE  /\ s \o t \in Seq(AnyLine) /\ Len(s \o t) = Len(s) + Len(t)
           /\ \A i \in 1 .. Len(s) : (s \o t)[i] = s[i]
           /\ \A i \in 1 .. Len(t) : (s \o t)[Len(s) + i] = t[i]
           /\ Entries(s \o t) = Entries(s) \o Entries(t)
<1>. DEFINE a == Len(s)  b == Len(t)  u == s \o t
<1>0. a \in Nat /\ b \in Nat
  OBVIOUS
<1>1. /\ u \in Seq(AnyLine) /\ Len(u) = a + b
      /\ \A i \in 1 .. a + b : u[i] = IF i <= a THEN s[i] ELSE t[i - a]
  BY ConcatProperties
<1>2. /\ \A n \in 1 .. a : n \in 1 .. a + b /\ n <= a
      /\ \A n \in 1 .. b : a + n \in 1 .. a + b /\ ~ (a + n <= a) /\ (a + n) - a = n
  BY <1>0
<1>. DEFINE d == Entries(s)  e == Entries(t)  f == Entries(u)  g == d \o e
<1>3. /\ d \in Seq(AnyEntry) /\ Len(d) = a /\ \A i \in 1 .. a : d[i] = s[i].entry
      /\ e \in Seq(AnyEntry) /\ Len(e) = b /\ \A i \in 1 .. b : e[i] = t[i].entry
  BY LinesHaveEntries
<1>4. /\ f \in Seq(AnyEntry) /\ Len(f) = a + b
      /\ \A i \in 1 .. a + b : f[i] = u[i].entry
  <2>. HIDE DEF u, a, b
  <2>. QED  BY <1>1, LinesHaveEntries
<1>. HIDE DEF d, e, f, a, b, u
<1>5. /\ g \in Seq(AnyEntry) /\ Len(g) = a + b
      /\ \A i \in 1 .. a + b : g[i] = IF i <= a THEN d[i] ELSE e[i - a]
  BY <1>3, ConcatProperties
<1>6. \A i \in 1 .. a + b : f[i] = g[i]
  <2>1. \A i \in 1 .. a + b : (i <= a => i \in 1 .. a) /\ (~ (i <= a) => i - a \in 1 .. b)
    BY <1>0
  <2>2. ASSUME NEW i \in 1 .. a + b, i <= a  PROVE f[i] = g[i]
    BY <1>1, <1>3, <1>4, <1>5, <2>1, <2>2
  <2>3. ASSUME NEW i \in 1 .. a + b, ~ (i <= a)  PROVE f[i] = g[i]
    <3>1. u[i] = t[i - a] /\ f[i] = u[i].entry /\ g[i] = e[i - a] /\ i - a \in 1 .. b
      BY <1>1, <1>4, <1>5, <2>1, <2>3
    <3>. QED  BY <1>3, <3>1
  <2>. QED  BY <2>2, <2>3
<1>. HIDE DEF g
<1>7. f = g
  BY <1>4, <1>5, <1>6, SeqEqual
<1>8. \A i \in 1 .. a : u[i] = s[i]
  BY <1>1, <1>2
<1>9. \A i \in 1 .. b : u[a + i] = t[i]
  BY <1>1, <1>2
<1>. QED  BY <1>1, <1>7, <1>8, <1>9 DEF a, b, d, e, f, g, u

(* The places q are the places p behind the first a. *)
Shifted(p, q, a, b) == \A n \in 1 .. b : n \in q <=> a + n \in p

ChosenInARow(d, e, p, q) == Chosen(d \o e, p) = Chosen(d, p) \o Chosen(e, q)

LEMMA ChosenFromTwo ==
    \A S : \A d, e \in Seq(S) : \A p, q :
        Shifted(p, q, Len(d), Len(e)) => ChosenInARow(d, e, p, q)
<1>. SUFFICES ASSUME NEW S, NEW d \in Seq(S), NEW e \in Seq(S), NEW p, NEW q,
                     Shifted(p, q, Len(d), Len(e))
              PROVE  ChosenInARow(d, e, p, q)
  OBVIOUS
<1>1. \A n \in 1 .. Len(e) : n \in q <=> Len(d) + n \in p
  BY DEF Shifted
<1>. QED  BY <1>1, ChosenConcat DEF ChosenInARow

LEMMA AtLevelIs ==
    \A t, l : AtLevel(t, l) = Chosen(Entries(t), {i \in DOMAIN t : t[i].level = l})
BY DEF AtLevel

LEMMA AtLevelConcat ==
    ASSUME NEW s \in Seq(AnyLine), NEW t \in Seq(AnyLine), NEW l
    PROVE  AtLevel(s \o t, l) = AtLevel(s, l) \o AtLevel(t, l)
<1>. DEFINE u == s \o t  d == Entries(s)  e == Entries(t)
            p == {i \in DOMAIN u : u[i].level = l}
            q == {i \in DOMAIN t : t[i].level = l}
            r == {i \in DOMAIN s : s[i].level = l}
<1>1. /\ u \in Seq(AnyLine) /\ Len(u) = Len(s) + Len(t) /\ Entries(u) = d \o e
      /\ \A i \in 1 .. Len(s) : u[i] = s[i]
      /\ \A i \in 1 .. Len(t) : u[Len(s) + i] = t[i]
  BY TwoInARow
<1>2. /\ d \in Seq(AnyEntry) /\ Len(d) = Len(s)
      /\ e \in Seq(AnyEntry) /\ Len(e) = Len(t)
  BY LinesHaveEntries
<1>. HIDE DEF u, d, e
<1>3. \A n \in 1 .. Len(e) : n \in q <=> Len(d) + n \in p
  BY <1>1, <1>2
<1>4. \A n \in 1 .. Len(d) : n \in p <=> n \in r
  BY <1>1, <1>2
<1>. HIDE DEF p, q, r
<1>5. Chosen(d \o e, p) = Chosen(d, p) \o Chosen(e, q)
  <2>1. Shifted(p, q, Len(d), Len(e))
    BY <1>2, <1>3 DEF Shifted
  <2>2. ChosenInARow(d, e, p, q)
    BY <1>2, <2>1, ChosenFromTwo
  <2>. QED  BY <2>2 DEF ChosenInARow
<1>6. Chosen(d, p) = Chosen(d, r)
  BY <1>2, <1>4, ChosenAgree
<1>. QED  BY <1>1, <1>5, <1>6, AtLevelIs DEF p, q, r, u, d, e

LEMMA NoneAtLevel ==
    ASSUME NEW t \in Seq(AnyLine), NEW l, \A i \in 1 .. Len(t) : t[i].level # l
    PROVE  AtLevel(t, l) = <<>>
<1>. DEFINE e == Entries(t)  q == {i \in DOMAIN t : t[i].level = l}
<1>1. e \in Seq(AnyEntry) /\ Len(e) = Len(t)
  BY LinesHaveEntries
<1>2. \A n \in 1 .. Len(e) : n \notin q
  BY <1>1
<1>. HIDE DEF e, q
<1>3. Chosen(e, q) = <<>>
  BY <1>1, <1>2, NoneChosen
<1>. QED  BY <1>3, AtLevelIs DEF e, q

(* The places of the lines one level below line i. *)
PlacesBelow(t, i) ==
    {j \in DOMAIN t : /\ j > i /\ t[j].level = t[i].level + 1
                      /\ \A k \in i + 1 .. j : t[k].level > t[i].level}

LEMMA BelowIs == \A t, i : Below(t, i) = Chosen(Entries(t), PlacesBelow(t, i))
BY DEF Below, PlacesBelow

(* Nothing that follows a line of the same or a lower level lies below a line. *)
LEMMA BelowLeft ==
    ASSUME NEW s \in Seq(AnyLine), NEW t \in Seq(AnyLine), NEW i \in 1 .. Len(s),
           Len(t) > 0 => t[1].level <= s[i].level
    PROVE  Below(s \o t, i) = Below(s, i)
<1>. DEFINE u == s \o t  d == Entries(s)  e == Entries(t)
            p == PlacesBelow(u, i)  r == PlacesBelow(s, i)  a == Len(s)  b == Len(t)
<1>0. a \in Nat /\ b \in Nat /\ DOMAIN s = 1 .. a /\ DOMAIN t = 1 .. b
  OBVIOUS
<1>1. /\ u \in Seq(AnyLine) /\ Len(u) = a + b /\ Entries(u) = d \o e
      /\ \A j \in 1 .. a : u[j] = s[j]
      /\ \A j \in 1 .. b : u[a + j] = t[j]
  BY TwoInARow
<1>2. /\ d \in Seq(AnyEntry) /\ Len(d) = a
      /\ e \in Seq(AnyEntry) /\ Len(e) = b
  BY LinesHaveEntries
<1>3. /\ \A j \in 1 .. a : s[j].level \in Nat
      /\ \A j \in 1 .. b : t[j].level \in Nat
  BY LinesHaveEntries
<1>. HIDE DEF u, d, e
<1>4. DOMAIN u = 1 .. a + b
  BY <1>1
<1>5. i \in 1 .. a /\ (b > 0 => t[1].level <= s[i].level)
  OBVIOUS
<1>. HIDE DEF a, b
<1>6. ASSUME NEW n \in 1 .. b  PROVE a + n \notin p
  <2>1. 1 \in 1 .. b /\ b > 0 /\ a + 1 \in i + 1 .. a + n
    BY <1>0, <1>5
  <2>2. u[a + 1].level <= u[i].level
    BY <1>1, <1>5, <2>1
  <2>3. ~ (u[a + 1].level > u[i].level)
    BY <1>1, <1>3, <1>5, <2>1, <2>2
  <2>. QED  BY <2>1, <2>3 DEF PlacesBelow
<1>7. ASSUME NEW n \in 1 .. a  PROVE n \in p <=> n \in r
  <2>1. n \in 1 .. a + b /\ \A k \in i + 1 .. n : k \in 1 .. a
    BY <1>0, <1>5
  <2>2. u[n] = s[n] /\ u[i] = s[i] /\ \A k \in i + 1 .. n : u[k] = s[k]
    BY <1>1, <1>5, <2>1
  <2>. QED  BY <1>0, <1>4, <2>1, <2>2 DEF PlacesBelow
<1>. HIDE DEF p, r
<1>8. Chosen(d \o e, p) = Chosen(d, p) \o Chosen(e, {})
  <2>1. Shifted(p, {}, Len(d), Len(e))
    BY <1>2, <1>6 DEF Shifted
  <2>2. ChosenInARow(d, e, p, {})
    BY <1>2, <2>1, ChosenFromTwo
  <2>. QED  BY <2>2 DEF ChosenInARow
<1>9. Chosen(e, {}) = <<>> /\ Chosen(d, p) = Chosen(d, r) /\ Chosen(d, p) \in Seq(AnyEntry)
  <2>1. Chosen(e, {}) = <<>>
    <3>1. \A n \in 1 .. Len(e) : n \notin {}
      OBVIOUS
    <3>. QED  BY <1>2, <3>1, NoneChosen
  <2>2. Chosen(d, p) = Chosen(d, r)
    BY <1>2, <1>7, ChosenAgree
  <2>3. Chosen(d, p) \in Seq(AnyEntry)
    BY <1>2, ChosenType
  <2>. QED  BY <2>1, <2>2, <2>3
<1>10. Chosen(d \o e, p) = Chosen(d, r)
  BY <1>8, <1>9, ConcatEmptySeq
<1>. QED  BY <1>1, <1>10, BelowIs DEF p, r, u, d, e

(* What lies below a line does not depend on what comes before it. *)
LEMMA BelowRight ==
    ASSUME NEW s \in Seq(AnyLine), NEW t \in Seq(AnyLine), NEW i \in 1 .. Len(t)
    PROVE  Below(s \o t, Len(s) + i) = Below(t, i)
<1>. DEFINE u == s \o t  d == Entries(s)  e == Entries(t)  a == Len(s)  b == Len(t)
            p == PlacesBelow(u, a + i)  q == PlacesBelow(t, i)
<1>0. a \in Nat /\ b \in Nat /\ DOMAIN s = 1 .. a /\ DOMAIN t = 1 .. b /\ i \in 1 .. b
  OBVIOUS
<1>1. /\ u \in Seq(AnyLine) /\ Len(u) = a + b /\ Entries(u) = d \o e
      /\ \A j \in 1 .. a : u[j] = s[j]
      /\ \A j \in 1 .. b : u[a + j] = t[j]
  BY TwoInARow
<1>2. /\ d \in Seq(AnyEntry) /\ Len(d) = a
      /\ e \in Seq(AnyEntry) /\ Len(e) = b
  BY LinesHaveEntries
<1>. HIDE DEF u, d, e
<1>4. DOMAIN u = 1 .. a + b
  BY <1>1
<1>. HIDE DEF a, b
<1>5. ASSUME NEW n \in 1 .. b  PROVE n \in q <=> a + n \in p
  <2>0. a + n \in 1 .. a + b /\ (a + n > a + i <=> n > i)
    BY <1>0
  <2>1. u[a + n] = t[n] /\ u[a + i] = t[i]
    BY <1>0, <1>1
  <2>2. (\A k \in (a + i) + 1 .. a + n : u[k].level > t[i].level)
           <=> \A k \in i + 1 .. n : t[k].level > t[i].level
    <3>1. ASSUME NEW k \in i + 1 .. n
          PROVE  u[a + k] = t[k] /\ a + k \in (a + i) + 1 .. a + n
      <4>1. k \in 1 .. b /\ a + k \in (a + i) + 1 .. a + n
        BY <1>0
      <4>. QED  BY <1>1, <4>1
    <3>2. ASSUME NEW k \in (a + i) + 1 .. a + n
          PROVE  k - a \in i + 1 .. n /\ u[k] = t[k - a]
      <4>1. k - a \in i + 1 .. n /\ k - a \in 1 .. b /\ a + (k - a) = k
        BY <1>0
      <4>. QED  BY <1>1, <4>1
    <3>. QED  BY <3>1, <3>2
  <2>. QED  BY <1>0, <1>4, <2>0, <2>1, <2>2 DEF PlacesBelow
<1>6. \A n \in 1 .. a : n \notin p
  <2>1. \A n \in 1 .. a : ~ (n > a + i)
    BY <1>0
  <2>. QED  BY <2>1 DEF PlacesBelow
<1>. HIDE DEF p, q
<1>8. Chosen(d \o e, p) = Chosen(d, p) \o Chosen(e, q)
  <2>1. Shifted(p, q, Len(d), Len(e))
    BY <1>2, <1>5 DEF Shifted
  <2>2. ChosenInARow(d, e, p, q)
    BY <1>2, <2>1, ChosenFromTwo
  <2>. QED  BY <2>2 DEF ChosenInARow
<1>9. Chosen(d, p) = <<>>
  BY <1>2, <1>6, NoneChosen
<1>10. Chosen(e, q) \in Seq(AnyEntry)
  BY <1>2, ChosenType
<1>11. Chosen(d \o e, p) = Chosen(e, q)
  BY <1>8, <1>9, <1>10, ConcatEmptySeq
<1>. QED  BY <1>1, <1>11, BelowIs DEF p, q, u, d, e, a

(* Below the line of a directory stands what is one level below it. *)
LEMMA BelowFirst ==
    ASSUME NEW x \in AnyLine, NEW t \in Seq(AnyLine), Deeper(t, x.level)
    PROVE  Below(<<x>> \o t, 1) = AtLevel(t, x.level + 1)
<1>. DEFINE s == <<x>>  u == s \o t  d == Entries(s)  e == Entries(t)  b == Len(t)
            p == PlacesBelow(u, 1)  q == {i \in DOMAIN t : t[i].level = x.level + 1}
<1>0. s \in Seq(AnyLine) /\ Len(s) = 1 /\ b \in Nat /\ DOMAIN t = 1 .. b /\ s[1] = x
  OBVIOUS
<1>. HIDE DEF s
<1>1. /\ u \in Seq(AnyLine) /\ Len(u) = 1 + b /\ Entries(u) = d \o e
      /\ \A j \in 1 .. 1 : u[j] = s[j]
      /\ \A j \in 1 .. b : u[1 + j] = t[j]
  <2>1. PICK r : r = s
    OBVIOUS
  <2>2. r \in Seq(AnyLine) /\ Len(r) = 1
    BY <1>0, <2>1
  <2>3. /\ r \o t \in Seq(AnyLine) /\ Len(r \o t) = Len(r) + Len(t)
        /\ \A j \in 1 .. Len(r) : (r \o t)[j] = r[j]
        /\ \A j \in 1 .. Len(t) : (r \o t)[Len(r) + j] = t[j]
        /\ Entries(r \o t) = Entries(r) \o Entries(t)
    BY <2>2, TwoInARow
  <2>. QED  BY <2>1, <2>2, <2>3
<1>2. /\ d \in Seq(AnyEntry) /\ Len(d) = 1
      /\ e \in Seq(AnyEntry) /\ Len(e) = b
  BY <1>0, LinesHaveEntries
<1>. HIDE DEF u, d, e
<1>4. DOMAIN u = 1 .. 1 + b /\ u[1] = x
  BY <1>0, <1>1
<1>. HIDE DEF b
<1>3. \A k \in 1 .. b : t[k].level > x.level
  BY DEF Deeper, b
<1>5. ASSUME NEW n \in 1 .. b  PROVE n \in q <=> 1 + n \in p
  <2>0. 1 + n \in 1 .. 1 + b /\ 1 + n > 1
    BY <1>0
  <2>1. u[1 + n] = t[n]
    BY <1>1
  <2>2. \A k \in 2 .. 1 + n : u[k].level > x.level
    <3>. SUFFICES ASSUME NEW k \in 2 .. 1 + n  PROVE u[k].level > x.level
      OBVIOUS
    <3>1. k - 1 \in 1 .. b /\ 1 + (k - 1) = k
      BY <1>0
    <3>. QED  BY <1>1, <1>3, <3>1
  <2>. QED  BY <1>0, <1>4, <2>0, <2>1, <2>2 DEF PlacesBelow
<1>6. \A n \in 1 .. 1 : n \notin p
  BY DEF PlacesBelow
<1>. HIDE DEF p, q
<1>8. Chosen(d \o e, p) = Chosen(d, p) \o Chosen(e, q)
  <2>1. Shifted(p, q, Len(d), Len(e))
    BY <1>2, <1>5 DEF Shifted
  <2>2. ChosenInARow(d, e, p, q)
    BY <1>2, <2>1, ChosenFromTwo
  <2>. QED  BY <2>2 DEF ChosenInARow
<1>9. Chosen(d, p) = <<>>
  BY <1>2, <1>6, NoneChosen
<1>10. Chosen(e, q) \in Seq(AnyEntry)
  BY <1>2, ChosenType
<1>11. Chosen(d \o e, p) = Chosen(e, q)
  BY <1>8, <1>9, <1>10, ConcatEmptySeq
<1>. QED  BY <1>1, <1>11, BelowIs, AtLevelIs DEF p, q, u, d, e, s

-------------------------------------------------------------------------------
(* The lines of a directory and of all that lies below it *)

(* The entries of the directory that e leads to. *)
Kids(base, e) ==
    IF IsDirectory(e) THEN Visible(Slots(ClusterOffset(base, e.cluster), ClusterSlots))
    ELSE <<>>

(* The lines t are those of a directory with the entries es; if there was room
   for them, each line has below it what is in the directory it stands for. *)
Whole(t, level, es, base) ==
    /\ t \in Seq(AnyLine)
    /\ \A i \in 1 .. Len(t) : t[i].level >= level
    /\ ~ Overrun(t) =>
          /\ AtLevel(t, level) = es
          /\ \A i \in 1 .. Len(t) :
                LegalEntry(t[i].entry) /\ Below(t, i) = Kids(base, t[i].entry)

LEMMA OneAtLevel ==
    ASSUME NEW x \in AnyLine
    PROVE  AtLevel(<<x>>, x.level) = <<x.entry>>
<1>. DEFINE s == <<x>>  d == Entries(s)  p == {i \in DOMAIN s : s[i].level = x.level}
            C == ChosenUpTo(d, p)
<1>1. s \in Seq(AnyLine) /\ Len(s) = 1 /\ s[1] = x /\ DOMAIN s = 1 .. 1
  OBVIOUS
<1>. HIDE DEF s
<1>2. 1 \in p
  BY <1>1
<1>3. d \in Seq(AnyEntry) /\ Len(d) = 1 /\ d[1] = x.entry
  BY <1>1, LinesHaveEntries
<1>. HIDE DEF d, p
<1>4. C[0] = <<>> /\ C[1] = Append(C[0], d[1])
  <2>1. \A n \in 1 .. Len(d) :
           C[n] = IF n \in p THEN Append(C[n - 1], d[n]) ELSE C[n - 1]
    BY <1>3, ChosenSteps
  <2>2. C[0] = <<>>
    BY <1>3, ChosenSteps
  <2>. HIDE DEF C
  <2>3. 1 \in 1 .. Len(d) /\ 1 - 1 = 0
    BY <1>3
  <2>. QED  BY <1>2, <2>1, <2>2, <2>3
<1>5. Chosen(d, p) = C[1]
  BY <1>3, ChosenIs
<1>6. Append(<<>>, x.entry) = <<x.entry>>
  OBVIOUS
<1>. QED  BY <1>3, <1>4, <1>5, <1>6, AtLevelIs DEF d, p, s

(* The line of an entry with all that lies below it. *)
LEMMA BlockIsWhole ==
    ASSUME NEW base, NEW level \in Nat, NEW e \in AnyEntry, LegalEntry(e),
           NEW sub, Whole(sub, level + 1, Kids(base, e), base)
    PROVE  Whole(<<Line(level, e)>> \o sub, level, <<e>>, base)
<1>1. PICK x \in AnyLine : x = Line(level, e)
  BY DEF AnyLine
<1>2. x.level = level /\ x.entry = e
  BY <1>1, LineIs
<1>3. PICK s \in Seq(AnyLine) : s = <<x>> /\ Len(s) = 1 /\ s[1] = x
  <2>1. <<x>> \in Seq(AnyLine) /\ Len(<<x>>) = 1 /\ <<x>>[1] = x
    OBVIOUS
  <2>. QED  BY <2>1, Zenon
<1>4. /\ sub \in Seq(AnyLine)
      /\ \A i \in 1 .. Len(sub) : sub[i].level >= level + 1 /\ sub[i].level \in Nat
  BY LinesHaveEntries DEF Whole
<1>5. PICK t : t = s \o sub
  OBVIOUS
<1>6. PICK n \in Nat : n = Len(sub)
  BY <1>4
<1>7. /\ t \in Seq(AnyLine) /\ Len(t) = 1 + n /\ t[1] = x
      /\ \A i \in 1 .. n : t[1 + i] = sub[i]
  <2>1. /\ s \o sub \in Seq(AnyLine) /\ Len(s \o sub) = Len(s) + Len(sub)
        /\ \A i \in 1 .. Len(s) : (s \o sub)[i] = s[i]
        /\ \A i \in 1 .. Len(sub) : (s \o sub)[Len(s) + i] = sub[i]
    BY <1>3, <1>4, TwoInARow
  <2>2. 1 \in 1 .. 1
    OBVIOUS
  <2>. QED  BY <1>3, <1>5, <1>6, <2>1, <2>2
<1>8. \A i \in 1 .. Len(t) : i = 1 \/ (i - 1 \in 1 .. n /\ t[i] = sub[i - 1])
  <2>1. \A i \in 1 .. 1 + n : i = 1 \/ (i - 1 \in 1 .. n /\ 1 + (i - 1) = i)
    OBVIOUS
  <2>. QED  BY <1>7, <2>1
<1>9. \A i \in 1 .. Len(t) : t[i].level >= level
  <2>1. ASSUME NEW i \in 1 .. Len(t)  PROVE t[i].level >= level
    <3>1. CASE i = 1
      BY <1>2, <1>7, <3>1
    <3>2. CASE i # 1
      <4>1. t[i].level >= level + 1 /\ t[i].level \in Nat
        BY <1>4, <1>6, <1>8, <3>2
      <4>. QED  BY <4>1
    <3>. QED  BY <3>1, <3>2
  <2>. QED  BY <2>1
<1>10. ASSUME ~ Overrun(t)
       PROVE  /\ AtLevel(t, level) = <<e>>
              /\ \A i \in 1 .. Len(t) :
                    LegalEntry(t[i].entry) /\ Below(t, i) = Kids(base, t[i].entry)
  <2>1. ~ Overrun(sub)
    <3>1. \A i \in 1 .. n : 1 + i \in 1 .. 1 + n
      OBVIOUS
    <3>2. DOMAIN t = 1 .. 1 + n /\ DOMAIN sub = 1 .. n
      BY <1>4, <1>6, <1>7
    <3>. QED  BY <1>7, <1>10, <3>1, <3>2 DEF Overrun
  <2>2. /\ AtLevel(sub, level + 1) = Kids(base, e)
        /\ \A i \in 1 .. n :
              LegalEntry(sub[i].entry) /\ Below(sub, i) = Kids(base, sub[i].entry)
    BY <1>6, <2>1 DEF Whole
  <2>3. AtLevel(t, level) = <<e>>
    <3>1. AtLevel(s \o sub, level) = AtLevel(s, level) \o AtLevel(sub, level)
      BY <1>3, <1>4, AtLevelConcat
    <3>2. AtLevel(s, level) = <<e>>
      BY <1>2, <1>3, OneAtLevel
    <3>3. AtLevel(sub, level) = <<>>
      <4>1. \A i \in 1 .. Len(sub) : sub[i].level # level
        BY <1>4
      <4>. QED  BY <1>4, <4>1, NoneAtLevel
    <3>4. <<e>> \o <<>> = <<e>>
      OBVIOUS
    <3>. QED  BY <1>5, <3>1, <3>2, <3>3, <3>4
  <2>4. Below(t, 1) = Kids(base, e)
    <3>1. Deeper(sub, x.level)
      <4>1. \A i \in 1 .. Len(sub) : sub[i].level > level
        BY <1>4
      <4>. QED  BY <1>2, <4>1 DEF Deeper
    <3>2. Below(<<x>> \o sub, 1) = AtLevel(sub, x.level + 1)
      BY <1>4, <3>1, BelowFirst
    <3>. QED  BY <1>2, <1>3, <1>5, <2>2, <3>2
  <2>5. ASSUME NEW j \in 1 .. n  PROVE Below(t, 1 + j) = Below(sub, j)
    <3>1. Below(s \o sub, Len(s) + j) = Below(sub, j)
      BY <1>3, <1>4, <1>6, BelowRight
    <3>. QED  BY <1>3, <1>5, <3>1
  <2>6. ASSUME NEW i \in 1 .. Len(t)
        PROVE  LegalEntry(t[i].entry) /\ Below(t, i) = Kids(base, t[i].entry)
    <3>1. CASE i = 1
      BY <1>2, <1>7, <2>4, <3>1
    <3>2. CASE i # 1
      <4>1. PICK j \in 1 .. n : j = i - 1 /\ t[i] = sub[j] /\ 1 + j = i
        BY <1>7, <1>8, <3>2
      <4>. QED  BY <2>2, <2>5, <4>1
    <3>. QED  BY <3>1, <3>2
  <2>. QED  BY <2>3, <2>6
<1>11. Whole(t, level, <<e>>, base)
  BY <1>7, <1>9, <1>10 DEF Whole
<1>. QED  BY <1>1, <1>3, <1>5, <1>11

LEMMA TwoAreWhole ==
    ASSUME NEW base, NEW level \in Nat, NEW es, NEW fs, NEW s, NEW t,
           Whole(s, level, es, base), Whole(t, level, fs, base),
           Len(t) > 0 => t[1].level <= level
    PROVE  Whole(s \o t, level, es \o fs, base)
<1>1. PICK a \in Nat, b \in Nat : a = Len(s) /\ b = Len(t)
  BY DEF Whole
<1>2. /\ s \in Seq(AnyLine) /\ t \in Seq(AnyLine)
      /\ \A i \in 1 .. a : s[i].level >= level /\ s[i].level \in Nat
      /\ \A i \in 1 .. b : t[i].level >= level /\ t[i].level \in Nat
  BY <1>1, LinesHaveEntries DEF Whole
<1>3. PICK u : u = s \o t
  OBVIOUS
<1>4. /\ u \in Seq(AnyLine) /\ Len(u) = a + b
      /\ \A i \in 1 .. a : u[i] = s[i]
      /\ \A i \in 1 .. b : u[a + i] = t[i]
  BY <1>1, <1>2, <1>3, TwoInARow
<1>5. ASSUME NEW i \in 1 .. Len(u)
      PROVE  \/ i \in 1 .. a /\ u[i] = s[i]
             \/ \E j \in 1 .. b : i = a + j /\ u[i] = t[j]
  <2>1. i \in 1 .. a \/ (i - a \in 1 .. b /\ i = a + (i - a))
    BY <1>4
  <2>. QED  BY <1>4, <2>1
<1>6. \A i \in 1 .. Len(u) : u[i].level >= level
  BY <1>2, <1>5
<1>7. ASSUME ~ Overrun(u)
      PROVE  /\ AtLevel(u, level) = es \o fs
             /\ \A i \in 1 .. Len(u) :
                   LegalEntry(u[i].entry) /\ Below(u, i) = Kids(base, u[i].entry)
  <2>1. ~ Overrun(s) /\ ~ Overrun(t)
    <3>1. /\ \A i \in 1 .. b : a + i \in 1 .. a + b
          /\ \A i \in 1 .. a : i \in 1 .. a + b
      OBVIOUS
    <3>2. DOMAIN u = 1 .. a + b /\ DOMAIN s = 1 .. a /\ DOMAIN t = 1 .. b
      BY <1>1, <1>2, <1>4
    <3>. QED  BY <1>4, <1>7, <3>1, <3>2 DEF Overrun
  <2>2. /\ AtLevel(s, level) = es /\ AtLevel(t, level) = fs
        /\ \A i \in 1 .. a :
              LegalEntry(s[i].entry) /\ Below(s, i) = Kids(base, s[i].entry)
        /\ \A i \in 1 .. b :
              LegalEntry(t[i].entry) /\ Below(t, i) = Kids(base, t[i].entry)
    BY <1>1, <2>1 DEF Whole
  <2>3. AtLevel(u, level) = es \o fs
    <3>1. AtLevel(s \o t, level) = AtLevel(s, level) \o AtLevel(t, level)
      BY <1>2, AtLevelConcat
    <3>. QED  BY <1>3, <2>2, <3>1
  <2>4. ASSUME NEW i \in 1 .. a  PROVE Below(u, i) = Below(s, i)
    <3>1. Len(t) > 0 => t[1].level <= s[i].level
      <4>. SUFFICES ASSUME Len(t) > 0  PROVE t[1].level <= s[i].level
        OBVIOUS
      <4>1. 1 \in 1 .. b
        BY <1>1
      <4>2. t[1].level <= level /\ t[1].level \in Nat /\ s[i].level >= level
            /\ s[i].level \in Nat
        BY <1>2, <4>1
      <4>. QED  BY <4>2
    <3>. QED  BY <1>1, <1>2, <1>3, <3>1, BelowLeft
  <2>5. ASSUME NEW j \in 1 .. b  PROVE Below(u, a + j) = Below(t, j)
    BY <1>1, <1>2, <1>3, BelowRight
  <2>6. ASSUME NEW i \in 1 .. Len(u)
        PROVE  LegalEntry(u[i].entry) /\ Below(u, i) = Kids(base, u[i].entry)
    BY <1>5, <2>2, <2>4, <2>5
  <2>. QED  BY <2>3, <2>6
<1>8. Whole(u, level, es \o fs, base)
  BY <1>4, <1>6, <1>7 DEF Whole
<1>. QED  BY <1>3, <1>8

LEMMA NothingIsWhole ==
    ASSUME NEW base, NEW level \in Nat  PROVE Whole(<<>>, level, <<>>, base)
<1>1. PICK t : t = <<>>
  OBVIOUS
<1>2. t \in Seq(AnyLine) /\ Len(t) = 0
  BY <1>1
<1>3. AtLevel(t, level) = <<>>
  <2>1. \A i \in 1 .. Len(t) : t[i].level # level
    BY <1>2
  <2>. QED  BY <1>2, <2>1, NoneAtLevel
<1>4. Whole(t, level, <<>>, base)
  BY <1>2, <1>3 DEF Whole
<1>. QED  BY <1>1, <1>4

(* The first entries of a directory. *)
Firsts(es, n) == [i \in 1 .. n |-> es[i]]

LEMMA FirstsSteps ==
    ASSUME NEW S, NEW es \in Seq(S)
    PROVE  /\ Firsts(es, 0) = <<>> /\ Firsts(es, Len(es)) = es
           /\ \A n \in 1 .. Len(es) : Firsts(es, n) = Firsts(es, n - 1) \o <<es[n]>>
<1>1. Firsts(es, 0) = <<>> /\ Firsts(es, Len(es)) = es
  BY DEF Firsts
<1>2. ASSUME NEW n \in 1 .. Len(es)
      PROVE  Firsts(es, n) = Firsts(es, n - 1) \o <<es[n]>>
  <2>1. PICK m \in Nat : m = n - 1 /\ m + 1 = n /\ \A i \in 1 .. n : i \in 1 .. Len(es)
    OBVIOUS
  <2>2. PICK f : f = Firsts(es, m)
    OBVIOUS
  <2>3. f \in Seq(S) /\ Len(f) = m /\ \A i \in 1 .. m : f[i] = es[i]
    BY <2>1, <2>2 DEF Firsts
  <2>4. PICK x \in S : x = es[n]
    OBVIOUS
  <2>5. PICK g : g = Firsts(es, n)
    OBVIOUS
  <2>6. g \in Seq(S) /\ Len(g) = n /\ \A i \in 1 .. n : g[i] = es[i]
    BY <2>1, <2>5 DEF Firsts
  <2>7. PICK h : h = Append(f, x)
    OBVIOUS
  <2>8. h \in Seq(S) /\ Len(h) = n /\ \A i \in 1 .. n : h[i] = es[i]
    <3>1. h \in Seq(S) /\ Len(h) = m + 1 /\ h[m + 1] = x /\ \A i \in 1 .. m : h[i] = f[i]
      BY <2>3, <2>7, AppendProperties
    <3>2. \A i \in 1 .. n : i = n \/ i \in 1 .. m
      BY <2>1
    <3>. QED  BY <2>1, <2>3, <2>4, <3>1, <3>2
  <2>9. g = h
    BY <2>6, <2>8, SeqEqual
  <2>10. h = f \o <<x>>
    BY <2>3, <2>7, AppendIsConcat
  <2>. QED  BY <2>1, <2>2, <2>4, <2>5, <2>9, <2>10
<1>. QED  BY <1>1, <1>2

(* Where the tree is looked for, the directories lead on to such places. *)
LEMMA DirectoriesLeadOn ==
    ASSUME NEW base \in Offsets, NEW e, LegalEntry(e), IsDirectory(e)
    PROVE  ClusterOffset(base, e.cluster) \in Offsets
<1>1. PICK c \in Clusters : c = e.cluster
  BY DEF LegalEntry
<1>2. c \in Nat /\ c >= 2 /\ ClusterSlots \in Nat
  BY SizesAreNumbers
<1>3. PICK d \in Nat : d = (c - 2) * ClusterSlots
  BY <1>2
<1>4. root_directory_offset \in Nat
  BY SizesAreNumbers DEF root_directory_offset
<1>5. base + d \in Offsets
  BY <1>4 DEF Offsets
<1>. QED  BY <1>1, <1>3, <1>5 DEF ClusterOffset

LEMMA ListingIsWhole ==
    ASSUME volume \in Volumes, NEW base \in Offsets, NEW level \in Nat,
           NEW es \in Seq(AnyEntry), \A i \in 1 .. Len(es) : LegalEntry(es[i]),
           NEW below \in [Int -> Seq(AnyLine)],
           \A k \in Offsets :
              Whole(below[k], level + 1, Visible(Slots(k, ClusterSlots)), base)
    PROVE  Whole(Listing(es, level, base, below), level, es, base)
<1>. DEFINE F == ListingUpTo(es, level, base, below)
            G == [n \in 0 .. Len(es) |-> Whole(F[n], level, Firsts(es, n), base)]
<1>0. Len(es) \in Nat /\ base \in Int
  BY DEF Offsets
<1>1. /\ F[0] = <<>>
      /\ \A n \in 1 .. Len(es) :
            F[n] = F[n - 1] \o (<<Line(level, es[n])>> \o Under(es[n], base, below))
  BY <1>0, ListingSteps
<1>. HIDE DEF F
<1>2. G[0] \in {TRUE}
  <2>1. 0 \in 0 .. Len(es)
    BY <1>0
  <2>2. Whole(<<>>, level, <<>>, base)
    BY NothingIsWhole
  <2>. QED  BY <1>1, <2>1, <2>2, FirstsSteps
<1>3. ASSUME NEW n \in 1 .. Len(es), G[n - 1] \in {TRUE}  PROVE G[n] \in {TRUE}
  <2>1. n \in 0 .. Len(es) /\ n - 1 \in 0 .. Len(es)
    BY <1>0
  <2>2. Whole(F[n - 1], level, Firsts(es, n - 1), base)
    BY <1>3, <2>1
  <2>3. PICK e \in AnyEntry : e = es[n] /\ LegalEntry(e)
    OBVIOUS
  <2>4. PICK sub : sub = Under(e, base, below)
    OBVIOUS
  <2>5. Whole(sub, level + 1, Kids(base, e), base)
    <3>1. CASE IsDirectory(e)
      <4>1. PICK k \in Offsets : k = ClusterOffset(base, e.cluster)
        BY <2>3, <3>1, DirectoriesLeadOn
      <4>2. sub = below[k] /\ Kids(base, e) = Visible(Slots(k, ClusterSlots))
        BY <2>4, <3>1, <4>1 DEF Under, Kids
      <4>. QED  BY <4>2
    <3>2. CASE ~ IsDirectory(e)
      <4>1. sub = <<>> /\ Kids(base, e) = <<>> /\ level + 1 \in Nat
        BY <2>4, <3>2 DEF Under, Kids
      <4>. QED  BY <4>1, NothingIsWhole
    <3>. QED  BY <3>1, <3>2
  <2>6. PICK block : block = <<Line(level, e)>> \o sub
    OBVIOUS
  <2>7. Whole(block, level, <<e>>, base)
    BY <2>3, <2>5, <2>6, BlockIsWhole
  <2>8. block[1].level = level
    <3>1. PICK x \in AnyLine : x = Line(level, e) /\ x.level = level
      BY LineIs DEF AnyLine
    <3>2. sub \in Seq(AnyLine)
      BY <2>5 DEF Whole
    <3>3. (<<x>> \o sub)[1] = x
      BY <3>2
    <3>. QED  BY <2>6, <3>1, <3>3
  <2>9. Whole(F[n - 1] \o block, level, Firsts(es, n - 1) \o <<e>>, base)
    <3>1. Len(block) > 0 => block[1].level <= level
      BY <2>8
    <3>. QED  BY <2>2, <2>7, <3>1, TwoAreWhole
  <2>10. F[n] = F[n - 1] \o block /\ Firsts(es, n) = Firsts(es, n - 1) \o <<e>>
    BY <1>1, <2>3, <2>4, <2>6, FirstsSteps
  <2>. QED  BY <2>1, <2>9, <2>10
<1>4. \A n \in 0 .. Len(es) : G[n] \in {TRUE}
  <2>. HIDE DEF G
  <2>. QED  BY <1>0, <1>2, <1>3, StepByStep
<1>5. Whole(F[Len(es)], level, Firsts(es, Len(es)), base)
  <2>1. Len(es) \in 0 .. Len(es)
    BY <1>0
  <2>. QED  BY <1>4, <2>1
<1>. QED  BY <1>5, FirstsSteps, ListingIs DEF F

LEMMA LinesAreWhole ==
    ASSUME volume \in Volumes, NEW base \in Offsets
    PROVE  \A room \in 0 .. MaxLevel + 1 : \A k \in Offsets :
              Whole(LinesOf(base)[room][k], MaxLevel + 1 - room, EntriesAt(k, room), base)
<1>. DEFINE F == LinesOf(base)  len == MaxLevel + 1
            G == [n \in 0 .. len |->
                     \A k \in Offsets : Whole(F[n][k], len - n, EntriesAt(k, n), base)]
<1>0. len \in Nat /\ base \in Int /\ Offsets \subseteq Int
  BY SizesAreNumbers DEF Offsets
<1>1. /\ F[0] = [k \in Int |-> <<Line(MaxLevel + 1, End)>>]
      /\ \A room \in 1 .. MaxLevel + 1 :
            F[room] = [k \in Int |-> Listing(EntriesAt(k, room),
                          MaxLevel + 1 - room, base, F[room - 1])]
      /\ \A room \in 0 .. MaxLevel + 1 : F[room] \in [Int -> Seq(AnyLine)]
  BY <1>0, LinesSteps
<1>. HIDE DEF F
<1>2. G[0] \in {TRUE}
  <2>1. 0 \in 0 .. len /\ len - 0 = len
    BY <1>0
  <2>2. PICK t : t = <<Line(MaxLevel + 1, End)>>
    OBVIOUS
  <2>3. \A k \in Offsets : F[0][k] = t
    BY <1>0, <1>1, <2>2
  <2>4. PICK x \in AnyLine : x = Line(MaxLevel + 1, End) /\ x.level = MaxLevel + 1
    <3>1. MaxLevel + 1 \in Nat /\ End \in AnyEntry
      BY SizesAreNumbers DEF AnyEntry
    <3>2. Line(MaxLevel + 1, End) \in AnyLine
      BY <3>1 DEF AnyLine
    <3>. QED  BY <3>2, LineIs
  <2>5. t \in Seq(AnyLine) /\ Len(t) = 1 /\ t[1] = x /\ DOMAIN t = 1 .. 1
    BY <2>2, <2>4
  <2>6. Overrun(t) /\ \A i \in 1 .. Len(t) : t[i].level >= len
    BY <2>4, <2>5, SizesAreNumbers DEF Overrun
  <2>7. \A k \in Offsets : Whole(F[0][k], len - 0, EntriesAt(k, 0), base)
    BY <2>1, <2>3, <2>5, <2>6 DEF Whole
  <2>. QED  BY <2>1, <2>7
<1>3. ASSUME NEW n \in 1 .. len, G[n - 1] \in {TRUE}  PROVE G[n] \in {TRUE}
  <2>1. /\ n \in 0 .. len /\ n - 1 \in 0 .. len /\ len - n \in Nat
        /\ len - (n - 1) = (len - n) + 1 /\ len - (n - 1) # 0
    BY <1>0
  <2>2. PICK level \in Nat : level = len - n
    BY <2>1
  <2>3. PICK below : below = F[n - 1]
    OBVIOUS
  <2>4. below \in [Int -> Seq(AnyLine)]
    BY <1>1, <2>1, <2>3
  <2>5. \A k \in Offsets : Whole(below[k], level + 1, Visible(Slots(k, ClusterSlots)), base)
    <3>1. \A k \in Offsets : Whole(below[k], len - (n - 1), EntriesAt(k, n - 1), base)
      BY <1>3, <2>1, <2>3
    <3>2. \A k : EntriesAt(k, n - 1) = Visible(Slots(k, ClusterSlots))
      <4>1. PICK r : r = n - 1 /\ MaxLevel + 1 - r # 0
        BY <2>1, SizesAreNumbers
      <4>. QED  BY <4>1 DEF EntriesAt
    <3>. QED  BY <2>1, <2>2, <3>1, <3>2
  <2>6. ASSUME NEW k \in Offsets  PROVE Whole(F[n][k], len - n, EntriesAt(k, n), base)
    <3>. DEFINE Here == {e \in AnyEntry : LegalEntry(e)}
    <3>1. PICK m \in Nat : m = IF MaxLevel + 1 - n = 0 THEN RootSlots ELSE ClusterSlots
      BY SizesAreNumbers
    <3>2. \A j \in Int : j >= k => SlotAt(j) \in Here
      <4>1. \A j \in Int : j >= k => j >= root_directory_offset
        BY SizesAreNumbers DEF Offsets, root_directory_offset
      <4>. QED  BY <4>1, SlotsAreEntries DEF AnyEntry
    <3>3. PICK es : es = EntriesAt(k, n)
      OBVIOUS
    <3>4. es \in Seq(Here)
      <4>1. k \in Int
        BY <1>0
      <4>. HIDE DEF Here
      <4>2. Visible(Slots(k, m)) \in Seq(Here)
        BY <3>2, <4>1, EntriesAtType
      <4>. QED  BY <3>1, <3>3, <4>2 DEF EntriesAt
    <3>5. es \in Seq(AnyEntry) /\ \A i \in 1 .. Len(es) : LegalEntry(es[i])
      <4>1. \A i \in 1 .. Len(es) : es[i] \in Here
        BY <3>4
      <4>2. Here \subseteq AnyEntry
        OBVIOUS
      <4>. HIDE DEF Here
      <4>3. es \in Seq(AnyEntry)
        BY <3>4, <4>2, SeqMonotonic
      <4>. QED  BY <4>1, <4>3 DEF Here
    <3>6. Whole(Listing(es, level, base, below), level, es, base)
      BY <2>4, <2>5, <3>5, ListingIsWhole
    <3>7. F[n][k] = Listing(es, level, base, below)
      <4>1. F[n] = [j \in Int |-> Listing(EntriesAt(j, n), MaxLevel + 1 - n, base, F[n - 1])]
        BY <1>1
      <4>2. F[n][k] = Listing(EntriesAt(k, n), MaxLevel + 1 - n, base, F[n - 1])
        BY <1>0, <4>1
      <4>3. level = MaxLevel + 1 - n
        BY <2>2, SizesAreNumbers
      <4>. QED  BY <2>3, <3>3, <4>2, <4>3
    <3>. QED  BY <2>2, <3>3, <3>6, <3>7
  <2>. QED  BY <2>1, <2>6
<1>4. \A n \in 0 .. len : G[n] \in {TRUE}
  <2>. HIDE DEF G
  <2>. QED  BY <1>0, <1>2, <1>3, StepByStep
<1>5. ASSUME NEW n \in 0 .. len, NEW k \in Offsets
      PROVE  Whole(F[n][k], len - n, EntriesAt(k, n), base)
  BY <1>4
<1>6. \A n \in 0 .. len : len - n = MaxLevel + 1 - n
  BY SizesAreNumbers
<1>. QED  BY <1>5, <1>6 DEF F

LEMMA RootIsWhole ==
    ASSUME volume \in Volumes, NEW base \in Offsets
    PROVE  Whole(print_directory(base), 0, Visible(volume.root), base)
<1>1. MaxLevel + 1 \in 0 .. MaxLevel + 1 /\ MaxLevel + 1 - (MaxLevel + 1) = 0
  BY SizesAreNumbers
<1>2. root_directory_offset \in Offsets
  BY SizesAreNumbers DEF root_directory_offset, Offsets
<1>3. Whole(LinesOf(base)[MaxLevel + 1][root_directory_offset], MaxLevel + 1 - (MaxLevel + 1),
            EntriesAt(root_directory_offset, MaxLevel + 1), base)
  BY <1>1, <1>2, LinesAreWhole
<1>4. EntriesAt(root_directory_offset, MaxLevel + 1) = Visible(volume.root)
  <2>1. EntriesAt(root_directory_offset, MaxLevel + 1) = Visible(RootScan)
    BY <1>1 DEF EntriesAt, RootScan
  <2>. QED  BY <2>1, RootIsVisible
<1>. QED  BY <1>1, <1>3, <1>4, PrintsLines

-------------------------------------------------------------------------------
(* What tree and ls print *)

LEMMA ReplyIs ==
    \A c, n, d, p : /\ Reply(c, n, d, p).command = c /\ Reply(c, n, d, p).dir = d
                    /\ Reply(c, n, d, p).printed = p
BY DEF Reply

LEMMA ShowReplies ==
    ASSUME NEW command, NEW lines, Show(command, lines)
    PROVE  /\ volume' = volume
           /\ \/ reply' = reply
              \/ /\ ~ Overrun(lines) /\ reply'.command = command
                 /\ reply'.dir = current_directory /\ reply'.printed = lines
<1>1. /\ volume' = volume
      /\ \/ reply' = reply
         \/ ~ Overrun(lines) /\ reply' = Reply(command, "", current_directory, lines)
  BY DEF Show
<1>2. PICK n : n = ""
  OBVIOUS
<1>3. \/ reply' = reply
      \/ ~ Overrun(lines) /\ reply' = Reply(command, n, current_directory, lines)
  BY <1>1, <1>2, Zenon
<1>4. /\ Reply(command, n, current_directory, lines).command = command
      /\ Reply(command, n, current_directory, lines).dir = current_directory
      /\ Reply(command, n, current_directory, lines).printed = lines
  BY ReplyIs
<1>5. CASE reply' = reply
  BY <1>1, <1>5
<1>6. CASE ~ Overrun(lines) /\ reply' = Reply(command, n, current_directory, lines)
  BY <1>1, <1>4, <1>6
<1>. QED  BY <1>3, <1>5, <1>6

(* The base that the caller in list_files or print_tree passes. *)
LEMMA BasesAreOffsets == root_directory_offset \in Offsets /\ data_region_offset \in Offsets
BY SizesAreNumbers DEF Offsets, data_region_offset, root_directory_offset

(* The lines of the tree, which are TreeIsHierarchy of the last reply. *)
IsTree(lines) ==
    /\ AtLevel(lines, 0) = RootEntries
    /\ \A i \in DOMAIN lines :
           Below(lines, i) = IF IsDirectory(lines[i].entry)
                             THEN Visible(volume.slots[lines[i].entry.cluster])
                             ELSE <<>>

LEMMA TreeIsPrinted ==
    ASSUME volume \in Volumes, ~ Overrun(print_directory(data_region_offset))
    PROVE  IsTree(print_directory(data_region_offset))
<1>1. PICK t : t = print_directory(data_region_offset)
  OBVIOUS
<1>2. PICK base \in Offsets : base = data_region_offset
  BY BasesAreOffsets
<1>3. Whole(t, 0, Visible(volume.root), base)
  BY <1>1, <1>2, RootIsWhole
<1>4. /\ t \in Seq(AnyLine) /\ AtLevel(t, 0) = Visible(volume.root)
      /\ \A i \in 1 .. Len(t) :
            LegalEntry(t[i].entry) /\ Below(t, i) = Kids(base, t[i].entry)
  BY <1>1, <1>3 DEF Whole
<1>5. ASSUME NEW e, LegalEntry(e)
      PROVE  Kids(base, e) = IF IsDirectory(e) THEN Visible(volume.slots[e.cluster]) ELSE <<>>
  <2>1. CASE IsDirectory(e)
    <3>1. PICK c \in Clusters : c = e.cluster
      BY <1>5, <2>1 DEF LegalEntry
    <3>2. Visible(Slots(ClusterOffset(data_region_offset, c), ClusterSlots))
              = Visible(volume.slots[c])
      BY ClusterIsVisible
    <3>. QED  BY <1>2, <2>1, <3>1, <3>2 DEF Kids
  <2>. QED  BY <2>1 DEF Kids
<1>6. DOMAIN t = 1 .. Len(t)
  BY <1>4
<1>7. IsTree(t)
  BY <1>4, <1>5, <1>6 DEF IsTree, RootEntries
<1>. QED  BY <1>1, <1>7

LEMMA TreeMeans ==
    TreeIsHierarchy <=> (reply.command = "tree" => IsTree(reply.printed))
BY DEF TreeIsHierarchy, IsTree, Lines

LEMMA TreeIsKept ==
    ASSUME UNCHANGED volume
    PROVE  \A lines : IsTree(lines) => IsTree(lines)'
BY DEF IsTree, RootEntries

(* tree prints the tree of the volume: on top the entries of the root directory,
   and below each directory, and nowhere else, its own entries in their order. *)
THEOREM TreeIsAlwaysHierarchy == Spec => []TreeIsHierarchy
<1>1. Init => TreeIsHierarchy
  <2>1. NoReply.command # "tree"
    BY DEF NoReply, Reply
  <2>. QED  BY <2>1 DEF Init, TreeIsHierarchy
<1>2. ASSUME PlaceInv, TreeIsHierarchy, [Next]_vars
      PROVE  TreeIsHierarchy'
  <2>0. (TreeIsHierarchy <=> (reply.command = "tree" => IsTree(reply.printed)))'
    BY TreeMeans, PTL
  <2>1. ASSUME volume' = volume, reply' = reply  PROVE TreeIsHierarchy'
    <3>1. PICK t : t = reply.printed
      OBVIOUS
    <3>2. reply.command = "tree" => IsTree(t)
      BY <1>2, <3>1, TreeMeans
    <3>3. IsTree(t) => IsTree(t)'
      BY <2>1, TreeIsKept
    <3>4. reply'.command = "tree" => IsTree(t)'
      BY <2>1, <3>2, <3>3
    <3>. QED  BY <2>1, <3>1, <3>4 DEF TreeIsHierarchy, IsTree, Lines
  <2>2. ASSUME reply'.command # "tree"  PROVE TreeIsHierarchy'
    BY <2>2 DEF TreeIsHierarchy
  <2>3. CASE print_tree
    <3>1. PICK t : t = print_directory(data_region_offset)
      OBVIOUS
    <3>2. Show("tree", t)
      BY <2>3, <3>1 DEF print_tree
    <3>3. CASE volume' = volume /\ reply' = reply
      BY <2>1, <3>3
    <3>4. CASE volume' = volume /\ ~ Overrun(t) /\ reply'.printed = t
      <4>1. IsTree(t)
        BY <1>2, <3>1, <3>4, TreeIsPrinted DEF PlaceInv
      <4>2. IsTree(t)'
        BY <3>4, <4>1, TreeIsKept
      <4>. QED  BY <3>4, <4>2 DEF TreeIsHierarchy, IsTree, Lines
    <3>. QED  BY <3>2, <3>3, <3>4, ShowReplies
  <2>4. CASE list_files
    <3>1. PICK t : Show("ls", t)
      BY <2>4 DEF list_files
    <3>. QED  BY <2>1, <2>2, <3>1, ShowReplies
  <2>5. ASSUME NEW name, read(name)  PROVE TreeIsHierarchy'
    BY <2>2, <2>5, ReplyIs DEF read
  <2>6. ASSUME NEW name, change_directory(name)  PROVE TreeIsHierarchy'
    BY <2>2, <2>6 DEF change_directory, NoReply, Reply
  <2>7. CASE exit
    BY <2>2, <2>7 DEF exit, NoReply, Reply
  <2>8. CASE UNCHANGED vars
    BY <2>1, <2>8 DEF vars
  <2>. QED  BY <1>2, <2>3, <2>4, <2>5, <2>6, <2>7, <2>8 DEF Next
<1>. QED  BY <1>1, <1>2, PlaceInvAlways, PTL DEF Spec

LEMMA ListingOfOne ==
    ASSUME NEW S, NEW es \in Seq(S)
    PROVE  Entries([i \in DOMAIN es |-> Line(0, es[i])]) = es
<1>1. PICK t : t = [i \in DOMAIN es |-> Line(0, es[i])]
  OBVIOUS
<1>2. DOMAIN t = DOMAIN es /\ \A i \in DOMAIN es : t[i].entry = es[i]
  BY <1>1, LineIs
<1>3. Entries(t) = [i \in DOMAIN es |-> es[i]]
  BY <1>2 DEF Entries
<1>. QED  BY <1>1, <1>3

(* LsShowsCurrent of a listing in the directory dir. *)
IsListing(dir, lines) ==
    IF dir = <<>> THEN AtLevel(lines, 0) = RootEntries
    ELSE \E i \in DOMAIN volume.root :
            /\ Named(dir, volume.root[i])
            /\ Entries(lines) = Visible(volume.slots[volume.root[i].cluster])

LEMMA ListsTheRoot ==
    ASSUME PlaceInv, AtRoot, ~ Ambiguous, ~ Misleading, NEW t,
           t = print_directory(root_directory_offset), ~ Overrun(t)
    PROVE  IsListing(current_directory, t)
<1>1. current_directory = <<>>
  BY RootIsRoot
<1>2. PICK base \in Offsets : base = root_directory_offset
  BY BasesAreOffsets
<1>3. Whole(t, 0, Visible(volume.root), base)
  BY <1>2, RootIsWhole DEF PlaceInv
<1>. QED  BY <1>1, <1>3 DEF Whole, IsListing, RootEntries

LEMMA ListsTheDirectory ==
    ASSUME PlaceInv, ~ AtRoot, ~ Ambiguous, ~ Misleading, NEW t,
           t = list_current_directory
    PROVE  IsListing(current_directory, t)
<1>1. PICK i \in DOMAIN volume.root :
         /\ Named(current_directory, current_entry)
         /\ current_entry = volume.root[i] /\ volume.root[i].kind = "dir"
  BY DEF PlaceInv, Located, InTheRoot, InADirectory
<1>2. PICK c \in Clusters : c = current_entry.cluster
  BY <1>1, VolumesAreOK DEF PlaceInv, VolumeOK
<1>3. PICK es : es = Visible(Slots(ClusterOffset(data_region_offset, c), ClusterSlots))
  OBVIOUS
<1>4. t = [j \in DOMAIN es |-> Line(0, es[j])]
  BY <1>2, <1>3 DEF list_current_directory
<1>5. es = Visible(volume.slots[c])
  BY <1>3, ClusterIsVisible DEF PlaceInv
<1>6. \E S : es \in Seq(S)
  <2>1. volume.slots[c] \in Seq(Range(volume.slots[c]))
    BY VolumesAssumption DEF PlaceInv
  <2>. QED  BY <1>5, <2>1, VisibleType
<1>7. Entries(t) = es
  BY <1>4, <1>6, ListingOfOne
<1>8. current_directory # <<>>
  BY BarePromptIsRoot
<1>. QED  BY <1>1, <1>2, <1>5, <1>7, <1>8 DEF IsListing

(* In whatever directory the prompt names, ls prints the entries of that
   directory, on a volume on which the prompt can be relied on; in the root
   directory, on the top level. *)
THEOREM LsAlwaysShowsCurrent == Spec => []LsShowsCurrent
<1>1. Init => LsShowsCurrent
  <2>1. NoReply.command # "ls"
    BY DEF NoReply, Reply
  <2>. QED  BY <2>1 DEF Init, LsShowsCurrent
<1>2. ASSUME PlaceInv, LsShowsCurrent, [Next]_vars
      PROVE  LsShowsCurrent'
  <2>1. ASSUME volume' = volume, reply' = reply  PROVE LsShowsCurrent'
    BY <1>2, <2>1, SameVolume DEF LsShowsCurrent, RootEntries, Lines, Named
  <2>2. ASSUME reply'.command # "ls"  PROVE LsShowsCurrent'
    BY <2>2 DEF LsShowsCurrent
  <2>3. CASE list_files
    <3>1. PICK t : t = IF AtRoot THEN print_directory(root_directory_offset)
                       ELSE list_current_directory
      OBVIOUS
    <3>2. Show("ls", t)
      BY <2>3, <3>1 DEF list_files
    <3>3. CASE volume' = volume /\ reply' = reply
      BY <2>1, <3>3
    <3>4. CASE /\ volume' = volume /\ ~ Overrun(t)
               /\ reply'.dir = current_directory /\ reply'.printed = t
      <4>1. ~ Ambiguous /\ ~ Misleading => IsListing(current_directory, t)
        <5>1. CASE AtRoot
          BY <1>2, <3>1, <3>4, <5>1, ListsTheRoot
        <5>2. CASE ~ AtRoot
          BY <1>2, <3>1, <5>2, ListsTheDirectory
        <5>. QED  BY <5>1, <5>2
      <4>2. (Ambiguous' <=> Ambiguous) /\ (Misleading' <=> Misleading)
        BY <3>4, SameVolume
      <4>. QED
        BY <3>4, <4>1, <4>2 DEF LsShowsCurrent, IsListing, RootEntries, Lines, Named
    <3>. QED  BY <3>2, <3>3, <3>4, ShowReplies
  <2>4. CASE print_tree
    <3>1. PICK t : Show("tree", t)
      BY <2>4 DEF print_tree
    <3>. QED  BY <2>1, <2>2, <3>1, ShowReplies
  <2>5. ASSUME NEW name, read(name)  PROVE LsShowsCurrent'
    BY <2>2, <2>5, ReplyIs DEF read
  <2>6. ASSUME NEW name, change_directory(name)  PROVE LsShowsCurrent'
    BY <2>2, <2>6 DEF change_directory, NoReply, Reply
  <2>7. CASE exit
    BY <2>2, <2>7 DEF exit, NoReply, Reply
  <2>8. CASE UNCHANGED vars
    BY <2>1, <2>8 DEF vars
  <2>. QED  BY <1>2, <2>3, <2>4, <2>5, <2>6, <2>7, <2>8 DEF Next
<1>. QED  BY <1>1, <1>2, PlaceInvAlways, PTL DEF Spec
===============================================================================
