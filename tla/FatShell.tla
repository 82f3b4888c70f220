-------------------------------- MODULE FatShell ------------------------------
(***************************************************************************)
(* The FAT16 shell of file_system/fat.c: a prompt that changes directory,  *)
(* lists a directory or the whole tree, and reads files of a disk image.   *)
(*                                                                         *)
(* Places on the disk are counted in directory slots of 32 bytes; a slot   *)
(* holds an entry, or End where the first byte of the name is zero.  A     *)
(* byte of a file is named by its cluster and its offset there.  An unused *)
(* slot is all zero.  Dates and layout are left out: a month of 0 or above *)
(* 12, for which format_datetime leaves its table, does not occur.  malloc *)
(* and fopen are taken to succeed.                                         *)
(*                                                                         *)
(* A name the user types is known by what the code makes of it:            *)
(*   parts   what its slashes separate, as it appears in the prompt        *)
(*   padded  its first eight characters, filled up with spaces: fill_name  *)
(*   up      does it begin with ".."?                                      *)
(*   file    the name and the extension read looks for, in capitals, or    *)
(*           <<>> if it has not the form NAME.EXT; NAME has at most eight  *)
(*           characters, as read has room for no more                      *)
(***************************************************************************)
EXTENDS Integers, Sequences, SequencesExt

CONSTANTS
    SectorSlots,        \* slots per sector
    ClusterSlots,       \* slots per cluster
    ClusterBytes,       \* bytes per cluster
    RootSector,         \* first sector of the root directory
    RootSlots,          \* root_dir_entries
    LastCluster,        \* the last number of a data cluster: 0xFFF7
    Volumes,            \* the volumes that may be in the image
    Names,              \* what the user may type as a name, see above
    MaxLevel,           \* print_directory has room to indent this many levels
    MaxPath             \* bound on the components of current_directory

ASSUME GeometryAssumption ==
    /\ {SectorSlots, ClusterSlots, ClusterBytes, RootSector, RootSlots}
           \subseteq Nat \ {0}
    /\ RootSlots % SectorSlots = 0 /\ ClusterSlots % SectorSlots = 0
    /\ RootSlots <= 512 /\ ClusterSlots <= 512      \* entries in print_directory
    /\ {LastCluster, MaxLevel, MaxPath} \subseteq Nat

Clusters == 2 .. LastCluster

ASSUME NamesAssumption ==
    \A n \in Names : n.parts \in Seq(STRING) \ {<<>>} /\ n.up \in BOOLEAN

IsDirectory(e) == e.kind \in {"dir", "hidden dir"} /\ e.name \notin {".", ".."}

(***************************************************************************)
(* A volume: the slots of the partition table sector, of the root          *)
(* directory and of each cluster, and the FAT.  A directory has at least   *)
(* one cluster; the first sectors hold anything, and a chain may go        *)
(* anywhere.                                                               *)
(***************************************************************************)
ASSUME VolumesAssumption ==
    \A v \in Volumes :
        /\ v.boot \in Seq(Range(v.boot)) /\ v.root \in Seq(Range(v.root))
        /\ \A c \in Clusters : v.slots[c] \in Seq(Range(v.slots[c]))
        /\ Len(v.root) <= RootSlots
        /\ \A c \in Clusters : Len(v.slots[c]) <= ClusterSlots
        /\ \A e \in Range(v.boot) : {e.cluster, e.size} \subseteq Nat
        /\ \A e \in Range(v.root) :
              /\ {e.cluster, e.size} \subseteq Nat
              /\ e.kind = "dir" \/ IsDirectory(e) => e.cluster \in Clusters
        /\ \A c \in Clusters : \A e \in Range(v.slots[c]) :
              /\ {e.cluster, e.size} \subseteq Nat
              /\ IsDirectory(e) => e.cluster \in Clusters
        /\ v.fat \in [Clusters -> Nat]

VARIABLES
    volume,                     \* never changes
    current_directory,          \* what the prompt shows after /root
    current_directory_offset,   \* in slots
    dir_depth,
    current_entry,              \* the entry of the last cd
    reply,                      \* what the last command was and printed
    status                      \* "prompt", "exit" or "overrun"

cwd  == <<current_directory, current_directory_offset, dir_depth, current_entry>>
vars == <<volume, cwd, reply, status>>

(***************************************************************************)
(* The disk: slots of the partition table sector, the root directory, and  *)
(* the clusters from number 2 on.  The bytes of files look like End.       *)
(***************************************************************************)
End == [name |-> "", ext |-> "", kind |-> "end", cluster |-> 0, size |-> 0]

root_directory_offset == RootSector * SectorSlots
data_region_offset    == root_directory_offset + RootSlots

(* A mistake for ClusterOffset: the first data cluster has number 1. *)
ClusterOffsetFromOne(base, c) == base + (c - 1) * ClusterSlots

ClusterOffset(base, c) == base + (c - 2) * ClusterSlots

Nth(s, i) == IF i \in DOMAIN s THEN s[i] ELSE End

SlotAt(k) ==
    IF k < root_directory_offset THEN Nth(volume.boot, k + 1)
    ELSE IF k < data_region_offset THEN Nth(volume.root, k - root_directory_offset + 1)
    ELSE LET d == k - data_region_offset
             c == 2 + d \div ClusterSlots
         IN  IF c \in Clusters THEN Nth(volume.slots[c], (d % ClusterSlots) + 1) ELSE End

Slots(k, n) == [i \in 1 .. n |-> SlotAt(k + i - 1)]

(* What a scan of at most n slots from k on sees: it stops at End. *)
BeforeEnd(s) == LET ends == {i \in DOMAIN s : s[i] = End}
                IN  IF ends = {} THEN s ELSE SubSeq(s, 1, Min(ends) - 1)

(* What stands at some places of s, in its order. *)
Chosen(s, places) ==
    LET First[n \in 0 .. Len(s)] ==
            IF n = 0 THEN <<>>
            ELSE IF n \in places THEN Append(First[n - 1], s[n]) ELSE First[n - 1]
    IN  First[Len(s)]

Visible(s) ==
    LET seen == BeforeEnd(s)
    IN  Chosen(seen, {i \in DOMAIN seen : seen[i].kind \notin {"deleted", "long name"}})

(***************************************************************************)
(* print_directory, started in the root directory; base is what its caller *)
(* takes for the start of cluster 2.  Beyond MaxLevel the indentation      *)
(* leaves its buffer.                                                      *)
(***************************************************************************)
Line(level, e) == [level |-> level, entry |-> e]

(* The entries es of a directory, each of them that is a directory followed
   by what lies below the place it leads to. *)
Listing(es, level, base, below) ==
    LET First[n \in 0 .. Len(es)] ==
            IF n = 0 THEN <<>>
            ELSE First[n - 1] \o <<Line(level, es[n])>>
                 \o (IF IsDirectory(es[n]) THEN below[ClusterOffset(base, es[n].cluster)]
                     ELSE <<>>)
    IN  First[Len(es)]

print_directory(base) ==
    LET Lines[room \in 0 .. MaxLevel + 1] == [k \in Int |->
            IF room = 0 THEN <<Line(MaxLevel + 1, End)>>
            ELSE LET level == MaxLevel + 1 - room
                     slots == Slots(k, IF level = 0 THEN RootSlots ELSE ClusterSlots)
                 IN  Listing(Visible(slots), level, base, Lines[room - 1])]
    IN  Lines[MaxLevel + 1][root_directory_offset]

Overrun(lines) == \E i \in DOMAIN lines : lines[i].level > MaxLevel

(* A mistake for list_current_directory: it lists from the place it seeks  *)
(* to first, the offset change_directory computed.                         *)
list_from_offset ==
    LET es == Visible(Slots(current_directory_offset, ClusterSlots))
    IN  [i \in DOMAIN es |-> Line(0, es[i])]

list_current_directory ==
    LET es == Visible(Slots(ClusterOffset(data_region_offset, current_entry.cluster),
                            ClusterSlots))
    IN  [i \in DOMAIN es |-> Line(0, es[i])]

(***************************************************************************)
(* The loop of read: left bytes of the file are missing, c is the next     *)
(* cluster.  What the chain does not deliver stays as malloc left it.      *)
(***************************************************************************)
Uninitialised == <<0, 0>>

(* A mistake for ReadLoop: the last cluster is read whole. *)
ReadLoopWhole(cluster, size) ==
    LET Loop[c \in Nat, left \in Int] ==
            IF c \notin Clusters \/ left <= 0
            THEN [i \in 1 .. left |-> Uninitialised]
            ELSE [i \in 1 .. ClusterBytes |-> <<c, i - 1>>]
                 \o Loop[volume.fat[c], left - ClusterBytes]
    IN  Loop[cluster, size]

ReadLoop(cluster, size) ==
    LET Loop[left \in 0 .. size] == [c \in Nat |->
            IF c \notin Clusters \/ left = 0
            THEN [i \in 1 .. left |-> Uninitialised]
            ELSE LET to_read == IF left > ClusterBytes THEN ClusterBytes ELSE left
                 IN  [i \in 1 .. to_read |-> <<c, i - 1>>]
                     \o Loop[left - to_read][volume.fat[c]]]
    IN  Loop[size][cluster]

(* Whatever the entry is: a file, a directory, the label of the volume. *)
Matches(e, name) == e.kind # "long name" /\ <<e.name, e.ext>> = name.file

Reply(command, name, dir, printed) ==
    [command |-> command, name |-> name, dir |-> dir, printed |-> printed]
NoReply == Reply("none", "", <<>>, <<>>)

AtRoot == current_directory_offset = root_directory_offset

Init ==
    /\ volume \in Volumes
    /\ current_directory = <<>> /\ dir_depth = 0
    /\ current_directory_offset = root_directory_offset
    /\ current_entry = End
    /\ reply = NoReply /\ status = "prompt"

(***************************************************************************)
(* Commands                                                                *)
(***************************************************************************)

(* A mistake for GoesUp: the root directory has no parent. *)
GoesUpAnywhere(name) == name.up

GoesUp(name) == name.up /\ dir_depth > 0

(* A mistake for ParentDirectory: the prompt is not cut. *)
ParentKeepingName ==
    /\ dir_depth' = dir_depth - 1
    /\ current_directory_offset' = root_directory_offset
    /\ UNCHANGED <<current_directory, current_entry>>

(* ".." leads to the root directory, from wherever, and cuts the prompt at *)
(* its last slash, be it one the user typed.                               *)
ParentDirectory ==
    /\ dir_depth' = dir_depth - 1
    /\ current_directory' = Front(current_directory)
    /\ current_directory_offset' = root_directory_offset
    /\ UNCHANGED current_entry

(* The scan of the root directory does not stop at End and wants the       *)
(* attribute byte to be exactly that of a directory.  It compares eight    *)
(* characters; the prompt gets all of them.                                *)
Enter(name) ==
    LET slots == Slots(root_directory_offset, RootSlots)
        i     == SelectInSeq(slots, LAMBDA e : e.kind = "dir" /\ e.name = name.padded)
    IN  IF i = 0 THEN UNCHANGED cwd
        ELSE /\ Len(current_directory \o name.parts) <= MaxPath
             /\ dir_depth' = dir_depth + 1
             /\ current_directory' = current_directory \o name.parts
             /\ current_directory_offset' = slots[i].cluster * SectorSlots
             /\ current_entry' = slots[i]

(* In a subdirectory there is no code for a name other than "..". *)
change_directory(name) ==
    /\ IF GoesUp(name) THEN ParentDirectory
       ELSE IF AtRoot THEN Enter(name)
       ELSE UNCHANGED cwd
    /\ reply' = NoReply
    /\ UNCHANGED <<volume, status>>

Show(command, lines) ==
    /\ IF Overrun(lines)
       THEN status' = "overrun" /\ UNCHANGED reply
       ELSE reply' = Reply(command, "", current_directory, lines) /\ UNCHANGED status
    /\ UNCHANGED <<volume, cwd>>

(* In the root directory the caller passes the wrong base. *)
list_files ==
    Show("ls", IF AtRoot THEN print_directory(root_directory_offset)
               ELSE list_current_directory)

print_tree == Show("tree", print_directory(data_region_offset))

(***************************************************************************)
(* In a subdirectory the file opened anew is not positioned: the entries   *)
(* come from the first sectors of the image, which are End or boot code.   *)
(* The first one that counts ends the scan; unless it matches, the buffer  *)
(* is printed as malloc left it, whatever its length.  If none counts, the *)
(* last slot read is taken for the file.                                   *)
(***************************************************************************)
ReadInSubdirectory(name) ==
    LET slots == Slots(0, ClusterSlots)
        seen  == Visible(slots)
        last  == IF BeforeEnd(slots) # slots THEN End ELSE Last(slots)
        found == IF seen = <<>> THEN last ELSE Head(seen)
    IN  IF seen # <<>> /\ ~Matches(found, name) THEN <<Uninitialised>>
        ELSE ReadLoop(found.cluster, found.size)

read(name) ==
    /\ LET slots == BeforeEnd(Slots(root_directory_offset, RootSlots))
           i     == SelectInSeq(slots, LAMBDA e : Matches(e, name))
           bytes == IF name.file = <<>> THEN <<>>
                    ELSE IF ~AtRoot THEN ReadInSubdirectory(name)
                    ELSE IF i = 0 THEN <<>>
                    ELSE ReadLoop(slots[i].cluster, slots[i].size)
       IN  reply' = Reply("read", name, current_directory, bytes)
    /\ UNCHANGED <<volume, cwd, status>>

exit == status' = "exit" /\ reply' = NoReply /\ UNCHANGED <<volume, cwd>>

Next ==
    /\ status = "prompt"
    /\ \/ \E name \in Names : change_directory(name) \/ read(name)
       \/ list_files \/ print_tree \/ exit

Spec == Init /\ [][Next]_vars

(***************************************************************************)
(* Properties                                                              *)
(***************************************************************************)
FatTypeOK ==
    /\ current_directory \in Seq(STRING)
    /\ dir_depth \in 0 .. MaxPath
    /\ current_directory_offset
           \in {root_directory_offset} \cup {c * SectorSlots : c \in Clusters}
    /\ status \in {"prompt", "exit", "overrun"}

(* A directory whose first cluster has the number of the root directory's  *)
(* first sector: change_directory takes its offset for the root's.         *)
Ambiguous ==
    \E i \in DOMAIN volume.root :
        volume.root[i].kind = "dir" /\ volume.root[i].cluster = RootSector

(* A directory whose name has eight characters is entered with a name that *)
(* goes on behind them; a slash there stays in the prompt after "..".      *)
Misleading ==
    \E n \in Names : \E i \in DOMAIN volume.root :
        /\ Len(n.parts) > 1
        /\ volume.root[i].kind = "dir" /\ volume.root[i].name = n.padded

(* What follows /root in the prompt is a name cd takes for entry e. *)
Named(dir, e) == \E n \in Names : n.parts = dir /\ n.padded = e.name

(* change_directory: after any sequence of cd commands the four variables  *)
(* that say where the shell is agree.  ".." never cuts off the "/root" of  *)
(* the prompt, and as long as no directory can be taken for the root, the  *)
(* shell is in the root directory, or one level below it at the cluster of *)
(* the directory it entered.  If moreover no directory can be entered with *)
(* a name that has a slash, the prompt is bare in the root directory and   *)
(* else names the directory the shell is in.                               *)
PromptIsTrue ==
    /\ dir_depth <= Len(current_directory)
    /\ \/ Ambiguous
       \/ /\ AtRoot /\ dir_depth = 0
          /\ Misleading \/ current_directory = <<>>
       \/ /\ dir_depth = 1
          /\ current_directory_offset = current_entry.cluster * SectorSlots
          /\ Misleading \/ Named(current_directory, current_entry)

Lines == reply.printed
Entries(lines) == [i \in DOMAIN lines |-> lines[i].entry]
RootEntries == Visible(volume.root)

AtLevel(lines, l) == Chosen(Entries(lines), {i \in DOMAIN lines : lines[i].level = l})

(* The lines one level below line i, up to the next line of its level. *)
Below(lines, i) ==
    LET l == lines[i].level
    IN  Chosen(Entries(lines), {j \in DOMAIN lines :
            /\ j > i /\ lines[j].level = l + 1
            /\ \A k \in i + 1 .. j : lines[k].level > l})

(* print_tree: the lines are the tree of the volume.  On top are the       *)
(* entries of the root directory; below each directory, and nowhere else,  *)
(* stand its own entries, in their order, at any depth.                    *)
TreeIsHierarchy ==
    reply.command = "tree" =>
        /\ AtLevel(Lines, 0) = RootEntries
        /\ \A i \in DOMAIN Lines :
               Below(Lines, i) = IF IsDirectory(Lines[i].entry)
                                 THEN Visible(volume.slots[Lines[i].entry.cluster])
                                 ELSE <<>>

(* list_files: whatever was entered, left or listed before, ls prints the  *)
(* entries of the directory the prompt names, if the prompt can be relied  *)
(* on, see PromptIsTrue.  In the root directory this is said of the top    *)
(* level only: what is indented below comes from the wrong sectors.        *)
LsShowsCurrent ==
    reply.command = "ls" /\ ~Ambiguous /\ ~Misleading =>
        IF reply.dir = <<>> THEN AtLevel(Lines, 0) = RootEntries
        ELSE \E i \in DOMAIN volume.root :
                /\ Named(reply.dir, volume.root[i])
                /\ Entries(Lines) = Visible(volume.slots[volume.root[i].cluster])

(* The cluster n links after c, or 0 behind the end of the chain. *)
ClusterAfter(c, n) ==
    LET At[k \in 0 .. n] == IF k = 0 THEN c
                         ELSE IF At[k - 1] \in Clusters THEN volume.fat[At[k - 1]] ELSE 0
    IN  IF At[n] \in Clusters THEN At[n] ELSE 0

(* read, in the root directory: byte b of the output is byte b of the      *)
(* file, found through the FAT alone, for every size and every chain, also *)
(* one that is too short or runs in a circle; behind a chain that ends     *)
(* early the bytes are those malloc returned.                              *)
ReadIsExact ==
    reply.command = "read" /\ reply.dir = <<>> =>
        \E f \in {e \in ToSet(volume.root) : Matches(e, reply.name)} \cup {End} :
            /\ f = End => \A e \in ToSet(BeforeEnd(volume.root)) :
                             ~Matches(e, reply.name)
            /\ Len(reply.printed) = f.size
            /\ \A b \in 0 .. f.size - 1 :
                  LET c == ClusterAfter(f.cluster, b \div ClusterBytes)
                  IN  reply.printed[b + 1] =
                          IF c = 0 THEN Uninitialised ELSE <<c, b % ClusterBytes>>
===============================================================================
