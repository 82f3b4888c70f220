------------------------------ MODULE MCFatShell ------------------------------
(***************************************************************************)
(* Small volumes for FatShell: a directory A or PICTURES in the root       *)
(* directory, with a directory B in it, and two files, in every            *)
(* arrangement of the clusters 2 to 5 that gives each directory a cluster  *)
(* of its own.  The root directory starts at sector 4, so that cluster 4   *)
(* is the ambiguous one, and takes the place of one cluster.  The name     *)
(* PICTURES has eight characters, so that it can be followed by anything.  *)
(***************************************************************************)
EXTENDS FatShell

CONSTANT Sizes      \* sizes of the file F in bytes

Entry(name, ext, kind, cluster, size) ==
    [name |-> name, ext |-> ext, kind |-> kind, cluster |-> cluster, size |-> size]

Typed(parts, padded, up, file) ==
    [parts |-> parts, padded |-> padded, up |-> up, file |-> file]

MCNames == {Typed(<<"A">>, "A", FALSE, <<>>),
            Typed(<<"PICTURES.">>, "PICTURES", FALSE, <<"PICTURES", "">>),
            Typed(<<"PICTURES", "2024">>, "PICTURES", FALSE, <<>>),
            Typed(<<"..">>, "..", TRUE, <<>>),
            Typed(<<"F.TXT">>, "F.TXT", FALSE, <<"F", "TXT">>)}

Label   == Entry("LABEL", "", "label", 0, 0)
Deleted == Entry("?OLD", "", "deleted", 0, 0)
Boot    == Entry("boot code", "", "label", 0, 0)
Long    == Entry("long", "", "long name", 0, 0)

File(f, size) == Entry("F", "TXT", "file", f, size)

Root(a, f, size) == {<<Label, File(f, size), Entry("A", "", "dir", a, 0)>>,
                     <<Deleted, Long, Entry("PICTURES", "", "dir", a, 0), File(f, size)>>}

DirA(a, b) == <<Entry(".", "", "dir", a, 0), Entry("..", "", "dir", 0, 0),
                Entry("B", "", "dir", b, 0), Entry("G", "TXT", "file", 0, 0)>>

DirB(a, b) == <<Entry(".", "", "dir", b, 0), Entry("..", "", "dir", a, 0), Deleted>>

MCVolumes ==
    UNION {
        {[root |-> root, boot |-> boot, fat |-> fat,
          slots |-> [c \in Clusters |-> IF c = a THEN DirA(a, b)
                                          ELSE IF c = b THEN DirB(a, b) ELSE <<>>]]
          : boot \in {<<>>, <<Boot>>, <<Long, Long, Long, Deleted>>},
            root \in UNION {Root(a, f, size) : f \in Clusters \ {a, b}, size \in Sizes},
            fat \in {g \in [Clusters -> Clusters \cup {0}] : g[a] = 0 /\ g[b] = 0}}
        : <<a, b>> \in {<<x, y>> \in Clusters \X Clusters : x # y}}
===============================================================================
