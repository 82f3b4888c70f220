----------------------------- MODULE MCFormUpload -----------------------------
(***************************************************************************)
(* Small instances of FormUpload for TLC: forms with up to three parts     *)
(* whose data hold up to two tokens, among them lines that look like a     *)
(* boundary and like a Content-Length below and above the real one.        *)
(***************************************************************************)
EXTENDS FormUpload

MCTokens == {Data, Crlf, Blank, Multipart, Length(3), Length(40)}

MCParts(filenames, size) ==
    [filename : filenames, length : {None, 1},
     data : UNION {[1 .. n -> MCTokens] : n \in 0 .. size}]

MCForms ==
    LET many == MCParts({"a", None}, 1)
        two  == MCParts({"a", None}, 2)
    IN  {<<>>} \cup {<<p>> : p \in two}
        \cup {<<p, q>> : p \in two, q \in many}
        \cup {<<p, q, r>> : p \in MCParts({"a"}, 1), q \in MCParts({None}, 1),
                            r \in MCParts({"b"}, 1)}

MCRequests == [announced : {TRUE}, parts : MCForms]
              \cup [announced : {FALSE}, parts : {<<p>> : p \in MCParts({"a"}, 1)}]
===============================================================================
